-------------------------- MODULE ControllerProofs --------------------------
(***************************************************************************)
(* Proofs about Controller.tla for every topology, every number of         *)
(* goroutines and every bound: the type invariant, HandleMatchesContainer, *)
(* NoResurrection, and that the registry implements Registry.tla; and for  *)
(* requests handled one at a time: NoOverlap, StoreCurrent, ClockAgrees    *)
(* and FakedIsTracked.                                                     *)
(***************************************************************************)
EXTENDS ControllerRefinement, SequenceTheorems, FiniteSetTheorems, TLAPS

(***************************************************************************)
(* What steps do to pages and to the length of objs never invalidates an   *)
(* entry that was fine before.                                             *)
(***************************************************************************)
\* No page of pgs is lost or handed to another container in pgs2.
PagesKept(pgs, pgs2) ==
    /\ pgs2 \in Seq(Page)
    /\ Len(pgs) <= Len(pgs2)
    /\ \A h \in 1 .. Len(pgs) : pgs2[h].c = pgs[h].c /\ pgs2[h].inc = pgs[h].inc

\* Entries stay valid when pages are added or rewritten.
LEMMA IssuedKept ==
    ASSUME NEW pgs \in Seq(Page), NEW pgs2, PagesKept(pgs, pgs2),
           NEW handles, AllIssued(handles, pgs)
    PROVE  AllIssued(handles, pgs2)
BY DEF PagesKept, AllIssued, IssuedFor

\* The same for an encoded registry, also when more ids are allocated.
LEMMA DataKept ==
    ASSUME NEW pgs \in Seq(Page), NEW pgs2, PagesKept(pgs, pgs2),
           NEW n \in Nat, NEW n2 \in Nat, n <= n2,
           NEW data, DataInv(data, pgs, n)
    PROVE  DataInv(data, pgs2, n2)
BY IssuedKept DEF DataInv

\* The same for the locals of a thread.
LEMMA ThreadKept ==
    ASSUME NEW pgs \in Seq(Page), NEW pgs2, PagesKept(pgs, pgs2),
           NEW n \in Nat, NEW n2 \in Nat, n <= n2,
           NEW l \in Thread, ThreadInv(l, pgs, n)
    PROVE  ThreadInv(l, pgs2, n2)
<1>1. AllIssued(l.hs, pgs2)
  BY IssuedKept DEF ThreadInv
<1>2. UpdInv(l.hs, l.upd, pgs2)
  <2> SUFFICES ASSUME NEW u \in l.upd
               PROVE  /\ u.idx \in 1 .. Len(l.hs)
                      /\ u.new \in 1 .. Len(pgs2)
                      /\ pgs2[u.new].c = l.hs[u.idx].c /\ pgs2[u.new].inc = l.hs[u.idx].inc
    BY DEF UpdInv
  <2>1. /\ u.idx \in 1 .. Len(l.hs)
        /\ u.new \in 1 .. Len(pgs)
        /\ pgs[u.new].c = l.hs[u.idx].c /\ pgs[u.new].inc = l.hs[u.idx].inc
    BY DEF ThreadInv, UpdInv
  <2> QED
    BY <2>1 DEF PagesKept
<1>3. DataInv(l.data, pgs2, n2)
  BY DataKept DEF ThreadInv
<1> QED
  BY <1>1, <1>2, <1>3 DEF ThreadInv

(***************************************************************************)
(* The frame of every step of a thread: what has to be shown of the new    *)
(* state for the invariant to hold again.                                  *)
(***************************************************************************)
UsedType == [req : Nat, faults : Nat, crashes : Nat]

ObjsInv(os, pgs) ==
    /\ os \in Seq(Timeshift)
    /\ \A id \in 1 .. Len(os) : os[id].id = id /\ AllIssued(os[id].handles, pgs)

\* The frame of every step of a thread t whose locals become l.
LEMMA ThreadStep ==
    ASSUME HandleInv, ClusterTypeOK', PagesKept(pages, pages'),
           ObjsInv(objs', pages'), Len(objs) <= Len(objs'),
           registry' \subseteq 1 .. Len(objs'), expired' \subseteq Nat,
           store' \in [exists : BOOLEAN, data : SUBSET Timeshift],
           DataInv(store'.data, pages', Len(objs')),
           gauge' \in Int, used' \in UsedType,
           NEW t \in Threads, NEW l \in Thread, ThreadInv(l, pages', Len(objs')),
           thr' = [thr EXCEPT ![t] = l]
    PROVE  HandleInv'
<1>1. Len(objs) \in Nat /\ Len(objs') \in Nat /\ pages \in Seq(Page)
  BY DEF HandleInv, TypeOK, ClusterTypeOK, ObjsInv
<1>2. TypeOK'
  BY <1>1 DEF HandleInv, TypeOK, ObjsInv, UsedType
<1>3. \A u \in Threads : ThreadInv(thr'[u], pages', Len(objs'))
  <2> SUFFICES ASSUME NEW u \in Threads PROVE ThreadInv(thr'[u], pages', Len(objs'))
    OBVIOUS
  <2>1. CASE u = t
    BY <2>1 DEF HandleInv, TypeOK
  <2>2. CASE u # t
    <3>1. thr'[u] = thr[u] /\ thr[u] \in Thread /\ ThreadInv(thr[u], pages, Len(objs))
      BY <2>2 DEF HandleInv, TypeOK
    <3> QED BY <3>1, <1>1, ThreadKept
  <2> QED BY <2>1, <2>2
<1> QED
  BY <1>2, <1>3 DEF HandleInv, ObjsInv

\* What a step changes that stays within the controller: a thread's locals, the
\* gauge and the counters, and the registry by removal only.
LocalFrame ==
    /\ UNCHANGED <<clusterVars, objs, expired, store>>
    /\ registry' \subseteq registry
    /\ gauge' \in Int /\ used' \in UsedType

\* Such a step keeps the invariant if the acting thread's new locals are good.
LEMMA LocalStep ==
    ASSUME HandleInv, LocalFrame, NEW t \in Threads, NEW l \in Thread, ThreadInv(l, pages, Len(objs)),
           thr' = [thr EXCEPT ![t] = l]
    PROVE  HandleInv'
<1>1. ClusterTypeOK'
  BY DEF LocalFrame, HandleInv, TypeOK, ClusterTypeOK, clusterVars
<1>2. PagesKept(pages, pages')
  BY DEF HandleInv, TypeOK, ClusterTypeOK, clusterVars, PagesKept, LocalFrame
<1>3. ObjsInv(objs', pages') /\ Len(objs) <= Len(objs')
  BY DEF HandleInv, TypeOK, clusterVars, ObjsInv, LocalFrame
<1> QED
  BY <1>1, <1>2, <1>3, ThreadStep DEF LocalFrame, HandleInv, TypeOK, clusterVars

\* The idle thread satisfies the invariant whatever the rest of the state.
LEMMA IdleOK == /\ Idle \in Thread
                /\ \A pgs : \A n \in Nat : ThreadInv(Idle, pgs, n)
BY DEF Idle, Thread, ThreadInv, AllIssued, UpdInv, DataInv, Clock, Real, PCs, Timeshift, Match

\* What the invariant says of one thread and of the variables around it.
LEMMA Facts ==
    ASSUME HandleInv, NEW t \in Threads
    PROVE  /\ thr[t] \in Thread /\ ThreadInv(thr[t], pages, Len(objs))
           /\ thr \in [Threads -> Thread]
           /\ ClusterTypeOK /\ pages \in Seq(Page) /\ Len(pages) \in Nat
           /\ objs \in Seq(Timeshift) /\ Len(objs) \in Nat /\ registry \subseteq 1 .. Len(objs)
           /\ used \in UsedType /\ gauge \in Int
BY DEF HandleInv, TypeOK, ClusterTypeOK, UsedType

\* Counting a request or a fault keeps the counters' type.
LEMMA UsedKept ==
    ASSUME used \in UsedType
    PROVE  /\ Fault => used' \in UsedType
           /\ \A op : Request(op) => used' \in UsedType
           /\ \A t : CallFails(t) => used' \in UsedType
BY DEF UsedType, Fault, Request, CallFails

\* Which steps those are.
LEMMA LocalFrames ==
    ASSUME HandleInv, NEW t \in Threads
    PROVE  /\ \A sel, k, ttl : CreateStart(t, sel, k, ttl) => LocalFrame
           /\ \A cid : InjectErr(t, cid) => LocalFrame
           /\ CreateCheck(t) => LocalFrame
           /\ CreateNone(t) \/ GaugeInc(t) \/ Encode(t) \/ FlushGet(t) \/ FlushErr(t) => LocalFrame
           /\ \A id, k : UpdateStart(t, id, k) => LocalFrame
           /\ \A id, delta, freeze : AdvanceRead(t, id, delta, freeze) => LocalFrame
           /\ AdvanceUpdate(t) \/ SetTimeErr(t) \/ SetTimeNotFound(t) \/ ReinjectErr(t) => LocalFrame
           /\ \A id : DeleteRemove(t, id) \/ SweepNext(t, id) => LocalFrame
           /\ GaugeDec(t) \/ SweepRemove(t) \/ SweepDone(t) \/ ResetErr(t) \/ ResetDone(t) => LocalFrame
           /\ \A p : WatchReceive(t, p) => LocalFrame
           /\ \A m : WatchNext(t, m) => LocalFrame
           /\ WatchMatch(t) \/ WatchDone(t) \/ ClientGone(t) => LocalFrame
<1>1. used \in UsedType /\ gauge \in Int
  BY Facts
<1>2. gauge + 1 \in Int /\ gauge - 1 \in Int
  BY <1>1
<1> QED
  BY <1>1, <1>2, UsedKept DEF LocalFrame, CreateStart, CreateCheck, InjectErr, CreateNone, GaugeInc, Encode,
     FlushGet, FlushErr, UpdateStart, AdvanceRead, AdvanceUpdate, SetTimeErr, SetTimeNotFound,
     ReinjectErr, DeleteRemove, SweepNext, GaugeDec, SweepRemove, SweepDone, ResetErr, ResetDone,
     WatchReceive, WatchNext, WatchMatch, WatchDone, ClientGone

(***************************************************************************)
(* Steps that touch only the thread's locals, the gauge and the counters,  *)
(* or take ids out of the registry.                                        *)
(***************************************************************************)
\* Steps that end a handler, a sweep or a pod event.
LEMMA ToIdleInv ==
    ASSUME HandleInv, NEW t \in Threads, CreateNone(t) \/ SweepDone(t) \/ WatchDone(t)
    PROVE  HandleInv'
<1>1. Len(objs) \in Nat
  BY Facts
<1>2. thr' = [thr EXCEPT ![t] = Idle]
  BY DEF CreateNone, SweepDone, WatchDone
<1>3. LocalFrame
  BY LocalFrames
<1> QED
  BY <1>1, <1>2, <1>3, IdleOK, LocalStep

\* Steps that only move on to the next one.
LEMMA GotoInv ==
    ASSUME HandleInv, NEW t \in Threads, GaugeInc(t) \/ GaugeDec(t) \/ FlushGet(t)
    PROVE  HandleInv'
<1>1. /\ thr[t] \in Thread /\ ThreadInv(thr[t], pages, Len(objs)) /\ Len(objs) \in Nat
      /\ thr \in [Threads -> Thread]
  BY Facts
<1>2. PICK p \in {"encode", "cmUpdate", "cmCreate"} : thr' = [thr EXCEPT ![t].pc = p]
  BY DEF GaugeInc, GaugeDec, FlushGet, Goto
<1> DEFINE l == [thr[t] EXCEPT !.pc = p]
<1>3. thr' = [thr EXCEPT ![t] = l]
  BY <1>1, <1>2
<1>4. l \in Thread /\ ThreadInv(l, pages, Len(objs))
  <2>1. thr[t].upd = {}
    BY <1>1 DEF ThreadInv, GaugeInc, GaugeDec, FlushGet
  <2> QED BY <1>1, <2>1 DEF Thread, PCs, ThreadInv
<1>5. LocalFrame
  BY LocalFrames
<1> HIDE DEF l
<1> QED
  BY <1>3, <1>4, <1>5, LocalStep

\* Moving on to the next handle, as every loop over handles does.
LEMMA NextHandleOK ==
    ASSUME NEW x \in Thread, NEW pgs, NEW n \in Nat, ThreadInv(x, pgs, n), x.pc # "reinject"
    PROVE  LET l == [x EXCEPT !.i = @ + 1] IN l \in Thread /\ ThreadInv(l, pgs, n)
<1> DEFINE l == [x EXCEPT !.i = @ + 1]
<1>1. x.i \in Nat /\ x.i + 1 \in Nat /\ x.i + 1 >= 1
  BY DEF Thread
<1>2. l \in Thread
  BY <1>1 DEF Thread
<1>3. /\ l.pc = x.pc /\ l.id = x.id /\ l.i = x.i + 1 /\ l.hs = x.hs /\ l.upd = x.upd
      /\ l.data = x.data /\ l.ids = x.ids /\ l.matched = x.matched
  BY DEF Thread
<1> HIDE DEF l
<1>4. ThreadInv(l, pgs, n)
  BY <1>1, <1>3 DEF ThreadInv
<1> QED
  BY <1>2, <1>4 DEF l

\* A failed SetTime or Reset is skipped.
LEMMA SkipHandleInv ==
    ASSUME HandleInv, NEW t \in Threads, SetTimeErr(t) \/ ResetErr(t)
    PROVE  HandleInv'
<1> DEFINE l == [thr[t] EXCEPT !.i = @ + 1]
<1>1. /\ thr[t] \in Thread /\ ThreadInv(thr[t], pages, Len(objs)) /\ Len(objs) \in Nat
      /\ thr \in [Threads -> Thread]
  BY Facts
<1>2. thr[t].pc # "reinject" /\ thr' = [thr EXCEPT ![t] = l]
  BY <1>1 DEF SetTimeErr, ResetErr, AtReset, NextHandle
<1>3. l \in Thread /\ ThreadInv(l, pages, Len(objs))
  BY <1>1, <1>2, NextHandleOK
<1>4. LocalFrame
  BY LocalFrames
<1> HIDE DEF l
<1> QED
  BY <1>2, <1>3, <1>4, LocalStep

\* A create request lists the pods.
LEMMA CreateStartInv ==
    ASSUME HandleInv, NEW t \in Threads, NEW sel \in Selectors, NEW k \in Clocks, NEW ttl \in TTLs, CreateStart(t, sel, k, ttl)
    PROVE  HandleInv'
<1> DEFINE l == [Idle EXCEPT !.pc = "check", !.op = "create", !.sel = sel,
                             !.clock = k, !.ttl = ttl, !.todo = RunningIn(sel)]
<1>1. /\ thr[t] \in Thread /\ ThreadInv(thr[t], pages, Len(objs)) /\ Len(objs) \in Nat
      /\ thr \in [Threads -> Thread] /\ objs \in Seq(Timeshift) /\ registry \subseteq 1 .. Len(objs)
  BY Facts
<1>3. thr' = [thr EXCEPT ![t] = l]
  BY <1>1 DEF CreateStart
<1>0. RunningIn(sel) \subseteq ContainerID
  BY DEF RunningIn, ContainerID, HandleInv, TypeOK, ClusterTypeOK
<1>4. l \in Thread
  BY IdleOK, <1>1, <1>0, RequestAssumption DEF Thread, PCs, Idle
<1>5. ThreadInv(l, pages, Len(objs))
  BY IdleOK, <1>1, <1>0, RequestAssumption DEF ThreadInv, Idle, CreateStart
<1>6. LocalFrame
  BY LocalFrames
<1> HIDE DEF l
<1> QED
  BY <1>3, <1>4, <1>5, <1>6, LocalStep

\* The conflict check ends the request or lets it go on.
LEMMA CreateCheckInv ==
    ASSUME HandleInv, NEW t \in Threads, CreateCheck(t)
    PROVE  HandleInv'
<1> DEFINE l == [thr[t] EXCEPT !.pc = "inject"]
<1>1. /\ thr[t] \in Thread /\ ThreadInv(thr[t], pages, Len(objs)) /\ Len(objs) \in Nat
      /\ thr \in [Threads -> Thread]
  BY Facts
<1>2. LocalFrame
  BY LocalFrames
<1>3. thr' = [thr EXCEPT ![t] = Idle] \/ thr' = [thr EXCEPT ![t] = l]
  BY <1>1 DEF CreateCheck
<1>4. l \in Thread
  BY <1>1 DEF Thread, PCs
<1>5. ThreadInv(l, pages, Len(objs))
  BY <1>1 DEF ThreadInv, CreateCheck
<1> HIDE DEF l
<1> QED
  BY <1>1, <1>2, <1>3, <1>4, <1>5, IdleOK, LocalStep

\* An injection that fails is skipped.
LEMMA InjectErrInv ==
    ASSUME HandleInv, NEW t \in Threads, NEW cid \in thr[t].todo, InjectErr(t, cid)
    PROVE  HandleInv'
<1> DEFINE l == [thr[t] EXCEPT !.todo = @ \ {cid}]
<1>1. /\ thr[t] \in Thread /\ ThreadInv(thr[t], pages, Len(objs)) /\ Len(objs) \in Nat
      /\ thr \in [Threads -> Thread] /\ objs \in Seq(Timeshift) /\ registry \subseteq 1 .. Len(objs)
  BY Facts
<1>3. thr' = [thr EXCEPT ![t] = l]
  BY <1>1 DEF InjectErr
<1>4. l \in Thread
  BY <1>1 DEF Thread, PCs
<1>5. ThreadInv(l, pages, Len(objs))
  BY <1>1 DEF ThreadInv, InjectErr
<1>6. LocalFrame
  BY LocalFrames
<1> HIDE DEF l
<1> QED
  BY <1>3, <1>4, <1>5, <1>6, LocalStep

\* persist encodes good timeshifts only.
LEMMA EncodeInv ==
    ASSUME HandleInv, NEW t \in Threads, Encode(t)
    PROVE  HandleInv'
<1> DEFINE l == [thr[t] EXCEPT !.pc = "get", !.data = {objs[id] : id \in registry}]
<1>1. /\ thr[t] \in Thread /\ ThreadInv(thr[t], pages, Len(objs)) /\ Len(objs) \in Nat
      /\ thr \in [Threads -> Thread] /\ objs \in Seq(Timeshift) /\ registry \subseteq 1 .. Len(objs)
  BY Facts
<1>3. thr' = [thr EXCEPT ![t] = l]
  BY <1>1 DEF Encode
<1>0. {objs[id] : id \in registry} \in SUBSET Timeshift
      /\ DataInv({objs[id] : id \in registry}, pages, Len(objs))
  BY <1>1 DEF HandleInv, DataInv
<1>4. l \in Thread
  BY <1>1, <1>0 DEF Thread, PCs
<1>5. ThreadInv(l, pages, Len(objs))
  BY <1>1, <1>0 DEF ThreadInv, Encode
<1>6. LocalFrame
  BY LocalFrames
<1> HIDE DEF l
<1> QED
  BY <1>3, <1>4, <1>5, <1>6, LocalStep

\* Wherever the caller of persist continues, its locals stay good.
LEMMA AfterPersistOK ==
    ASSUME NEW l \in Thread, NEW pgs, NEW n \in Nat, ThreadInv(l, pgs, n),
           l.pc \in {"get", "cmCreate", "cmUpdate"}
    PROVE  AfterPersist(l) \in Thread /\ ThreadInv(AfterPersist(l), pgs, n)
<1>1. CASE l.op = "delete"
  <2> DEFINE m == [l EXCEPT !.pc = "reset", !.i = 1, !.data = {}]
  <2>1. AfterPersist(l) = m
    BY <1>1 DEF AfterPersist
  <2>2. m \in Thread
    BY DEF Thread, PCs
  <2>3. ThreadInv(m, pgs, n)
    BY DEF Thread, ThreadInv, DataInv
  <2> HIDE DEF m
  <2> QED BY <2>1, <2>2, <2>3
<1>2. CASE l.op # "delete" /\ l.op = "sweep"
  BY <1>2 DEF AfterPersist, Thread, PCs, ThreadInv, DataInv
<1>3. CASE l.op # "delete" /\ l.op # "sweep"
  BY <1>3, IdleOK DEF AfterPersist
<1> QED
  BY <1>1, <1>2, <1>3

\* A flush that fails leaves the ConfigMap alone.
LEMMA FlushErrInv ==
    ASSUME HandleInv, NEW t \in Threads, FlushErr(t)
    PROVE  HandleInv'
<1> DEFINE l == AfterPersist(thr[t])
<1>1. /\ thr[t] \in Thread /\ ThreadInv(thr[t], pages, Len(objs)) /\ Len(objs) \in Nat
      /\ thr \in [Threads -> Thread] /\ objs \in Seq(Timeshift) /\ registry \subseteq 1 .. Len(objs)
  BY Facts
<1>3. thr' = [thr EXCEPT ![t] = l]
  BY <1>1 DEF FlushErr
<1>0. l \in Thread /\ ThreadInv(l, pages, Len(objs))
  BY <1>1, AfterPersistOK DEF FlushErr
<1>4. l \in Thread
  BY <1>1, <1>0 DEF Thread, PCs
<1>5. ThreadInv(l, pages, Len(objs))
  BY <1>1, <1>0 DEF ThreadInv, FlushErr
<1>6. LocalFrame
  BY LocalFrames
<1> HIDE DEF l
<1> QED
  BY <1>3, <1>4, <1>5, <1>6, LocalStep

\* An update takes a snapshot of the handles.
LEMMA UpdateStartInv ==
    ASSUME HandleInv, NEW t \in Threads, NEW id \in registry, NEW k \in Clocks, UpdateStart(t, id, k)
    PROVE  HandleInv'
<1> DEFINE l == Snapshot(id, k)
<1>1. /\ thr[t] \in Thread /\ ThreadInv(thr[t], pages, Len(objs)) /\ Len(objs) \in Nat
      /\ thr \in [Threads -> Thread] /\ objs \in Seq(Timeshift) /\ registry \subseteq 1 .. Len(objs)
  BY Facts
<1>3. thr' = [thr EXCEPT ![t] = l]
  BY <1>1 DEF UpdateStart
<1>a. objs[id] \in Timeshift /\ id \in 1 .. Len(objs) /\ id \in Nat /\ k \in Clock
  BY <1>1, ElementOfSeq, RequestAssumption
<1>0. objs[id].handles \in Seq(ContainerHandle) /\ AllIssued(objs[id].handles, pages)
  BY <1>a DEF HandleInv, Timeshift
<1>4. l \in Thread
  BY IdleOK, <1>1, <1>0, <1>a DEF Thread, PCs, Idle, Snapshot
<1>5. ThreadInv(l, pages, Len(objs))
  BY IdleOK, <1>1, <1>0, <1>a DEF ThreadInv, Idle, UpdateStart, Snapshot, UpdInv
<1>6. LocalFrame
  BY LocalFrames
<1> HIDE DEF l
<1> QED
  BY <1>3, <1>4, <1>5, <1>6, LocalStep

\* An advance reads the clock and keeps the id only.
LEMMA AdvanceReadInv ==
    ASSUME HandleInv, NEW t \in Threads, NEW id \in registry, NEW delta \in Deltas, NEW freeze \in Freezes, AdvanceRead(t, id, delta, freeze)
    PROVE  HandleInv'
<1> DEFINE l == [Idle EXCEPT !.pc = "lookup", !.op = "advance", !.id = id,
                 !.clock = [frozen |-> freeze, at |-> objs[id].clock.at + delta]]
<1>1. /\ thr[t] \in Thread /\ ThreadInv(thr[t], pages, Len(objs)) /\ Len(objs) \in Nat
      /\ thr \in [Threads -> Thread] /\ objs \in Seq(Timeshift) /\ registry \subseteq 1 .. Len(objs)
  BY Facts
<1>3. thr' = [thr EXCEPT ![t] = l]
  BY <1>1 DEF AdvanceRead
<1>a. objs[id] \in Timeshift /\ id \in 1 .. Len(objs) /\ id \in Nat
  BY <1>1, ElementOfSeq
<1>0. [frozen |-> freeze, at |-> objs[id].clock.at + delta] \in Clock
  BY <1>a, RequestAssumption DEF Timeshift, Clock
<1>4. l \in Thread
  BY IdleOK, <1>1, <1>0, <1>a DEF Thread, PCs, Idle
<1>5. ThreadInv(l, pages, Len(objs))
  BY IdleOK, <1>1, <1>0, <1>a DEF ThreadInv, Idle, AdvanceRead
<1>6. LocalFrame
  BY LocalFrames
<1> HIDE DEF l
<1> QED
  BY <1>3, <1>4, <1>5, <1>6, LocalStep

\* An advance goes on as an update, if the timeshift is still there.
LEMMA AdvanceUpdateInv ==
    ASSUME HandleInv, NEW t \in Threads, AdvanceUpdate(t)
    PROVE  HandleInv'
<1> DEFINE l == [Snapshot(thr[t].id, thr[t].clock) EXCEPT !.op = "advance", !.cut = thr[t].cut]
<1>1. /\ thr[t] \in Thread /\ ThreadInv(thr[t], pages, Len(objs)) /\ Len(objs) \in Nat
      /\ thr \in [Threads -> Thread] /\ objs \in Seq(Timeshift) /\ registry \subseteq 1 .. Len(objs)
  BY Facts
<1>2. LocalFrame
  BY LocalFrames
<1>3. CASE thr[t].id \in registry
  <2>1. thr' = [thr EXCEPT ![t] = l]
    BY <1>1, <1>3 DEF AdvanceUpdate
  <2>2. objs[thr[t].id] \in Timeshift
    BY <1>1, <1>3, ElementOfSeq
  <2>3. objs[thr[t].id].handles \in Seq(ContainerHandle) /\ AllIssued(objs[thr[t].id].handles, pages)
    BY <1>1, <1>3, <2>2 DEF HandleInv, Timeshift
  <2>4. /\ thr[t].id \in Nat /\ thr[t].clock \in Clock /\ thr[t].cut \in BOOLEAN
        /\ thr[t].id \in 0 .. Len(objs)
    BY <1>1 DEF Thread, ThreadInv
  <2>5. l \in Thread
    BY <2>3, <2>4, IdleOK DEF Snapshot, Thread, PCs, Idle
  <2>6. ThreadInv(l, pages, Len(objs))
    BY <1>1, <2>3, <2>4, IdleOK DEF Snapshot, ThreadInv, UpdInv, Idle
  <2> HIDE DEF l
  <2> QED BY <1>2, <2>1, <2>5, <2>6, LocalStep
<1>4. CASE thr[t].id \notin registry
  <2>1. thr' = [thr EXCEPT ![t] = Idle]
    BY <1>1, <1>4 DEF AdvanceUpdate
  <2> QED BY <1>1, <1>2, <2>1, IdleOK, LocalStep
<1> QED
  BY <1>3, <1>4

\* NOT_FOUND leads to the re-injection of the handle at the loop index.
LEMMA SetTimeNotFoundInv ==
    ASSUME HandleInv, NEW t \in Threads, SetTimeNotFound(t)
    PROVE  HandleInv'
<1> DEFINE l == [thr[t] EXCEPT !.pc = "reinject"]
<1>1. /\ thr[t] \in Thread /\ ThreadInv(thr[t], pages, Len(objs)) /\ Len(objs) \in Nat
      /\ thr \in [Threads -> Thread] /\ objs \in Seq(Timeshift) /\ registry \subseteq 1 .. Len(objs)
  BY Facts
<1>3. thr' = [thr EXCEPT ![t] = l]
  BY <1>1 DEF SetTimeNotFound, Goto
<1>4. l \in Thread
  BY <1>1 DEF Thread, PCs, AtHandle
<1>5. ThreadInv(l, pages, Len(objs))
  BY <1>1 DEF ThreadInv, SetTimeNotFound, AtHandle
<1>6. LocalFrame
  BY LocalFrames
<1> HIDE DEF l
<1> QED
  BY <1>3, <1>4, <1>5, <1>6, LocalStep

\* A re-injection that fails records nothing.
LEMMA ReinjectErrInv ==
    ASSUME HandleInv, NEW t \in Threads, ReinjectErr(t)
    PROVE  HandleInv'
<1> DEFINE l == [thr[t] EXCEPT !.pc = "settime", !.i = @ + 1]
<1>1. /\ thr[t] \in Thread /\ ThreadInv(thr[t], pages, Len(objs)) /\ Len(objs) \in Nat
      /\ thr \in [Threads -> Thread] /\ objs \in Seq(Timeshift) /\ registry \subseteq 1 .. Len(objs)
  BY Facts
<1>3. thr' = [thr EXCEPT ![t] = l]
  BY <1>1 DEF ReinjectErr
<1>0. thr[t].i \in Nat /\ thr[t].i + 1 \in Nat /\ thr[t].i + 1 >= 1
  BY <1>1 DEF Thread
<1>4. l \in Thread
  BY <1>1, <1>0 DEF Thread, PCs
<1>5. ThreadInv(l, pages, Len(objs))
  BY <1>1, <1>0 DEF ThreadInv, ReinjectErr
<1>6. LocalFrame
  BY LocalFrames
<1> HIDE DEF l
<1> QED
  BY <1>3, <1>4, <1>5, <1>6, LocalStep

\* A delete takes the id out of the registry and keeps the pointer.
LEMMA DeleteRemoveInv ==
    ASSUME HandleInv, NEW t \in Threads, NEW id \in registry, DeleteRemove(t, id)
    PROVE  HandleInv'
<1> DEFINE l == [Idle EXCEPT !.pc = "dec", !.op = "delete", !.id = id]
<1>1. /\ thr[t] \in Thread /\ ThreadInv(thr[t], pages, Len(objs)) /\ Len(objs) \in Nat
      /\ thr \in [Threads -> Thread] /\ objs \in Seq(Timeshift) /\ registry \subseteq 1 .. Len(objs)
  BY Facts
<1>3. thr' = [thr EXCEPT ![t] = l]
  BY <1>1 DEF DeleteRemove
<1>0. id \in Nat /\ id \in 1 .. Len(objs)
  BY <1>1
<1>4. l \in Thread
  BY IdleOK, <1>1, <1>0 DEF Thread, PCs, Idle
<1>5. ThreadInv(l, pages, Len(objs))
  BY IdleOK, <1>1, <1>0 DEF ThreadInv, Idle, DeleteRemove
<1>6. LocalFrame
  BY LocalFrames
<1> HIDE DEF l
<1> QED
  BY <1>3, <1>4, <1>5, <1>6, LocalStep

\* The sweeper takes out what is overdue and keeps the pointers.
LEMMA SweepRemoveInv ==
    ASSUME HandleInv, NEW t \in Threads, SweepRemove(t)
    PROVE  HandleInv'
<1> DEFINE l == [Idle EXCEPT !.pc = "encode", !.op = "sweep", !.ids = Overdue]
<1>1. /\ thr[t] \in Thread /\ ThreadInv(thr[t], pages, Len(objs)) /\ Len(objs) \in Nat
      /\ thr \in [Threads -> Thread] /\ objs \in Seq(Timeshift) /\ registry \subseteq 1 .. Len(objs)
  BY Facts
<1>3. thr' = [thr EXCEPT ![t] = l]
  BY <1>1 DEF SweepRemove
<1>0. Overdue \subseteq Nat /\ Overdue \subseteq 1 .. Len(objs)
  <2>1. Overdue \subseteq registry BY DEF Overdue
  <2> QED BY <2>1, <1>1
<1>4. l \in Thread
  BY IdleOK, <1>1, <1>0 DEF Thread, PCs, Idle
<1>5. ThreadInv(l, pages, Len(objs))
  BY IdleOK, <1>1, <1>0 DEF ThreadInv, Idle, SweepRemove
<1>6. LocalFrame
  BY LocalFrames
<1> HIDE DEF l
<1> QED
  BY <1>3, <1>4, <1>5, <1>6, LocalStep

\* The sweeper turns to the next timeshift to reset.
LEMMA SweepNextInv ==
    ASSUME HandleInv, NEW t \in Threads, NEW id \in thr[t].ids, SweepNext(t, id)
    PROVE  HandleInv'
<1> DEFINE l == [thr[t] EXCEPT !.pc = "reset", !.id = id, !.i = 1, !.ids = @ \ {id}]
<1>1. /\ thr[t] \in Thread /\ ThreadInv(thr[t], pages, Len(objs)) /\ Len(objs) \in Nat
      /\ thr \in [Threads -> Thread] /\ objs \in Seq(Timeshift) /\ registry \subseteq 1 .. Len(objs)
  BY Facts
<1>3. thr' = [thr EXCEPT ![t] = l]
  BY <1>1 DEF SweepNext
<1>4. l \in Thread
  BY <1>1 DEF Thread, PCs
<1>5. ThreadInv(l, pages, Len(objs))
  BY <1>1 DEF ThreadInv, SweepNext
<1>6. LocalFrame
  BY LocalFrames
<1> HIDE DEF l
<1> QED
  BY <1>3, <1>4, <1>5, <1>6, LocalStep

\* The end of resetHandles.
LEMMA ResetDoneInv ==
    ASSUME HandleInv, NEW t \in Threads, ResetDone(t)
    PROVE  HandleInv'
<1> DEFINE l == IF thr[t].op = "sweep" THEN [thr[t] EXCEPT !.pc = "expire"] ELSE Idle
<1>1. /\ thr[t] \in Thread /\ ThreadInv(thr[t], pages, Len(objs)) /\ Len(objs) \in Nat
      /\ thr \in [Threads -> Thread] /\ objs \in Seq(Timeshift) /\ registry \subseteq 1 .. Len(objs)
  BY Facts
<1>3. thr' = [thr EXCEPT ![t] = l]
  BY <1>1 DEF ResetDone
<1>4. l \in Thread
  BY IdleOK, <1>1 DEF Thread, PCs, Idle
<1>5. ThreadInv(l, pages, Len(objs))
  BY IdleOK, <1>1 DEF ThreadInv, Idle, ResetDone
<1>6. LocalFrame
  BY LocalFrames
<1> HIDE DEF l
<1> QED
  BY <1>3, <1>4, <1>5, <1>6, LocalStep

\* A pod event carries container IDs only.
LEMMA WatchReceiveInv ==
    ASSUME HandleInv, NEW t \in Threads, NEW p \in Pods, WatchReceive(t, p)
    PROVE  HandleInv'
<1> DEFINE l == [Idle EXCEPT !.pc = "match", !.op = "watch", !.sel = {p},
                             !.list = RunningIn({p})]
<1>1. /\ thr[t] \in Thread /\ ThreadInv(thr[t], pages, Len(objs)) /\ Len(objs) \in Nat
      /\ thr \in [Threads -> Thread] /\ objs \in Seq(Timeshift) /\ registry \subseteq 1 .. Len(objs)
  BY Facts
<1>3. thr' = [thr EXCEPT ![t] = l]
  BY <1>1 DEF WatchReceive
<1>0. RunningIn({p}) \subseteq ContainerID
  BY DEF RunningIn, ContainerID, HandleInv, TypeOK, ClusterTypeOK
<1>4. l \in Thread
  BY IdleOK, <1>1, <1>0 DEF Thread, PCs, Idle
<1>5. ThreadInv(l, pages, Len(objs))
  BY IdleOK, <1>1, <1>0 DEF ThreadInv, Idle, WatchReceive
<1>6. LocalFrame
  BY LocalFrames
<1> HIDE DEF l
<1> QED
  BY <1>3, <1>4, <1>5, <1>6, LocalStep

\* What the pod watcher matches is allocated.
LEMMA WatchMatchInv ==
    ASSUME HandleInv, NEW t \in Threads, WatchMatch(t)
    PROVE  HandleInv'
<1> DEFINE l == IF MatchesOf(thr[t]) = {} THEN Idle
                ELSE [thr[t] EXCEPT !.pc = "matched", !.matched = MatchesOf(thr[t])]
<1>1. /\ thr[t] \in Thread /\ ThreadInv(thr[t], pages, Len(objs)) /\ Len(objs) \in Nat
      /\ thr \in [Threads -> Thread] /\ objs \in Seq(Timeshift) /\ registry \subseteq 1 .. Len(objs)
  BY Facts
<1>3. thr' = [thr EXCEPT ![t] = l]
  BY <1>1 DEF WatchMatch
<1>0. MatchesOf(thr[t]) \subseteq Match /\ \A m \in MatchesOf(thr[t]) : m.id \in 1 .. Len(objs)
  <2>1. \A id \in registry : id \in 1 .. Len(objs) /\ id \in Nat /\ objs[id] \in Timeshift
    BY <1>1, ElementOfSeq
  <2>2. \A id \in registry : objs[id].clock \in Clock
    BY <2>1 DEF Timeshift
  <2> QED BY <2>1, <2>2 DEF MatchesOf, Match
<1>4. l \in Thread
  BY IdleOK, <1>1, <1>0 DEF Thread, PCs, Idle
<1>5. ThreadInv(l, pages, Len(objs))
  BY IdleOK, <1>1, <1>0 DEF ThreadInv, Idle, WatchMatch
<1>6. LocalFrame
  BY LocalFrames
<1> HIDE DEF l
<1> QED
  BY <1>3, <1>4, <1>5, <1>6, LocalStep

\* The pod watcher starts on the next match without handles.
LEMMA WatchNextInv ==
    ASSUME HandleInv, NEW t \in Threads, NEW m \in thr[t].matched, WatchNext(t, m)
    PROVE  HandleInv'
<1> DEFINE l == [thr[t] EXCEPT !.pc = "inject", !.matched = @ \ {m}, !.id = m.id,
                               !.clock = m.clock, !.todo = thr[t].list, !.hs = <<>>]
<1>1. /\ thr[t] \in Thread /\ ThreadInv(thr[t], pages, Len(objs)) /\ Len(objs) \in Nat
      /\ thr \in [Threads -> Thread] /\ objs \in Seq(Timeshift) /\ registry \subseteq 1 .. Len(objs)
  BY Facts
<1>3. thr' = [thr EXCEPT ![t] = l]
  BY <1>1 DEF WatchNext
<1>a. m.id \in Nat /\ m.clock \in Clock /\ thr[t].list \in SUBSET ContainerID
      /\ <<>> \in Seq(ContainerHandle) /\ thr[t].matched \ {m} \in SUBSET Match
  BY <1>1 DEF Thread, Match
<1>0. m \in Match /\ m.id \in 1 .. Len(objs) /\ thr[t].upd = {}
      /\ AllIssued(<<>>, pages) /\ UpdInv(<<>>, thr[t].upd, pages)
      /\ \A x \in thr[t].matched \ {m} : x.id \in 1 .. Len(objs)
  BY <1>1 DEF Thread, ThreadInv, WatchNext, AllIssued, UpdInv
<1>4. l \in Thread
  BY <1>1, <1>0, <1>a DEF Thread, PCs
<1>5. ThreadInv(l, pages, Len(objs))
  <2>1. /\ l.pc = "inject" /\ l.id = m.id /\ l.i = thr[t].i /\ l.hs = <<>>
        /\ l.upd = thr[t].upd /\ l.data = thr[t].data /\ l.ids = thr[t].ids
        /\ l.matched = thr[t].matched \ {m}
    BY <1>1 DEF Thread
  <2>2. m.id \in 0 .. Len(objs)
    BY <1>0, <1>1
  <2>3. thr[t].i >= 1 /\ DataInv(thr[t].data, pages, Len(objs)) /\ thr[t].ids \subseteq 1 .. Len(objs)
    BY <1>1 DEF ThreadInv
  <2> HIDE DEF l
  <2> QED BY <1>0, <2>1, <2>2, <2>3 DEF ThreadInv
<1>6. LocalFrame
  BY LocalFrames
<1> HIDE DEF l
<1> QED
  BY <1>3, <1>4, <1>5, <1>6, LocalStep

\* A client that goes away touches nothing but the context.
LEMMA ClientGoneInv ==
    ASSUME HandleInv, NEW t \in Threads, ClientGone(t)
    PROVE  HandleInv'
<1> DEFINE l == [thr[t] EXCEPT !.cut = TRUE]
<1>1. /\ thr[t] \in Thread /\ ThreadInv(thr[t], pages, Len(objs)) /\ Len(objs) \in Nat
      /\ thr \in [Threads -> Thread] /\ objs \in Seq(Timeshift) /\ registry \subseteq 1 .. Len(objs)
  BY Facts
<1>3. thr' = [thr EXCEPT ![t] = l]
  BY <1>1 DEF ClientGone
<1>4. l \in Thread
  BY <1>1 DEF Thread, PCs
<1>5. ThreadInv(l, pages, Len(objs))
  BY <1>1 DEF ThreadInv, ClientGone
<1>6. LocalFrame
  BY LocalFrames
<1> HIDE DEF l
<1> QED
  BY <1>3, <1>4, <1>5, <1>6, LocalStep

(***************************************************************************)
(* Calls to an agent: a page is added or rewritten.                        *)
(***************************************************************************)
\* An injection adds one page, and the new handle names its container.
LEMMA InstallKept ==
    ASSUME ClusterTypeOK, NEW cid \in ContainerID, NEW k \in Clock, Install(cid, k)
    PROVE  /\ ClusterTypeOK' /\ PagesKept(pages, pages')
           /\ NewHandle \in Nat /\ NewHandle \in 1 .. Len(pages')
           /\ pages'[NewHandle].c = cid.c /\ pages'[NewHandle].inc = cid.inc
<1> DEFINE p == [c |-> cid.c, inc |-> cid.inc, clock |-> k]
<1>1. p \in Page /\ pages \in Seq(Page) /\ pages' = Append(pages, p)
  BY DEF Page, ContainerID, Install, ClusterTypeOK
<1>2. /\ pages' \in Seq(Page) /\ Len(pages') = Len(pages) + 1 /\ Len(pages) \in Nat
      /\ \A h \in 1 .. Len(pages) : pages'[h] = pages[h]
      /\ pages'[Len(pages) + 1] = p
  BY <1>1, AppendProperties, LenProperties
<1>3. PagesKept(pages, pages')
  BY <1>2 DEF PagesKept
<1>4. NewHandle \in Nat /\ NewHandle \in 1 .. Len(pages') /\ pages'[NewHandle] = p
  BY <1>2 DEF NewHandle
<1>5. ClusterTypeOK'
  BY <1>2, <1>4 DEF ClusterTypeOK, Install
<1> QED
  BY <1>3, <1>4, <1>5

\* Setting the clock of a page leaves the page with its container.
LEMMA WriteKept ==
    ASSUME ClusterTypeOK, NEW h, NEW k \in Clock, WritePage(h, k)
    PROVE  ClusterTypeOK' /\ PagesKept(pages, pages')
<1>1. pages \in Seq(Page) /\ Len(pages) \in Nat /\ DOMAIN pages = 1 .. Len(pages)
  BY LenProperties DEF ClusterTypeOK
<1>2. CASE h \in 1 .. Len(pages)
  <2> DEFINE p == [pages[h] EXCEPT !.clock = k]
  <2>1. pages[h] \in Page
    BY <1>1, <1>2, ElementOfSeq
  <2>2. p \in Page /\ p.c = pages[h].c /\ p.inc = pages[h].inc
    BY <2>1 DEF Page
  <2>3. pages' = [pages EXCEPT ![h] = p]
    BY DEF WritePage
  <2> HIDE DEF p
  <2>4. /\ pages' \in Seq(Page) /\ Len(pages') = Len(pages)
        /\ \A j \in 1 .. Len(pages) : pages'[j] = IF j = h THEN p ELSE pages[j]
    BY <1>1, <1>2, <2>2, <2>3, ExceptSeq
  <2> QED
    BY <1>1, <2>2, <2>4 DEF PagesKept, ClusterTypeOK, WritePage
<1>3. CASE h \notin 1 .. Len(pages)
  <2>1. pages' = pages
    BY <1>1, <1>3 DEF WritePage
  <2>2. ClusterTypeOK'
    BY <2>1 DEF ClusterTypeOK, WritePage
  <2>3. PagesKept(pages, pages')
    BY <1>1, <2>1 DEF PagesKept
  <2> QED
    BY <2>2, <2>3
<1> QED
  BY <1>2, <1>3

\* The frame of a step that calls an agent.
LEMMA CallStep ==
    ASSUME HandleInv, ClusterTypeOK', PagesKept(pages, pages'),
           UNCHANGED <<objs, registry, expired, store, gauge>>, used' \in UsedType,
           NEW t \in Threads, NEW l \in Thread, ThreadInv(l, pages', Len(objs)),
           thr' = [thr EXCEPT ![t] = l]
    PROVE  HandleInv'
<1>1. objs \in Seq(Timeshift) /\ Len(objs) \in Nat /\ pages \in Seq(Page)
  BY DEF HandleInv, TypeOK, ClusterTypeOK
<1>2. ObjsInv(objs', pages')
  BY <1>1, IssuedKept DEF HandleInv, ObjsInv
<1>3. DataInv(store'.data, pages', Len(objs'))
  BY <1>1, DataKept DEF HandleInv
<1>4. /\ registry' \subseteq 1 .. Len(objs') /\ expired' \subseteq Nat /\ gauge' \in Int
      /\ store' \in [exists : BOOLEAN, data : SUBSET Timeshift]
  BY DEF HandleInv, TypeOK
<1>5. Len(objs) <= Len(objs') /\ ThreadInv(l, pages', Len(objs'))
  BY <1>1
<1> QED
  BY <1>2, <1>3, <1>4, <1>5, ThreadStep

\* The handle an injection returns is collected under its container.
LEMMA InjectOkInv ==
    ASSUME HandleInv, NEW t \in Threads, NEW cid \in thr[t].todo, InjectOk(t, cid)
    PROVE  HandleInv'
<1> DEFINE e == [c |-> cid.c, inc |-> cid.inc, h |-> NewHandle]
           l == [thr[t] EXCEPT !.todo = @ \ {cid}, !.hs = Append(@, e)]
<1>1. /\ thr[t] \in Thread /\ ThreadInv(thr[t], pages, Len(objs)) /\ Len(objs) \in Nat
      /\ thr \in [Threads -> Thread] /\ ClusterTypeOK /\ pages \in Seq(Page) /\ used \in UsedType
  BY Facts
<1>2. cid \in ContainerID /\ thr[t].clock \in Clock /\ thr[t].hs \in Seq(ContainerHandle)
  BY <1>1 DEF Thread
<1>3. /\ ClusterTypeOK' /\ PagesKept(pages, pages')
      /\ NewHandle \in Nat /\ NewHandle \in 1 .. Len(pages')
      /\ pages'[NewHandle].c = cid.c /\ pages'[NewHandle].inc = cid.inc
  BY <1>1, <1>2, InstallKept DEF InjectOk
<1>4. e \in ContainerHandle /\ IssuedFor(e, pages')
  BY <1>2, <1>3 DEF ContainerHandle, ContainerID, IssuedFor
<1>5. thr' = [thr EXCEPT ![t] = l]
  BY <1>1 DEF InjectOk
<1> HIDE DEF e
<1>6. /\ Append(thr[t].hs, e) \in Seq(ContainerHandle)
      /\ Len(Append(thr[t].hs, e)) = Len(thr[t].hs) + 1 /\ Len(thr[t].hs) \in Nat
      /\ \A j \in 1 .. Len(thr[t].hs) : Append(thr[t].hs, e)[j] = thr[t].hs[j]
      /\ Append(thr[t].hs, e)[Len(thr[t].hs) + 1] = e
  BY <1>2, <1>4, AppendProperties, LenProperties
<1>7. l \in Thread
  BY <1>1, <1>6 DEF Thread
<1>8. ThreadInv(thr[t], pages', Len(objs))
  BY <1>1, <1>3, ThreadKept
<1>9. AllIssued(Append(thr[t].hs, e), pages')
  BY <1>4, <1>6, <1>8 DEF ThreadInv, AllIssued
<1>10. thr[t].upd = {} /\ UpdInv(Append(thr[t].hs, e), {}, pages')
  BY <1>1 DEF ThreadInv, UpdInv, InjectOk
<1>11. /\ l.hs = Append(thr[t].hs, e) /\ l.pc = "inject" /\ l.id = thr[t].id /\ l.i = thr[t].i
       /\ l.upd = thr[t].upd /\ l.data = thr[t].data /\ l.ids = thr[t].ids
       /\ l.matched = thr[t].matched
  BY <1>1 DEF Thread, InjectOk
<1> HIDE DEF l
<1>12. ThreadInv(l, pages', Len(objs))
  BY <1>8, <1>9, <1>10, <1>11 DEF ThreadInv
<1> QED
  BY <1>1, <1>3, <1>5, <1>7, <1>12, CallStep DEF InjectOk

\* An injection whose reply is lost leaves a page that nobody names.
LEMMA InjectLostInv ==
    ASSUME HandleInv, NEW t \in Threads, NEW cid \in thr[t].todo, InjectLost(t, cid)
    PROVE  HandleInv'
<1> DEFINE l == [thr[t] EXCEPT !.todo = @ \ {cid}]
<1>1. /\ thr[t] \in Thread /\ ThreadInv(thr[t], pages, Len(objs)) /\ Len(objs) \in Nat
      /\ thr \in [Threads -> Thread] /\ ClusterTypeOK /\ pages \in Seq(Page) /\ used \in UsedType
  BY Facts
<1>2. cid \in ContainerID /\ thr[t].clock \in Clock
  BY <1>1 DEF Thread
<1>3. ClusterTypeOK' /\ PagesKept(pages, pages')
  BY <1>1, <1>2, InstallKept DEF InjectLost
<1>4. thr' = [thr EXCEPT ![t] = l]
  BY <1>1 DEF InjectLost
<1>5. l \in Thread /\ ThreadInv(l, pages, Len(objs))
  BY <1>1 DEF Thread, ThreadInv
<1>6. used' \in UsedType
  BY <1>1, UsedKept DEF InjectLost
<1> HIDE DEF l
<1>7. ThreadInv(l, pages', Len(objs))
  BY <1>1, <1>3, <1>5, ThreadKept
<1> QED
  BY <1>3, <1>4, <1>5, <1>6, <1>7, CallStep DEF InjectLost

\* SetTime, its reply lost or not, rewrites one clock.
LEMMA SetTimeOkInv ==
    ASSUME HandleInv, NEW t \in Threads, SetTimeOk(t) \/ SetTimeLost(t)
    PROVE  HandleInv'
<1> DEFINE l == [thr[t] EXCEPT !.i = @ + 1]
<1>1. /\ thr[t] \in Thread /\ ThreadInv(thr[t], pages, Len(objs)) /\ Len(objs) \in Nat
      /\ thr \in [Threads -> Thread] /\ ClusterTypeOK /\ pages \in Seq(Page) /\ used \in UsedType
  BY Facts
<1>2. thr[t].clock \in Clock /\ thr[t].pc # "reinject"
  BY <1>1 DEF Thread, SetTimeOk, SetTimeLost
<1>3. ClusterTypeOK' /\ PagesKept(pages, pages')
  BY <1>1, <1>2, WriteKept DEF SetTimeOk, SetTimeLost
<1>4. thr' = [thr EXCEPT ![t] = l]
  BY <1>1 DEF SetTimeOk, SetTimeLost, NextHandle
<1>5. l \in Thread /\ ThreadInv(l, pages, Len(objs))
  BY <1>1, <1>2, NextHandleOK
<1>6. used' \in UsedType
  BY <1>1, UsedKept DEF SetTimeOk, SetTimeLost
<1>7. UNCHANGED <<objs, registry, expired, store, gauge>>
  BY DEF SetTimeOk, SetTimeLost
<1> HIDE DEF l
<1>8. ThreadInv(l, pages', Len(objs))
  BY <1>1, <1>3, <1>5, ThreadKept
<1> QED
  BY <1>3, <1>4, <1>5, <1>6, <1>7, <1>8, CallStep

\* Reset rewrites one clock.
LEMMA ResetOkInv ==
    ASSUME HandleInv, NEW t \in Threads, ResetOk(t)
    PROVE  HandleInv'
<1> DEFINE l == [thr[t] EXCEPT !.i = @ + 1]
<1>1. /\ thr[t] \in Thread /\ ThreadInv(thr[t], pages, Len(objs)) /\ Len(objs) \in Nat
      /\ thr \in [Threads -> Thread] /\ ClusterTypeOK /\ pages \in Seq(Page) /\ used \in UsedType
  BY Facts
<1>2. Real \in Clock /\ thr[t].pc # "reinject"
  BY DEF Clock, Real, ResetOk, AtReset
<1>3. ClusterTypeOK' /\ PagesKept(pages, pages')
  BY <1>1, <1>2, WriteKept DEF ResetOk
<1>4. thr' = [thr EXCEPT ![t] = l]
  BY <1>1 DEF ResetOk, NextHandle
<1>5. l \in Thread /\ ThreadInv(l, pages, Len(objs))
  BY <1>1, <1>2, NextHandleOK
<1>6. used' \in UsedType /\ UNCHANGED <<objs, registry, expired, store, gauge>>
  BY <1>1 DEF ResetOk
<1> HIDE DEF l
<1>7. ThreadInv(l, pages', Len(objs))
  BY <1>1, <1>3, <1>5, ThreadKept
<1> QED
  BY <1>3, <1>4, <1>5, <1>6, <1>7, CallStep

\* The container that a re-injecting thread is at.
LEMMA CurContainerOK ==
    ASSUME HandleInv, NEW t \in Threads, thr[t].pc = "reinject"
    PROVE  /\ CurHandle(t) \in ContainerHandle /\ CurContainerID(t) \in ContainerID
           /\ thr[t].i \in 1 .. Len(thr[t].hs) /\ thr[t].i \in Nat
           /\ thr[t].clock \in Clock
<1>1. thr[t] \in Thread /\ ThreadInv(thr[t], pages, Len(objs))
  BY Facts
<1>2. thr[t].i \in Nat /\ thr[t].hs \in Seq(ContainerHandle) /\ thr[t].clock \in Clock
  BY <1>1 DEF Thread
<1>3. thr[t].i >= 1 /\ thr[t].i <= Len(thr[t].hs) /\ Len(thr[t].hs) \in Nat
  BY <1>1, <1>2, LenProperties DEF ThreadInv
<1>4. thr[t].i \in 1 .. Len(thr[t].hs)
  BY <1>2, <1>3
<1>5. CurHandle(t) \in ContainerHandle
  BY <1>2, <1>4, ElementOfSeq DEF CurHandle
<1> QED
  BY <1>2, <1>4, <1>5 DEF CurContainerID, ContainerHandle, ContainerID

\* A re-injected handle is recorded for the container at the loop index.
LEMMA ReinjectOkInv ==
    ASSUME HandleInv, NEW t \in Threads, ReinjectOk(t)
    PROVE  HandleInv'
<1> DEFINE u == [idx |-> thr[t].i, new |-> NewHandle]
           l == [thr[t] EXCEPT !.pc = "settime", !.i = @ + 1, !.upd = @ \union {u}]
<1>1. /\ thr[t] \in Thread /\ ThreadInv(thr[t], pages, Len(objs)) /\ Len(objs) \in Nat
      /\ thr \in [Threads -> Thread] /\ ClusterTypeOK /\ pages \in Seq(Page) /\ used \in UsedType
  BY Facts
<1>2. /\ CurContainerID(t) \in ContainerID /\ thr[t].i \in 1 .. Len(thr[t].hs)
      /\ thr[t].i \in Nat /\ thr[t].clock \in Clock
  BY CurContainerOK DEF ReinjectOk
<1>3. /\ ClusterTypeOK' /\ PagesKept(pages, pages')
      /\ NewHandle \in Nat /\ NewHandle \in 1 .. Len(pages')
      /\ pages'[NewHandle].c = CurContainerID(t).c /\ pages'[NewHandle].inc = CurContainerID(t).inc
  BY <1>1, <1>2, InstallKept DEF ReinjectOk
<1>4. thr' = [thr EXCEPT ![t] = l]
  BY <1>1 DEF ReinjectOk
<1>5. ThreadInv(thr[t], pages', Len(objs))
  BY <1>1, <1>3, ThreadKept
<1>6. u.idx = thr[t].i /\ u.new = NewHandle /\ u \in [idx : Nat, new : Nat]
  BY <1>2, <1>3
<1>7. UpdInv(thr[t].hs, thr[t].upd \union {u}, pages')
  BY <1>2, <1>3, <1>5, <1>6 DEF ThreadInv, UpdInv, CurContainerID, CurHandle
<1> HIDE DEF u
<1>8. thr[t].i + 1 \in Nat /\ thr[t].i + 1 >= 1
  BY <1>2
<1>9. l \in Thread
  BY <1>1, <1>6, <1>8 DEF Thread, PCs
<1>10. /\ l.pc = "settime" /\ l.id = thr[t].id /\ l.i = thr[t].i + 1 /\ l.hs = thr[t].hs
       /\ l.upd = thr[t].upd \union {u} /\ l.data = thr[t].data /\ l.ids = thr[t].ids
       /\ l.matched = thr[t].matched
  BY <1>1 DEF Thread
<1> HIDE DEF l
<1>11. ThreadInv(l, pages', Len(objs))
  BY <1>5, <1>7, <1>8, <1>10 DEF ThreadInv
<1>12. used' \in UsedType /\ UNCHANGED <<objs, registry, expired, store, gauge>>
  BY <1>1 DEF ReinjectOk
<1> QED
  BY <1>3, <1>4, <1>9, <1>11, <1>12, CallStep

\* A re-injection whose reply is lost records nothing.
LEMMA ReinjectLostInv ==
    ASSUME HandleInv, NEW t \in Threads, ReinjectLost(t)
    PROVE  HandleInv'
<1> DEFINE l == [thr[t] EXCEPT !.pc = "settime", !.i = @ + 1]
<1>1. /\ thr[t] \in Thread /\ ThreadInv(thr[t], pages, Len(objs)) /\ Len(objs) \in Nat
      /\ thr \in [Threads -> Thread] /\ ClusterTypeOK /\ pages \in Seq(Page) /\ used \in UsedType
  BY Facts
<1>2. CurContainerID(t) \in ContainerID /\ thr[t].i \in Nat /\ thr[t].clock \in Clock
  BY CurContainerOK DEF ReinjectLost
<1>3. ClusterTypeOK' /\ PagesKept(pages, pages')
  BY <1>1, <1>2, InstallKept DEF ReinjectLost
<1>4. thr' = [thr EXCEPT ![t] = l]
  BY <1>1 DEF ReinjectLost
<1>5. thr[t].i + 1 \in Nat /\ thr[t].i + 1 >= 1
  BY <1>2
<1>6. l \in Thread
  BY <1>1, <1>5 DEF Thread, PCs
<1>7. /\ l.pc = "settime" /\ l.id = thr[t].id /\ l.i = thr[t].i + 1 /\ l.hs = thr[t].hs
      /\ l.upd = thr[t].upd /\ l.data = thr[t].data /\ l.ids = thr[t].ids
      /\ l.matched = thr[t].matched
  BY <1>1 DEF Thread
<1> HIDE DEF l
<1>8. ThreadInv(l, pages, Len(objs))
  BY <1>1, <1>5, <1>7 DEF ThreadInv
<1>9. ThreadInv(l, pages', Len(objs))
  BY <1>1, <1>3, <1>6, <1>8, ThreadKept
<1>10. used' \in UsedType /\ UNCHANGED <<objs, registry, expired, store, gauge>>
  BY <1>1, UsedKept DEF ReinjectLost
<1> QED
  BY <1>3, <1>4, <1>6, <1>9, <1>10, CallStep

(***************************************************************************)
(* Changes of the registry, of the timeshifts in it and of the ConfigMap.  *)
(***************************************************************************)
\* The frame of a step that changes timeshifts and nothing outside the controller.
LEMMA RegistryStep ==
    ASSUME HandleInv, UNCHANGED <<clusterVars, expired, store, gauge, used>>,
           ObjsInv(objs', pages), Len(objs) <= Len(objs'), registry' \subseteq 1 .. Len(objs'),
           NEW t \in Threads, NEW l \in Thread, ThreadInv(l, pages, Len(objs')),
           thr' = [thr EXCEPT ![t] = l]
    PROVE  HandleInv'
<1>1. pages \in Seq(Page) /\ Len(objs) \in Nat /\ Len(objs') \in Nat /\ pages' = pages
  BY DEF HandleInv, TypeOK, ClusterTypeOK, ObjsInv, clusterVars
<1>2. ClusterTypeOK'
  BY DEF HandleInv, TypeOK, ClusterTypeOK, clusterVars
<1>3. PagesKept(pages, pages')
  BY <1>1 DEF PagesKept
<1>4. DataInv(store'.data, pages', Len(objs'))
  BY <1>1, <1>3, DataKept DEF HandleInv
<1>5. /\ expired' \subseteq Nat /\ gauge' \in Int /\ used' \in UsedType
      /\ store' \in [exists : BOOLEAN, data : SUBSET Timeshift]
  BY DEF HandleInv, TypeOK, UsedType
<1> QED
  BY <1>1, <1>2, <1>3, <1>4, <1>5, ThreadStep

\* Replacing the handles and the clock of one timeshift by good ones.
LEMMA ReplaceTimeshift ==
    ASSUME ObjsInv(objs, pages), NEW id \in 1 .. Len(objs), NEW s \in Timeshift,
           s.id = id, AllIssued(s.handles, pages), objs' = [objs EXCEPT ![id] = s]
    PROVE  ObjsInv(objs', pages) /\ Len(objs') = Len(objs)
<1>1. /\ objs' \in Seq(Timeshift) /\ Len(objs') = Len(objs)
      /\ \A j \in 1 .. Len(objs) : objs'[j] = IF j = id THEN s ELSE objs[j]
  BY ExceptSeq DEF ObjsInv
<1> QED
  BY <1>1 DEF ObjsInv

\* A new timeshift gets the next id and the handles just collected.
LEMMA CreateRegisterInv ==
    ASSUME HandleInv, NEW t \in Threads, CreateRegister(t)
    PROVE  HandleInv'
<1> DEFINE s == [id |-> Len(objs) + 1, sel |-> thr[t].sel, clock |-> thr[t].clock,
                 ttl |-> thr[t].ttl, handles |-> thr[t].hs]
           l == [thr[t] EXCEPT !.pc = "inc", !.id = Len(objs) + 1]
<1>1. /\ thr[t] \in Thread /\ ThreadInv(thr[t], pages, Len(objs)) /\ Len(objs) \in Nat
      /\ thr \in [Threads -> Thread] /\ objs \in Seq(Timeshift) /\ registry \subseteq 1 .. Len(objs)
      /\ pages \in Seq(Page)
  BY Facts
<1>2. Len(objs) + 1 \in Nat /\ Len(objs) <= Len(objs) + 1 /\ Len(objs) + 1 \in 0 .. Len(objs) + 1
  BY <1>1
<1>3. s \in Timeshift /\ s.id = Len(objs) + 1 /\ s.handles = thr[t].hs
  BY <1>1, <1>2 DEF Thread, Timeshift
<1>4. AllIssued(thr[t].hs, pages)
  BY <1>1 DEF ThreadInv
<1>5. objs' = Append(objs, s)
  BY DEF CreateRegister
<1> HIDE DEF s
<1>6. /\ objs' \in Seq(Timeshift) /\ Len(objs') = Len(objs) + 1
      /\ \A j \in 1 .. Len(objs) : objs'[j] = objs[j]
      /\ objs'[Len(objs) + 1] = s
  BY <1>1, <1>3, <1>5, AppendProperties
<1>7. ObjsInv(objs', pages)
  <2> SUFFICES ASSUME NEW j \in 1 .. Len(objs')
               PROVE  objs'[j].id = j /\ AllIssued(objs'[j].handles, pages)
    BY <1>6 DEF ObjsInv
  <2>1. CASE j \in 1 .. Len(objs)
    BY <1>6, <2>1 DEF HandleInv
  <2>2. CASE j = Len(objs) + 1
    BY <1>3, <1>4, <1>6, <2>2
  <2> QED BY <1>1, <1>6, <2>1, <2>2
<1>8. registry' \subseteq 1 .. Len(objs')
  BY <1>1, <1>6 DEF CreateRegister
<1>9. thr' = [thr EXCEPT ![t] = l]
  BY <1>1 DEF CreateRegister
<1>10. l \in Thread
  BY <1>1, <1>2 DEF Thread, PCs
<1>11. PagesKept(pages, pages)
  BY <1>1 DEF PagesKept
<1>12. ThreadInv(thr[t], pages, Len(objs) + 1)
  BY <1>1, <1>2, <1>11, ThreadKept
<1>13. /\ l.pc = "inc" /\ l.id = Len(objs) + 1 /\ l.i = thr[t].i /\ l.hs = thr[t].hs
       /\ l.upd = thr[t].upd /\ l.data = thr[t].data /\ l.ids = thr[t].ids
       /\ l.matched = thr[t].matched /\ thr[t].pc = "inject"
  BY <1>1 DEF Thread, CreateRegister
<1> HIDE DEF l
<1>14. ThreadInv(l, pages, Len(objs) + 1)
  BY <1>2, <1>12, <1>13 DEF ThreadInv
<1>15. UNCHANGED <<clusterVars, expired, store, gauge, used>>
  BY DEF CreateRegister
<1> QED
  BY <1>2, <1>6, <1>7, <1>8, <1>9, <1>10, <1>14, <1>15, RegistryStep

\* What updateTimeshift files: the same containers in the same places, each
\* with a handle issued for it.
LEMMA RefreshedOK ==
    ASSUME NEW handles \in Seq(ContainerHandle), NEW hs \in Seq(ContainerHandle),
           NEW upd \in SUBSET [idx : Nat, new : Nat], NEW pgs,
           AllIssued(handles, pgs), UpdInv(hs, upd, pgs)
    PROVE  Refreshed(handles, hs, upd) \in Seq(ContainerHandle)
           /\ AllIssued(Refreshed(handles, hs, upd), pgs)
<1> DEFINE r == Refreshed(handles, hs, upd)
<1>1. DOMAIN handles = 1 .. Len(handles) /\ Len(handles) \in Nat
  BY LenProperties
<1>2. ASSUME NEW j \in 1 .. Len(handles)
      PROVE  r[j] \in ContainerHandle /\ IssuedFor(r[j], pgs)
  <2>1. handles[j] \in ContainerHandle /\ IssuedFor(handles[j], pgs)
    BY ElementOfSeq DEF AllIssued
  <2>2. CASE \E u \in upd : /\ u.idx = j
                            /\ handles[j].c = hs[j].c /\ handles[j].inc = hs[j].inc
    <3> DEFINE u == CHOOSE v \in upd : v.idx = j
               e == [handles[j] EXCEPT !.h = u.new]
    <3>1. u \in upd /\ u.idx = j /\ handles[j].c = hs[j].c /\ handles[j].inc = hs[j].inc
      BY <2>2
    <3>2. r[j] = e
      BY <1>1, <2>2 DEF Refreshed
    <3> HIDE DEF u
    <3>3. u.new \in Nat /\ u.new \in 1 .. Len(pgs)
          /\ pgs[u.new].c = handles[j].c /\ pgs[u.new].inc = handles[j].inc
      BY <3>1 DEF UpdInv
    <3>4. e \in ContainerHandle /\ e.h = u.new /\ e.c = handles[j].c /\ e.inc = handles[j].inc
      BY <2>1, <3>3 DEF ContainerHandle
    <3> QED BY <3>2, <3>3, <3>4 DEF IssuedFor
  <2>3. CASE ~ \E u \in upd : /\ u.idx = j
                              /\ handles[j].c = hs[j].c /\ handles[j].inc = hs[j].inc
    <3>1. r[j] = handles[j]
      BY <1>1, <2>3 DEF Refreshed
    <3> QED BY <2>1, <3>1
  <2> QED BY <2>2, <2>3
<1>3. r = [j \in 1 .. Len(handles) |-> r[j]]
  BY <1>1 DEF Refreshed
<1> HIDE DEF r
<1>4. r \in [1 .. Len(handles) -> ContainerHandle]
  BY <1>2, <1>3
<1>5. r \in Seq(ContainerHandle) /\ Len(r) = Len(handles)
  BY <1>1, <1>4, IsASeq, LenProperties
<1> QED
  BY <1>2, <1>5 DEF AllIssued, r

\* An update files its clock and its re-injected handles.
LEMMA UpdateApplyInv ==
    ASSUME HandleInv, NEW t \in Threads, UpdateApply(t)
    PROVE  HandleInv'
<1> DEFINE id == thr[t].id
           s == [objs[id] EXCEPT !.handles = Refreshed(@, thr[t].hs, thr[t].upd),
                                 !.clock = thr[t].clock]
           l == [thr[t] EXCEPT !.pc = "encode", !.hs = <<>>, !.upd = {}]
<1>1. /\ thr[t] \in Thread /\ ThreadInv(thr[t], pages, Len(objs)) /\ Len(objs) \in Nat
      /\ thr \in [Threads -> Thread] /\ objs \in Seq(Timeshift) /\ registry \subseteq 1 .. Len(objs)
      /\ pages \in Seq(Page)
  BY Facts
<1>2. ObjsInv(objs, pages)
  BY <1>1 DEF HandleInv, ObjsInv
<1>3. objs' = [objs EXCEPT ![id] = s]
  BY <1>1 DEF UpdateApply
<1>4. ObjsInv(objs', pages) /\ Len(objs') = Len(objs)
  <2>1. CASE id \in 1 .. Len(objs)
    <3>1. objs[id] \in Timeshift /\ objs[id].id = id /\ AllIssued(objs[id].handles, pages)
      BY <1>1, <1>2, <2>1, ElementOfSeq DEF ObjsInv
    <3>2. /\ thr[t].hs \in Seq(ContainerHandle) /\ thr[t].upd \in SUBSET [idx : Nat, new : Nat]
          /\ thr[t].clock \in Clock /\ UpdInv(thr[t].hs, thr[t].upd, pages)
      BY <1>1 DEF Thread, ThreadInv
    <3>3. objs[id].handles \in Seq(ContainerHandle)
      BY <3>1 DEF Timeshift
    <3> DEFINE r == Refreshed(objs[id].handles, thr[t].hs, thr[t].upd)
    <3>4. r \in Seq(ContainerHandle) /\ AllIssued(r, pages)
      BY <3>1, <3>2, <3>3, RefreshedOK
    <3>5. s = [objs[id] EXCEPT !.handles = r, !.clock = thr[t].clock]
      OBVIOUS
    <3> HIDE DEF r, s
    <3>6. s \in Timeshift /\ s.id = id /\ s.handles = r
      BY <3>1, <3>2, <3>4, <3>5 DEF Timeshift
    <3> QED BY <1>2, <1>3, <2>1, <3>4, <3>6, ReplaceTimeshift
  <2>2. CASE id \notin 1 .. Len(objs)
    <3>1. objs' = objs
      BY <1>1, <1>3, <2>2
    <3> QED BY <1>2, <3>1
  <2> QED BY <2>1, <2>2
<1>5. thr' = [thr EXCEPT ![t] = l]
  BY <1>1 DEF UpdateApply
<1>6. l \in Thread
  <2>1. <<>> \in Seq(ContainerHandle)
    OBVIOUS
  <2> QED BY <1>1, <2>1 DEF Thread, PCs
<1>7. /\ l.pc = "encode" /\ l.id = thr[t].id /\ l.i = thr[t].i /\ l.hs = <<>> /\ l.upd = {}
      /\ l.data = thr[t].data /\ l.ids = thr[t].ids /\ l.matched = thr[t].matched
  BY <1>1 DEF Thread
<1> HIDE DEF l
<1>8. ThreadInv(l, pages, Len(objs))
  BY <1>1, <1>7 DEF ThreadInv, UpdInv, AllIssued
<1>9. UNCHANGED <<clusterVars, expired, store, gauge, used>> /\ registry' = registry
  BY DEF UpdateApply
<1>10. /\ UNCHANGED <<clusterVars, expired, store, gauge, used>>
       /\ Len(objs) <= Len(objs') /\ registry' \subseteq 1 .. Len(objs')
       /\ ThreadInv(l, pages, Len(objs'))
  BY <1>1, <1>4, <1>8, <1>9
<1> QED
  BY <1>1, <1>4, <1>5, <1>6, <1>8, <1>10, RegistryStep

\* What the pod watcher keeps of a timeshift's handles is good.
LEMMA RetainedOK ==
    ASSUME NEW handles \in Seq(ContainerHandle), NEW ps, NEW pgs, AllIssued(handles, pgs),
           NEW kept \in Retained(handles, ps)
    PROVE  kept \in Seq(ContainerHandle) /\ AllIssued(kept, pgs)
<1> DEFINE keep == {j \in DOMAIN handles : PodOf[handles[j].c] \notin ps}
           n    == Cardinality(keep)
<1>1. Len(handles) \in Nat /\ DOMAIN handles = 1 .. Len(handles)
  BY LenProperties
<1>2. IsFiniteSet(1 .. Len(handles))
  BY <1>1, FS_Interval
<1>3. n \in Nat
  BY <1>1, <1>2, FS_Subset, FS_CardinalityType
<1>4. PICK f \in [1 .. n -> keep] : kept = [k \in 1 .. n |-> handles[f[k]]]
  BY Zenon DEF Retained
<1>5. \A k \in 1 .. n : f[k] \in 1 .. Len(handles)
  BY <1>1, <1>4
<1> HIDE DEF n, keep
<1>6. \A k \in 1 .. n : handles[f[k]] \in ContainerHandle /\ IssuedFor(handles[f[k]], pgs)
  BY <1>5, ElementOfSeq DEF AllIssued
<1>7. kept \in [1 .. n -> ContainerHandle]
  BY <1>4, <1>6
<1>8. kept \in Seq(ContainerHandle) /\ Len(kept) = n
  BY <1>3, <1>7, IsASeq, LenProperties
<1> QED
  BY <1>4, <1>6, <1>8 DEF AllIssued

\* The pod watcher replaces the entries of one pod.
LEMMA WatchApplyInv ==
    ASSUME HandleInv, NEW t \in Threads, WatchApply(t)
    PROVE  HandleInv'
<1> DEFINE id == thr[t].id
           l == [thr[t] EXCEPT !.pc = "matched", !.hs = <<>>]
<1>1. /\ thr[t] \in Thread /\ ThreadInv(thr[t], pages, Len(objs)) /\ Len(objs) \in Nat
      /\ thr \in [Threads -> Thread] /\ objs \in Seq(Timeshift) /\ registry \subseteq 1 .. Len(objs)
  BY Facts
<1>2. ObjsInv(objs, pages)
  BY <1>1 DEF HandleInv, ObjsInv
<1>3. ObjsInv(objs', pages) /\ Len(objs') = Len(objs)
  <2>1. CASE thr[t].hs # <<>> /\ thr[t].id \in registry
    <3>1. PICK kept \in Retained(objs[id].handles, thr[t].sel) :
              objs' = [objs EXCEPT ![id].handles = kept \o thr[t].hs]
      BY <2>1 DEF WatchApply
    <3>2. /\ id \in 1 .. Len(objs) /\ objs[id] \in Timeshift
          /\ objs[id].id = id /\ AllIssued(objs[id].handles, pages)
      BY <1>1, <1>2, <2>1, ElementOfSeq DEF ObjsInv
    <3>3. objs[id].handles \in Seq(ContainerHandle)
      BY <3>2 DEF Timeshift
    <3>4. kept \in Seq(ContainerHandle) /\ AllIssued(kept, pages)
      BY <3>2, <3>3, RetainedOK
    <3>5. thr[t].hs \in Seq(ContainerHandle) /\ AllIssued(thr[t].hs, pages)
      BY <1>1 DEF Thread, ThreadInv
    <3> DEFINE new == kept \o thr[t].hs
               s   == [objs[id] EXCEPT !.handles = new]
    <3>6. /\ new \in Seq(ContainerHandle) /\ Len(new) = Len(kept) + Len(thr[t].hs)
          /\ Len(kept) \in Nat /\ Len(thr[t].hs) \in Nat
          /\ \A j \in 1 .. Len(kept) + Len(thr[t].hs) :
                new[j] = IF j <= Len(kept) THEN kept[j] ELSE thr[t].hs[j - Len(kept)]
      BY <3>4, <3>5, ConcatProperties, LenProperties
    <3>7. objs' = [objs EXCEPT ![id] = s]
      BY <1>1, <3>1
    <3> HIDE DEF new
    <3>8. AllIssued(new, pages)
      <4> SUFFICES ASSUME NEW j \in 1 .. Len(new) PROVE IssuedFor(new[j], pages)
        BY DEF AllIssued
      <4>1. CASE j <= Len(kept)
        BY <3>4, <3>6, <4>1 DEF AllIssued
      <4>2. CASE ~(j <= Len(kept))
        <5>1. j - Len(kept) \in 1 .. Len(thr[t].hs)
          BY <3>6, <4>2
        <5> QED BY <3>5, <3>6, <4>2, <5>1 DEF AllIssued
      <4> QED BY <4>1, <4>2
    <3>9. s \in Timeshift /\ s.id = id /\ s.handles = new
      BY <3>2, <3>6 DEF Timeshift
    <3> HIDE DEF s
    <3> QED BY <1>2, <3>2, <3>7, <3>8, <3>9, ReplaceTimeshift
  <2>2. CASE ~(thr[t].hs # <<>> /\ thr[t].id \in registry)
    <3>1. objs' = objs
      BY <2>2 DEF WatchApply
    <3> QED BY <1>2, <3>1
  <2> QED BY <2>1, <2>2
<1>4. thr' = [thr EXCEPT ![t] = l]
  BY <1>1 DEF WatchApply
<1>5. l \in Thread
  <2>1. <<>> \in Seq(ContainerHandle)
    OBVIOUS
  <2> QED BY <1>1, <2>1 DEF Thread, PCs
<1>6. /\ l.pc = "matched" /\ l.id = thr[t].id /\ l.i = thr[t].i /\ l.hs = <<>> /\ l.upd = thr[t].upd
      /\ l.data = thr[t].data /\ l.ids = thr[t].ids /\ l.matched = thr[t].matched
      /\ thr[t].pc = "inject"
  BY <1>1 DEF Thread, WatchApply
<1> HIDE DEF l
<1>7. ThreadInv(l, pages, Len(objs))
  BY <1>1, <1>6 DEF ThreadInv, UpdInv, AllIssued
<1>8. /\ UNCHANGED <<clusterVars, expired, store, gauge, used>> /\ registry' = registry
  BY DEF WatchApply
<1>9. /\ UNCHANGED <<clusterVars, expired, store, gauge, used>>
      /\ Len(objs) <= Len(objs') /\ registry' \subseteq 1 .. Len(objs')
      /\ ThreadInv(l, pages, Len(objs'))
  BY <1>1, <1>3, <1>7, <1>8
<1> QED
  BY <1>3, <1>4, <1>5, <1>9, RegistryStep

\* The ConfigMap takes over an encoded registry that was good when encoded.
LEMMA FlushPutInv ==
    ASSUME HandleInv, NEW t \in Threads, FlushPut(t)
    PROVE  HandleInv'
<1> DEFINE l == AfterPersist(thr[t])
<1>1. /\ thr[t] \in Thread /\ ThreadInv(thr[t], pages, Len(objs)) /\ Len(objs) \in Nat
      /\ thr \in [Threads -> Thread] /\ ClusterTypeOK /\ pages \in Seq(Page) /\ used \in UsedType
  BY Facts
<1>2. thr' = [thr EXCEPT ![t] = l]
  BY <1>1 DEF FlushPut
<1>3. l \in Thread /\ ThreadInv(l, pages, Len(objs))
  BY <1>1, AfterPersistOK DEF FlushPut
<1>4. /\ pages' = pages /\ objs' = objs /\ registry' = registry
      /\ expired' = expired /\ gauge' = gauge /\ used' = used
  BY DEF FlushPut, clusterVars
<1>5. ClusterTypeOK'
  BY <1>1 DEF FlushPut, clusterVars, ClusterTypeOK
<1>6. PagesKept(pages, pages')
  BY <1>1, <1>4 DEF PagesKept
<1>7. ObjsInv(objs', pages') /\ Len(objs) <= Len(objs')
  BY <1>1, <1>4 DEF HandleInv, TypeOK, ObjsInv
<1>8. thr[t].data \in SUBSET Timeshift /\ DataInv(thr[t].data, pages, Len(objs))
  BY <1>1 DEF Thread, ThreadInv
<1>9. /\ store' \in [exists : BOOLEAN, data : SUBSET Timeshift]
      /\ DataInv(store'.data, pages', Len(objs'))
  BY <1>4, <1>8 DEF FlushPut
<1>10. /\ registry' \subseteq 1 .. Len(objs') /\ expired' \subseteq Nat /\ gauge' \in Int
       /\ used' \in UsedType
  BY <1>1, <1>4 DEF HandleInv, TypeOK
<1>11. ThreadInv(l, pages', Len(objs'))
  BY <1>3, <1>4
<1> HIDE DEF l
<1> QED
  BY <1>2, <1>3, <1>5, <1>6, <1>7, <1>9, <1>10, <1>11, ThreadStep

(***************************************************************************)
(* The environment: containers and agents, expiry, controller restarts.    *)
(***************************************************************************)
\* No move of a container or an agent hands a page to another container; the
\* drain of an agent rewrites clocks only.
LEMMA ClusterKept ==
    ASSUME ClusterTypeOK, ClusterNext
    PROVE  ClusterTypeOK' /\ PagesKept(pages, pages')
<1>1. pages \in Seq(Page) /\ Len(pages) \in Nat /\ DOMAIN pages = 1 .. Len(pages)
  BY LenProperties DEF ClusterTypeOK
<1>2. ASSUME NEW c \in Containers, ContainerStop(c) PROVE ClusterTypeOK' /\ PagesKept(pages, pages')
  BY <1>1, <1>2 DEF ContainerStop, ClusterTypeOK, PagesKept
<1>3. ASSUME NEW c \in Containers, ContainerStart(c) PROVE ClusterTypeOK' /\ PagesKept(pages, pages')
  BY <1>1, <1>3 DEF ContainerStart, ClusterTypeOK, PagesKept
<1>4. ASSUME NEW n \in Nodes, AgentCrash(n) PROVE ClusterTypeOK' /\ PagesKept(pages, pages')
  BY <1>1, <1>4 DEF AgentCrash, ClusterTypeOK, PagesKept
<1>5. ASSUME NEW n \in Nodes, AgentShutdown(n) PROVE ClusterTypeOK' /\ PagesKept(pages, pages')
  <2>1. ASSUME NEW h \in 1 .. Len(pages)
        PROVE  pages'[h] \in Page /\ pages'[h].c = pages[h].c /\ pages'[h].inc = pages[h].inc
    <3>1. pages[h] \in Page
      BY <1>1, ElementOfSeq
    <3> DEFINE p == [pages[h] EXCEPT !.clock = Real]
    <3>0. Real \in Clock
      BY DEF Real, Clock
    <3>2. p \in Page /\ p.c = pages[h].c /\ p.inc = pages[h].inc
      BY <3>0, <3>1 DEF Page
    <3>3. pages'[h] = p \/ pages'[h] = pages[h]
      BY <1>1, <1>5 DEF AgentShutdown
    <3> QED BY <3>1, <3>2, <3>3
  <2>2. pages' = [h \in 1 .. Len(pages) |-> pages'[h]]
    BY <1>1, <1>5 DEF AgentShutdown
  <2>3. pages' \in [1 .. Len(pages) -> Page]
    BY <2>1, <2>2
  <2>4. pages' \in Seq(Page) /\ Len(pages') = Len(pages)
    BY <1>1, <2>3, IsASeq, LenProperties
  <2>5. PagesKept(pages, pages')
    BY <1>1, <2>1, <2>4 DEF PagesKept
  <2>6. ClusterTypeOK'
    BY <1>5, <2>4 DEF AgentShutdown, ClusterTypeOK
  <2> QED BY <2>5, <2>6
<1> QED
  BY <1>2, <1>3, <1>4, <1>5 DEF ClusterNext

\* Containers and agents that move by themselves keep the invariant.
LEMMA ClusterInv ==
    ASSUME HandleInv, ClusterNext, UNCHANGED ctlVars
    PROVE  HandleInv'
<1>1. ClusterTypeOK /\ pages \in Seq(Page) /\ Len(objs) \in Nat
  BY DEF HandleInv, TypeOK, ClusterTypeOK
<1>2. ClusterTypeOK' /\ PagesKept(pages, pages')
  BY <1>1, ClusterKept
<1>3. objs' = objs /\ registry' = registry /\ expired' = expired /\ thr' = thr
      /\ store' = store /\ gauge' = gauge /\ used' = used
  BY DEF ctlVars
<1>4. TypeOK'
  BY <1>2, <1>3 DEF HandleInv, TypeOK
<1>5. \A id \in 1 .. Len(objs') : objs'[id].id = id /\ AllIssued(objs'[id].handles, pages')
  BY <1>1, <1>2, <1>3, IssuedKept DEF HandleInv
<1>6. DataInv(store'.data, pages', Len(objs'))
  BY <1>1, <1>2, <1>3, DataKept DEF HandleInv
<1>7. \A t \in Threads : ThreadInv(thr'[t], pages', Len(objs'))
  <2> SUFFICES ASSUME NEW t \in Threads PROVE ThreadInv(thr[t], pages', Len(objs))
    BY <1>3
  <2>1. thr[t] \in Thread /\ ThreadInv(thr[t], pages, Len(objs))
    BY Facts
  <2> QED BY <1>1, <1>2, <2>1, ThreadKept
<1> QED
  BY <1>4, <1>5, <1>6, <1>7 DEF HandleInv

\* The passing of a TTL keeps the invariant.
LEMMA ExpireInv ==
    ASSUME HandleInv, NEW id \in DOMAIN objs, Expire(id)
    PROVE  HandleInv'
<1>1. id \in Nat
  BY LenProperties DEF HandleInv, TypeOK
<1>2. /\ UNCHANGED <<up, inc, hook, pages, live, agentRestarts>>
      /\ objs' = objs /\ registry' = registry /\ thr' = thr
      /\ store' = store /\ gauge' = gauge /\ used' = used /\ expired' = expired \union {id}
  BY DEF Expire, clusterVars
<1>3. TypeOK'
  <2>1. ClusterTypeOK'
    BY <1>2 DEF HandleInv, TypeOK, ClusterTypeOK
  <2> QED BY <1>1, <1>2, <2>1 DEF HandleInv, TypeOK
<1> QED
  BY <1>2, <1>3 DEF HandleInv

\* A restart puts good timeshifts back, each under its own id.
LEMMA RestartInv ==
    ASSUME HandleInv, NEW data \in SUBSET Timeshift, DataInv(data, pages, Len(objs)),
           Restart(data), used' \in UsedType
    PROVE  HandleInv'
<1>1. /\ objs \in Seq(Timeshift) /\ Len(objs) \in Nat /\ DOMAIN objs = 1 .. Len(objs)
      /\ \A id \in 1 .. Len(objs) : objs[id].id = id /\ AllIssued(objs[id].handles, pages)
  BY LenProperties DEF HandleInv, TypeOK
<1>2. ASSUME NEW id \in 1 .. Len(objs)
      PROVE  objs'[id] \in Timeshift /\ objs'[id].id = id /\ AllIssued(objs'[id].handles, pages)
  <2>1. CASE \E s \in data : s.id = id
    <3> DEFINE s == CHOOSE x \in data : x.id = id
    <3>1. s \in data /\ s.id = id
      BY <2>1
    <3>2. objs'[id] = s
      BY <1>1, <2>1 DEF Restart
    <3> HIDE DEF s
    <3> QED BY <3>1, <3>2 DEF DataInv
  <2>2. CASE ~ \E s \in data : s.id = id
    <3>1. objs'[id] = objs[id]
      BY <1>1, <2>2 DEF Restart
    <3> QED BY <1>1, <3>1, ElementOfSeq
  <2> QED BY <2>1, <2>2
<1>3. objs' = [id \in 1 .. Len(objs) |-> objs'[id]]
  BY <1>1 DEF Restart
<1>4. objs' \in [1 .. Len(objs) -> Timeshift]
  BY <1>2, <1>3
<1>5. objs' \in Seq(Timeshift) /\ Len(objs') = Len(objs)
  BY <1>1, <1>4, IsASeq, LenProperties
<1>6. {s.id : s \in data} \subseteq 1 .. Len(objs)
  BY DEF DataInv
<1>7. IsFiniteSet(1 .. Len(objs))
  BY <1>1, FS_Interval
<1>8. Cardinality({s.id : s \in data}) \in Nat
  BY <1>6, <1>7, FS_Subset, FS_CardinalityType
<1>9. /\ UNCHANGED <<up, inc, hook, pages, live, agentRestarts>>
      /\ registry' \subseteq 1 .. Len(objs) /\ gauge' \in Int
      /\ thr' = [t \in Threads |-> Idle] /\ expired' = expired /\ store' = store
  BY <1>6, <1>8 DEF Restart, clusterVars
<1>10. ClusterTypeOK'
  BY <1>9 DEF HandleInv, TypeOK, ClusterTypeOK
<1>11. TypeOK'
  BY <1>5, <1>9, <1>10, IdleOK DEF HandleInv, TypeOK, UsedType
<1>12. \A id \in 1 .. Len(objs') : objs'[id].id = id /\ AllIssued(objs'[id].handles, pages')
  BY <1>2, <1>5, <1>9
<1>13. DataInv(store'.data, pages', Len(objs'))
  BY <1>5, <1>9 DEF HandleInv
<1>14. \A t \in Threads : ThreadInv(thr'[t], pages', Len(objs'))
  BY <1>1, <1>5, <1>9, IdleOK
<1> QED
  BY <1>11, <1>12, <1>13, <1>14 DEF HandleInv

\* Both kinds of restart of the controller keep the invariant.
LEMMA CrashInv ==
    ASSUME HandleInv, CrashRestore \/ CrashEmpty
    PROVE  HandleInv'
<1>1. used \in UsedType /\ store.data \in SUBSET Timeshift /\ DataInv(store.data, pages, Len(objs))
  BY DEF HandleInv, TypeOK, UsedType
<1>2. used' \in UsedType
  <2>1. used.crashes + 1 \in Nat /\ used.faults + 1 \in Nat
    BY <1>1 DEF UsedType
  <2>2. \/ used' = [used EXCEPT !.crashes = used.crashes + 1]
        \/ used' = [used EXCEPT !.crashes = used.crashes + 1, !.faults = used.faults + 1]
    BY DEF CrashRestore, CrashEmpty
  <2> QED BY <1>1, <2>1, <2>2 DEF UsedType
<1>3. CASE CrashRestore
  BY <1>1, <1>2, <1>3, RestartInv DEF CrashRestore
<1>4. CASE CrashEmpty
  <2>1. {} \in SUBSET Timeshift /\ DataInv({}, pages, Len(objs))
    BY DEF DataInv
  <2> QED BY <1>2, <1>4, <2>1, RestartInv DEF CrashEmpty
<1> QED
  BY <1>3, <1>4

(***************************************************************************)
(* The invariant holds in every reachable state.                           *)
(***************************************************************************)
\* The invariant holds initially.
LEMMA InitInv == Init => HandleInv
<1> SUFFICES ASSUME Init PROVE HandleInv
  OBVIOUS
<1>1. ClusterTypeOK
  BY DEF Init, ClusterInit, ClusterTypeOK
<1>2. objs = <<>> /\ Len(objs) = 0 /\ Len(objs) \in Nat /\ objs \in Seq(Timeshift)
  BY DEF Init
<1>3. TypeOK
  BY <1>1, <1>2, IdleOK DEF Init, TypeOK
<1>4. \A id \in 1 .. Len(objs) : objs[id].id = id /\ AllIssued(objs[id].handles, pages)
  BY <1>2
<1>5. DataInv(store.data, pages, Len(objs))
  BY DEF Init, DataInv
<1>6. \A t \in Threads : ThreadInv(thr[t], pages, Len(objs))
  BY <1>2, IdleOK DEF Init
<1> QED
  BY <1>3, <1>4, <1>5, <1>6 DEF HandleInv

\* injectPod keeps the invariant.
LEMMA InjectPodInv ==
    ASSUME HandleInv, NEW t \in Threads, InjectPod(t)
    PROVE  HandleInv'
BY InjectOkInv, InjectErrInv, InjectLostInv DEF InjectPod

\* persist keeps the invariant.
LEMMA PersistInv ==
    ASSUME HandleInv, NEW t \in Threads, Persist(t)
    PROVE  HandleInv'
BY EncodeInv, GotoInv, FlushPutInv, FlushErrInv DEF Persist

\* resetHandles keeps the invariant.
LEMMA ResetHandlesInv ==
    ASSUME HandleInv, NEW t \in Threads, ResetHandles(t)
    PROVE  HandleInv'
BY ResetOkInv, SkipHandleInv, ResetDoneInv DEF ResetHandles

\* Every step of the specification keeps the invariant.
LEMMA NextInv ==
    ASSUME HandleInv, [Next]_vars
    PROVE  HandleInv'
<1>1. ASSUME NEW t \in Workers, NewRequest(t) PROVE HandleInv'
  <2>1. t \in Threads
    BY DEF Threads
  <2> QED BY <1>1, <2>1, CreateStartInv, UpdateStartInv, AdvanceReadInv, DeleteRemoveInv DEF NewRequest
<1>2. ASSUME NEW t \in Workers, WorkerStep(t) PROVE HandleInv'
  <2>1. t \in Threads
    BY DEF Threads
  <2> QED
    BY <1>2, <2>1, CreateCheckInv, InjectPodInv, ToIdleInv, CreateRegisterInv, GotoInv, AdvanceUpdateInv,
       SetTimeOkInv, SkipHandleInv, SetTimeNotFoundInv, ReinjectOkInv, ReinjectErrInv,
       ReinjectLostInv, UpdateApplyInv, PersistInv, ResetHandlesInv DEF WorkerStep
<1>3. ASSUME NEW t \in Sweepers, SweeperStep(t) PROVE HandleInv'
  <2>1. t \in Threads
    BY DEF Threads
  <2> QED BY <1>3, <2>1, SweepRemoveInv, ToIdleInv, SweepNextInv, PersistInv, ResetHandlesInv DEF SweeperStep
<1>4. ASSUME NEW t \in Watchers, WatcherStep(t) PROVE HandleInv'
  <2>1. t \in Threads
    BY DEF Threads
  <2> QED BY <1>4, <2>1, WatchMatchInv, ToIdleInv, WatchApplyInv, WatchNextInv, InjectPodInv DEF WatcherStep
<1>5. ASSUME NEW t \in Watchers, NEW p \in Pods, WatchReceive(t, p) PROVE HandleInv'
  <2>1. t \in Threads
    BY DEF Threads
  <2> QED BY <1>5, <2>1, WatchReceiveInv
<1>6. ASSUME Environment PROVE HandleInv'
  <2>1. ASSUME NEW t \in Workers, ClientGone(t) PROVE HandleInv'
    <3>1. t \in Threads
      BY DEF Threads
    <3> QED BY <2>1, <3>1, ClientGoneInv
  <2> QED BY <1>6, <2>1, ClusterInv, ExpireInv, CrashInv DEF Environment
<1>7. CASE UNCHANGED vars
  BY <1>7 DEF vars, clusterVars, ctlVars, HandleInv, TypeOK, ClusterTypeOK
<1> QED
  BY <1>1, <1>2, <1>3, <1>4, <1>5, <1>6, <1>7 DEF Next

\* The inductive invariant holds in every reachable state.
LEMMA Invariance == Spec => []HandleInv
BY InitInv, NextInv, PTL DEF Spec

(***************************************************************************)
(* The theorems.                                                           *)
(***************************************************************************)
\* Whatever the topology, the number of handlers and the bounds, every variable
\* of the controller and of the cluster keeps its type: no id, handle or loop
\* index of the code is ever used outside the structure it points into.
THEOREM TypeCorrect == Spec => []TypeOK
<1>1. HandleInv => TypeOK
  BY DEF HandleInv
<1> QED
  BY <1>1, Invariance, PTL

\* SetTime and Reset on behalf of a registered timeshift are only ever sent with
\* a handle that the agent issued for the container instance the entry names:
\* index-based refiling by updateTimeshift, the pod watcher's replacement of a
\* pod's entries and recovery from the ConfigMap never mix containers up.
THEOREM HandleSafe == Spec => []HandleMatchesContainer
<1>1. HandleInv => HandleMatchesContainer
  <2> SUFFICES ASSUME HandleInv, NEW id \in registry, NEW e \in Entries(objs[id].handles)
               PROVE  e.h \in DOMAIN pages /\ pages[e.h].c = e.c /\ pages[e.h].inc = e.inc
    BY DEF HandleMatchesContainer
  <2>1. /\ id \in 1 .. Len(objs) /\ objs \in Seq(Timeshift) /\ pages \in Seq(Page)
        /\ AllIssued(objs[id].handles, pages)
    BY DEF HandleInv, TypeOK, ClusterTypeOK
  <2>2. objs[id] \in Timeshift
    BY <2>1, ElementOfSeq
  <2>3. objs[id].handles \in Seq(ContainerHandle)
    BY <2>2 DEF Timeshift
  <2>4. PICK j \in 1 .. Len(objs[id].handles) : e = objs[id].handles[j]
    BY <2>3, LenProperties DEF Entries
  <2>5. IssuedFor(e, pages)
    BY <2>1, <2>4 DEF AllIssued
  <2> QED BY <2>1, <2>5, LenProperties DEF IssuedFor
<1> QED
  BY <1>1, Invariance, PTL

\* An update, an advance, a pod event or a sweep that is still in flight never
\* brings a deleted or swept timeshift back into the registry: apart from a
\* restart of the controller, an id enters the registry once, when it is new.
THEOREM NothingResurrected == Spec => NoResurrection
<1> DEFINE A == used'.crashes = used.crashes => \A id \in registry' \ registry : id \notin DOMAIN objs
<1>1. ASSUME HandleInv, [Next]_vars PROVE [A]_vars
  <2>0. used \in UsedType /\ objs \in Seq(Timeshift)
    BY <1>1 DEF HandleInv, TypeOK, UsedType
  <2>1. used \in UsedType /\ used.crashes \in Nat
        /\ Len(objs) \in Nat /\ DOMAIN objs = 1 .. Len(objs)
    BY <2>0, LenProperties DEF UsedType
  <2>2. ASSUME NEW t, CreateRegister(t) PROVE A
    <3>1. Len(objs) + 1 \notin 1 .. Len(objs)
      BY <2>1
    <3> QED BY <2>1, <2>2, <3>1 DEF CreateRegister
  <2>3. ASSUME NEW t, InjectPod(t) \/ Persist(t) \/ ResetHandles(t) PROVE registry' = registry
    BY <2>3 DEF InjectPod, InjectOk, InjectErr, InjectLost, Persist, Encode, FlushGet, FlushPut,
                FlushErr, ResetHandles, ResetOk, ResetErr, ResetDone
  <2>4. ASSUME NEW t, NewRequest(t) PROVE registry' \subseteq registry
    BY <2>4 DEF NewRequest, CreateStart, UpdateStart, AdvanceRead, DeleteRemove
  <2>5. ASSUME NEW t, WorkerStep(t) PROVE CreateRegister(t) \/ registry' = registry
    BY <2>3, <2>5 DEF WorkerStep, CreateCheck, CreateNone, GaugeInc, AdvanceUpdate, SetTimeOk, SetTimeErr,
         SetTimeLost, SetTimeNotFound, ReinjectOk, ReinjectErr, ReinjectLost, UpdateApply, GaugeDec
  <2>6. ASSUME NEW t, SweeperStep(t) PROVE registry' \subseteq registry
    BY <2>3, <2>6 DEF SweeperStep, SweepRemove, SweepDone, SweepNext
  <2>7. ASSUME NEW t, WatcherStep(t) PROVE registry' = registry
    BY <2>3, <2>7 DEF WatcherStep, WatchMatch, WatchDone, WatchApply, WatchNext
  <2>8. ASSUME NEW t, NEW p, WatchReceive(t, p) PROVE registry' = registry
    BY <2>8 DEF WatchReceive
  <2>9. ASSUME CrashRestore \/ CrashEmpty PROVE used'.crashes # used.crashes
    <3>1. used'.crashes = used.crashes + 1
      BY <2>1, <2>9 DEF CrashRestore, CrashEmpty, UsedType
    <3> QED BY <2>1, <3>1
  <2>10. ASSUME Environment PROVE A
    BY <2>9, <2>10 DEF Environment, ctlVars, ClientGone, Expire
  <2>11. registry' \subseteq registry => A
    OBVIOUS
  <2> HIDE DEF A
  <2>12. ASSUME Next PROVE A
    <3>1. ASSUME NEW t \in Workers, NewRequest(t) \/ WorkerStep(t) PROVE A
      BY <2>2, <2>4, <2>5, <2>11, <3>1
    <3>2. ASSUME NEW t \in Sweepers, SweeperStep(t) PROVE A
      BY <2>6, <2>11, <3>2
    <3>3. ASSUME NEW t \in Watchers, WatcherStep(t) \/ \E p \in Pods : WatchReceive(t, p) PROVE A
      BY <2>7, <2>8, <2>11, <3>3
    <3> QED BY <2>10, <2>12, <3>1, <3>2, <3>3 DEF Next
  <2> QED
    BY <1>1, <2>12
<1> QED
  BY <1>1, Invariance, PTL DEF Spec, NoResurrection

(***************************************************************************)
(* The inductive invariant.                                                *)
(***************************************************************************)
SavePC  == {"get", "cmCreate", "cmUpdate"}
SweepPC == SavePC \union {"encode", "expire", "reset"}
Collect == {"check", "inject"}

\* No container is in two entries.
Distinct(hs) == \A i, j \in 1 .. Len(hs) : hs[i].c = hs[j].c => i = j

\* A pod list has one container ID per container.
OneEach(list) == \A d, e \in list : d.c = e.c => d = e

\* Only a sweep has expired timeshifts to count and to reset.
IdsInv(l) == l.ids # {} => l.op = "sweep" /\ l.pc \in SweepPC

\* The containers that injectPod has done and those it has still to do are
\* different ones, and for a pod event all of them are of its pod.
EntryInv(l) ==
    /\ OneEach(l.list) /\ OneEach(l.todo)
    /\ \A s \in l.data : Distinct(s.handles)
    /\ l.op = "watch" => \A d \in l.list \union l.todo : PodOf[d.c] \in l.sel
    /\ l.pc \in Collect =>
          /\ Distinct(l.hs)
          /\ \A j \in 1 .. Len(l.hs) : /\ \A d \in l.todo : d.c # l.hs[j].c
                                       /\ l.op = "watch" => PodOf[l.hs[j].c] \in l.sel

RegInv ==
    /\ HandleInv
    /\ GaugeExact
    /\ \A t \in Threads : IdsInv(thr[t]) /\ EntryInv(thr[t])
    /\ \A id \in 1 .. Len(objs) : Distinct(objs[id].handles)
    /\ \A s \in store.data : Distinct(s.handles)

(***************************************************************************)
(* What most steps have in common: the gauge, the registry, the copies of  *)
(* it and what a client sees of a timeshift stay as they are.              *)
(***************************************************************************)
Others(t) == \A u \in Threads : u # t => thr'[u] = thr[u]

\* The gauge's balance of a thread, and the registry it saves.
Uncounted(a, b) == /\ a.pc = "inc" <=> b.pc = "inc"
                   /\ a.pc = "dec" <=> b.pc = "dec"
                   /\ b.ids = a.ids
Unsaved(a, b) == /\ a.pc \in SavePC <=> b.pc \in SavePC
                 /\ a.pc \in SavePC => b.data = a.data

Ordinary(t) ==
    /\ registry' = registry /\ store' = store /\ gauge' = gauge
    /\ Len(objs') = Len(objs)
    /\ \A id \in registry : Public(objs'[id]) = Public(objs[id])
    /\ \A id \in 1 .. Len(objs) : Distinct(objs'[id].handles)
    /\ Others(t)
    /\ Uncounted(thr[t], thr'[t]) /\ Unsaved(thr[t], thr'[t])
    /\ IdsInv(thr'[t]) /\ EntryInv(thr'[t])

\* The step leaves the lists and the handles of a thread, which may go on.
Tame(a, b) ==
    /\ b.op = a.op /\ b.ids = a.ids /\ b.list = a.list /\ b.sel = a.sel
    /\ b.todo \subseteq a.todo
    /\ b.data = a.data \/ b.data = {}
    /\ b.pc \in Collect => a.pc \in Collect /\ b.hs = a.hs
    /\ a.pc \in SweepPC => b.pc \in SweepPC

\* A thread that starts afresh has nothing to do yet.
Fresh(b) == b.ids = {} /\ b.list = {} /\ b.todo = {} /\ b.data = {} /\ b.pc \notin Collect

\* A step of that kind keeps what the invariant says of the thread.
LEMMA TameOK ==
    ASSUME NEW a, NEW b, Tame(a, b), IdsInv(a), EntryInv(a)
    PROVE  IdsInv(b) /\ EntryInv(b)
<1>1. IdsInv(b)
  BY DEF Tame, IdsInv
<1>2. OneEach(b.list) /\ OneEach(b.todo) /\ \A s \in b.data : Distinct(s.handles)
  BY DEF Tame, EntryInv, OneEach
<1>3. b.op = "watch" => \A d \in b.list \union b.todo : PodOf[d.c] \in b.sel
  BY DEF Tame, EntryInv
<1>4. b.pc \in Collect =>
          /\ Distinct(b.hs)
          /\ \A j \in 1 .. Len(b.hs) : /\ \A d \in b.todo : d.c # b.hs[j].c
                                       /\ b.op = "watch" => PodOf[b.hs[j].c] \in b.sel
  <2> SUFFICES ASSUME b.pc \in Collect
               PROVE  /\ Distinct(b.hs)
                      /\ \A j \in 1 .. Len(b.hs) : /\ \A d \in b.todo : d.c # b.hs[j].c
                                                   /\ b.op = "watch" => PodOf[b.hs[j].c] \in b.sel
    OBVIOUS
  <2>1. a.pc \in Collect /\ b.hs = a.hs /\ b.op = a.op /\ b.sel = a.sel /\ b.todo \subseteq a.todo
    BY DEF Tame
  <2> QED BY <2>1 DEF EntryInv
<1> QED
  BY <1>1, <1>2, <1>3, <1>4 DEF EntryInv

\* So does a fresh start.
LEMMA FreshOK ==
    ASSUME NEW b, Fresh(b)
    PROVE  IdsInv(b) /\ EntryInv(b)
BY DEF Fresh, IdsInv, EntryInv, OneEach

\* The frame of an ordinary step that leaves the heap alone.
LEMMA OrdinaryStep ==
    ASSUME RegInv, NEW t \in Threads, NEW l, thr' = [thr EXCEPT ![t] = l],
           UNCHANGED <<objs, registry, store, gauge>>,
           Uncounted(thr[t], l), Unsaved(thr[t], l), IdsInv(l), EntryInv(l)
    PROVE  Ordinary(t)
<1>1. thr \in [Threads -> Thread]
  BY DEF RegInv, HandleInv, TypeOK
<1>2. thr'[t] = l /\ Others(t)
  BY <1>1 DEF Others
<1> QED
  BY <1>2 DEF Ordinary, RegInv

\* The same for a thread that goes on, and for one that starts afresh.
LEMMA TameStep ==
    ASSUME RegInv, NEW t \in Threads, NEW l, thr' = [thr EXCEPT ![t] = l],
           UNCHANGED <<objs, registry, store, gauge>>,
           Uncounted(thr[t], l), Unsaved(thr[t], l), Tame(thr[t], l) \/ Fresh(l)
    PROVE  Ordinary(t)
<1>1. IdsInv(thr[t]) /\ EntryInv(thr[t])
  BY DEF RegInv
<1>2. IdsInv(l) /\ EntryInv(l)
  BY <1>1, TameOK, FreshOK
<1> QED
  BY <1>2, OrdinaryStep

(***************************************************************************)
(* The ordinary steps.                                                     *)
(***************************************************************************)
\* The idle thread.
LEMMA IdleFresh == /\ Fresh(Idle) /\ Idle.pc = "idle" /\ Idle.ids = {}
BY DEF Idle, Fresh, Collect

\* A handler that gives up, the end of a sweep, of a pod event or of a reset, and
\* an advance whose timeshift is gone.
LEMMA ToIdle ==
    ASSUME RegInv, NEW t \in Threads, thr' = [thr EXCEPT ![t] = Idle],
           UNCHANGED <<objs, registry, store, gauge>>,
           thr[t].pc \notin {"inc", "dec"} \union SavePC, thr[t].ids = {}
    PROVE  Ordinary(t)
<1>1. Uncounted(thr[t], Idle) /\ Unsaved(thr[t], Idle)
  BY IdleFresh DEF Uncounted, Unsaved, SavePC
<1> QED
  BY <1>1, IdleFresh, TameStep

\* SetTime and Reset move on to the next handle, whatever came of the call.
LEMMA SkipOrdinary ==
    ASSUME RegInv, NEW t \in Threads, SetTimeOk(t) \/ SetTimeErr(t) \/ SetTimeLost(t) \/ ResetOk(t) \/ ResetErr(t)
    PROVE  Ordinary(t)
<1> DEFINE l == [thr[t] EXCEPT !.i = @ + 1]
<1>1. thr[t] \in Thread /\ thr \in [Threads -> Thread] /\ IdsInv(thr[t])
  BY Facts DEF RegInv
<1>2. thr' = [thr EXCEPT ![t] = l] /\ UNCHANGED <<objs, registry, store, gauge>>
  BY <1>1 DEF SetTimeOk, SetTimeErr, SetTimeLost, ResetOk, ResetErr, NextHandle, AtReset
<1>3. Uncounted(thr[t], l) /\ Unsaved(thr[t], l)
  BY <1>1 DEF SetTimeOk, SetTimeErr, SetTimeLost, ResetOk, ResetErr, NextHandle, AtReset, Uncounted, Unsaved, SavePC, IdsInv, SweepPC, Thread
<1>4. Tame(thr[t], l) \/ Fresh(l)
  BY <1>1 DEF SetTimeOk, SetTimeErr, SetTimeLost, ResetOk, ResetErr, NextHandle, AtReset, Tame, Fresh, Collect, SavePC, SweepPC, Thread
<1> HIDE DEF l
<1> QED
  BY <1>2, <1>3, <1>4, TameStep

\* NOT_FOUND leads to a re-injection.
LEMMA NotFoundOrdinary ==
    ASSUME RegInv, NEW t \in Threads, SetTimeNotFound(t)
    PROVE  Ordinary(t)
<1> DEFINE l == [thr[t] EXCEPT !.pc = "reinject"]
<1>1. thr[t] \in Thread /\ thr \in [Threads -> Thread] /\ IdsInv(thr[t])
  BY Facts DEF RegInv
<1>2. thr' = [thr EXCEPT ![t] = l] /\ UNCHANGED <<objs, registry, store, gauge>>
  BY <1>1 DEF SetTimeNotFound, Goto
<1>3. Uncounted(thr[t], l) /\ Unsaved(thr[t], l)
  BY <1>1 DEF SetTimeNotFound, Goto, Uncounted, Unsaved, SavePC, IdsInv, SweepPC, Thread
<1>4. Tame(thr[t], l) \/ Fresh(l)
  BY <1>1 DEF SetTimeNotFound, Goto, Tame, Fresh, Collect, SavePC, SweepPC, Thread
<1> HIDE DEF l
<1> QED
  BY <1>2, <1>3, <1>4, TameStep

\* A re-injected handle is noted.
LEMMA ReinjectOkOrdinary ==
    ASSUME RegInv, NEW t \in Threads, ReinjectOk(t)
    PROVE  Ordinary(t)
<1> DEFINE l == [thr[t] EXCEPT !.pc = "settime", !.i = @ + 1, !.upd = @ \union {[idx |-> thr[t].i, new |-> NewHandle]}]
<1>1. thr[t] \in Thread /\ thr \in [Threads -> Thread] /\ IdsInv(thr[t])
  BY Facts DEF RegInv
<1>2. thr' = [thr EXCEPT ![t] = l] /\ UNCHANGED <<objs, registry, store, gauge>>
  BY <1>1 DEF ReinjectOk
<1>3. Uncounted(thr[t], l) /\ Unsaved(thr[t], l)
  BY <1>1 DEF ReinjectOk, Uncounted, Unsaved, SavePC, IdsInv, SweepPC, Thread
<1>4. Tame(thr[t], l) \/ Fresh(l)
  BY <1>1 DEF ReinjectOk, Tame, Fresh, Collect, SavePC, SweepPC, Thread
<1> HIDE DEF l
<1> QED
  BY <1>2, <1>3, <1>4, TameStep

\* A re-injection that failed, or seems to have, is not.
LEMMA ReinjectSkipOrdinary ==
    ASSUME RegInv, NEW t \in Threads, ReinjectErr(t) \/ ReinjectLost(t)
    PROVE  Ordinary(t)
<1> DEFINE l == [thr[t] EXCEPT !.pc = "settime", !.i = @ + 1]
<1>1. thr[t] \in Thread /\ thr \in [Threads -> Thread] /\ IdsInv(thr[t])
  BY Facts DEF RegInv
<1>2. thr' = [thr EXCEPT ![t] = l] /\ UNCHANGED <<objs, registry, store, gauge>>
  BY <1>1 DEF ReinjectErr, ReinjectLost
<1>3. Uncounted(thr[t], l) /\ Unsaved(thr[t], l)
  BY <1>1 DEF ReinjectErr, ReinjectLost, Uncounted, Unsaved, SavePC, IdsInv, SweepPC, Thread
<1>4. Tame(thr[t], l) \/ Fresh(l)
  BY <1>1 DEF ReinjectErr, ReinjectLost, Tame, Fresh, Collect, SavePC, SweepPC, Thread
<1> HIDE DEF l
<1> QED
  BY <1>2, <1>3, <1>4, TameStep

\* A container that could not be injected is left out.
LEMMA InjectSkipOrdinary ==
    ASSUME RegInv, NEW t \in Threads, NEW cid \in thr[t].todo, InjectErr(t, cid) \/ InjectLost(t, cid)
    PROVE  Ordinary(t)
<1> DEFINE l == [thr[t] EXCEPT !.todo = @ \ {cid}]
<1>1. thr[t] \in Thread /\ thr \in [Threads -> Thread] /\ IdsInv(thr[t])
  BY Facts DEF RegInv
<1>2. thr' = [thr EXCEPT ![t] = l] /\ UNCHANGED <<objs, registry, store, gauge>>
  BY <1>1 DEF InjectErr, InjectLost
<1>3. Uncounted(thr[t], l) /\ Unsaved(thr[t], l)
  BY <1>1 DEF InjectErr, InjectLost, Uncounted, Unsaved, SavePC, IdsInv, SweepPC, Thread
<1>4. Tame(thr[t], l) \/ Fresh(l)
  BY <1>1 DEF InjectErr, InjectLost, Tame, Fresh, Collect, SavePC, SweepPC, Thread
<1> HIDE DEF l
<1> QED
  BY <1>2, <1>3, <1>4, TameStep

\* The Get of a flush only tells how to go on.
LEMMA FlushGetOrdinary ==
    ASSUME RegInv, NEW t \in Threads, FlushGet(t)
    PROVE  Ordinary(t)
<1> DEFINE l == [thr[t] EXCEPT !.pc = IF store.exists THEN "cmUpdate" ELSE "cmCreate"]
<1>1. thr[t] \in Thread /\ thr \in [Threads -> Thread] /\ IdsInv(thr[t])
  BY Facts DEF RegInv
<1>2. thr' = [thr EXCEPT ![t] = l] /\ UNCHANGED <<objs, registry, store, gauge>>
  BY <1>1 DEF FlushGet, Goto
<1>3. Uncounted(thr[t], l) /\ Unsaved(thr[t], l)
  BY <1>1 DEF FlushGet, Goto, Uncounted, Unsaved, SavePC, IdsInv, SweepPC, Thread
<1>4. Tame(thr[t], l) \/ Fresh(l)
  BY <1>1 DEF FlushGet, Goto, Tame, Fresh, Collect, SavePC, SweepPC, Thread
<1> HIDE DEF l
<1> QED
  BY <1>2, <1>3, <1>4, TameStep

\* A client that goes away.
LEMMA ClientGoneOrdinary ==
    ASSUME RegInv, NEW t \in Threads, ClientGone(t)
    PROVE  Ordinary(t)
<1> DEFINE l == [thr[t] EXCEPT !.cut = TRUE]
<1>1. thr[t] \in Thread /\ thr \in [Threads -> Thread] /\ IdsInv(thr[t])
  BY Facts DEF RegInv
<1>2. thr' = [thr EXCEPT ![t] = l] /\ UNCHANGED <<objs, registry, store, gauge>>
  BY <1>1 DEF ClientGone
<1>3. Uncounted(thr[t], l) /\ Unsaved(thr[t], l)
  BY <1>1 DEF ClientGone, Uncounted, Unsaved, SavePC, IdsInv, SweepPC, Thread
<1>4. Tame(thr[t], l) \/ Fresh(l)
  BY <1>1 DEF ClientGone, Tame, Fresh, Collect, SavePC, SweepPC, Thread
<1> HIDE DEF l
<1> QED
  BY <1>2, <1>3, <1>4, TameStep

\* An update starts with a snapshot.
LEMMA UpdateStartOrdinary ==
    ASSUME RegInv, NEW t \in Threads, NEW id \in registry, NEW k \in Clocks, UpdateStart(t, id, k)
    PROVE  Ordinary(t)
<1> DEFINE l == Snapshot(id, k)
<1>1. thr[t] \in Thread /\ thr \in [Threads -> Thread] /\ IdsInv(thr[t])
  BY Facts DEF RegInv
<1>2. thr' = [thr EXCEPT ![t] = l] /\ UNCHANGED <<objs, registry, store, gauge>>
  BY <1>1 DEF UpdateStart
<1>3. Uncounted(thr[t], l) /\ Unsaved(thr[t], l)
  BY <1>1 DEF UpdateStart, Snapshot, Idle, Uncounted, Unsaved, SavePC, IdsInv, SweepPC, Thread
<1>4. Tame(thr[t], l) \/ Fresh(l)
  BY <1>1 DEF UpdateStart, Snapshot, Idle, Tame, Fresh, Collect, SavePC, SweepPC, Thread
<1> HIDE DEF l
<1> QED
  BY <1>2, <1>3, <1>4, TameStep

\* An advance reads the clock.
LEMMA AdvanceReadOrdinary ==
    ASSUME RegInv, NEW t \in Threads, NEW id \in registry, NEW delta \in Deltas, NEW freeze \in Freezes, AdvanceRead(t, id, delta, freeze)
    PROVE  Ordinary(t)
<1> DEFINE l == [Idle EXCEPT !.pc = "lookup", !.op = "advance", !.id = id,
                 !.clock = [frozen |-> freeze, at |-> objs[id].clock.at + delta]]
<1>1. thr[t] \in Thread /\ thr \in [Threads -> Thread] /\ IdsInv(thr[t])
  BY Facts DEF RegInv
<1>2. thr' = [thr EXCEPT ![t] = l] /\ UNCHANGED <<objs, registry, store, gauge>>
  BY <1>1 DEF AdvanceRead
<1>3. Uncounted(thr[t], l) /\ Unsaved(thr[t], l)
  BY <1>1 DEF AdvanceRead, Idle, Uncounted, Unsaved, SavePC, IdsInv, SweepPC, Thread
<1>4. Tame(thr[t], l) \/ Fresh(l)
  BY <1>1 DEF AdvanceRead, Idle, Tame, Fresh, Collect, SavePC, SweepPC, Thread
<1> HIDE DEF l
<1> QED
  BY <1>2, <1>3, <1>4, TameStep

\* The end of a request, of a sweep or of a pod event.
LEMMA EndOrdinary ==
    ASSUME RegInv, NEW t \in Threads, CreateNone(t) \/ SweepDone(t) \/ WatchDone(t)
    PROVE  Ordinary(t)
<1>1. IdsInv(thr[t])
  BY DEF RegInv
<1>2. thr[t].ids = {} /\ thr[t].pc \notin {"inc", "dec"} \union SavePC
  BY <1>1 DEF CreateNone, SweepDone, WatchDone, IdsInv, SweepPC, SavePC
<1>3. thr' = [thr EXCEPT ![t] = Idle] /\ UNCHANGED <<objs, registry, store, gauge>>
  BY DEF CreateNone, SweepDone, WatchDone
<1> QED
  BY <1>2, <1>3, ToIdle

\* The conflict check.
LEMMA CreateCheckOrdinary ==
    ASSUME RegInv, NEW t \in Threads, CreateCheck(t)
    PROVE  Ordinary(t)
<1> DEFINE l == [thr[t] EXCEPT !.pc = "inject"]
<1>1. thr[t] \in Thread /\ thr \in [Threads -> Thread] /\ IdsInv(thr[t]) /\ thr[t].pc = "check"
  BY Facts DEF RegInv, CreateCheck
<1>2. UNCHANGED <<objs, registry, store, gauge>> /\ (thr' = [thr EXCEPT ![t] = Idle] \/ thr' = [thr EXCEPT ![t] = l])
  BY <1>1 DEF CreateCheck
<1>3. Uncounted(thr[t], l) /\ Unsaved(thr[t], l) /\ Tame(thr[t], l)
  BY <1>1 DEF Uncounted, Unsaved, SavePC, SweepPC, Tame, Collect, Thread
<1>4. thr[t].ids = {} /\ thr[t].pc \notin {"inc", "dec"} \union SavePC
  BY <1>1 DEF IdsInv, SweepPC, SavePC
<1> HIDE DEF l
<1>5. CASE thr' = [thr EXCEPT ![t] = Idle]
  BY <1>2, <1>4, <1>5, ToIdle
<1>6. CASE thr' = [thr EXCEPT ![t] = l]
  BY <1>2, <1>3, <1>6, TameStep
<1> QED
  BY <1>2, <1>5, <1>6

\* The second half of an advance.
LEMMA AdvanceUpdateOrdinary ==
    ASSUME RegInv, NEW t \in Threads, AdvanceUpdate(t)
    PROVE  Ordinary(t)
<1> DEFINE l == [Snapshot(thr[t].id, thr[t].clock) EXCEPT !.op = "advance", !.cut = thr[t].cut]
<1>1. thr[t] \in Thread /\ thr \in [Threads -> Thread] /\ IdsInv(thr[t]) /\ thr[t].pc = "lookup"
  BY Facts DEF RegInv, AdvanceUpdate
<1>2. UNCHANGED <<objs, registry, store, gauge>> /\ (thr' = [thr EXCEPT ![t] = Idle] \/ thr' = [thr EXCEPT ![t] = l])
  BY <1>1 DEF AdvanceUpdate
<1>3. thr[t].ids = {} /\ thr[t].pc \notin {"inc", "dec"} \union SavePC
  BY <1>1 DEF IdsInv, SweepPC, SavePC
<1>4. Uncounted(thr[t], l) /\ Unsaved(thr[t], l) /\ Fresh(l)
  BY <1>1, <1>3 DEF Uncounted, Unsaved, SavePC, Fresh, Collect, Snapshot, Idle
<1> HIDE DEF l
<1>5. CASE thr' = [thr EXCEPT ![t] = Idle]
  BY <1>2, <1>3, <1>5, ToIdle
<1>6. CASE thr' = [thr EXCEPT ![t] = l]
  BY <1>2, <1>4, <1>6, TameStep
<1> QED
  BY <1>2, <1>5, <1>6

\* The end of resetHandles.
LEMMA ResetDoneOrdinary ==
    ASSUME RegInv, NEW t \in Threads, ResetDone(t)
    PROVE  Ordinary(t)
<1> DEFINE l == [thr[t] EXCEPT !.pc = "expire"]
<1>1. thr[t] \in Thread /\ thr \in [Threads -> Thread] /\ IdsInv(thr[t]) /\ thr[t].pc = "reset"
  BY Facts DEF RegInv, ResetDone
<1>2. UNCHANGED <<objs, registry, store, gauge>>
  BY DEF ResetDone
<1>3. CASE thr[t].op = "sweep"
  <2>1. thr' = [thr EXCEPT ![t] = l]
    BY <1>1, <1>3 DEF ResetDone
  <2>2. Uncounted(thr[t], l) /\ Unsaved(thr[t], l) /\ Tame(thr[t], l)
    BY <1>1 DEF Uncounted, Unsaved, SavePC, SweepPC, Tame, Collect, Thread
  <2> HIDE DEF l
  <2> QED BY <1>2, <2>1, <2>2, TameStep
<1>4. CASE thr[t].op # "sweep"
  <2>1. thr' = [thr EXCEPT ![t] = Idle]
    BY <1>1, <1>4 DEF ResetDone
  <2>2. thr[t].ids = {} /\ thr[t].pc \notin {"inc", "dec"} \union SavePC
    BY <1>1, <1>4 DEF IdsInv, SavePC
  <2> QED BY <1>2, <2>1, <2>2, ToIdle
<1> QED
  BY <1>3, <1>4

\* The matching of a pod event.
LEMMA WatchMatchOrdinary ==
    ASSUME RegInv, NEW t \in Threads, WatchMatch(t)
    PROVE  Ordinary(t)
<1> DEFINE l == [thr[t] EXCEPT !.pc = "matched", !.matched = MatchesOf(thr[t])]
<1>1. thr[t] \in Thread /\ thr \in [Threads -> Thread] /\ IdsInv(thr[t]) /\ thr[t].pc = "match"
  BY Facts DEF RegInv, WatchMatch
<1>2. UNCHANGED <<objs, registry, store, gauge>> /\ (thr' = [thr EXCEPT ![t] = Idle] \/ thr' = [thr EXCEPT ![t] = l])
  BY <1>1 DEF WatchMatch
<1>3. Uncounted(thr[t], l) /\ Unsaved(thr[t], l) /\ Tame(thr[t], l)
  BY <1>1 DEF Uncounted, Unsaved, SavePC, SweepPC, Tame, Collect, Thread
<1>4. thr[t].ids = {} /\ thr[t].pc \notin {"inc", "dec"} \union SavePC
  BY <1>1 DEF IdsInv, SweepPC, SavePC
<1> HIDE DEF l
<1>5. CASE thr' = [thr EXCEPT ![t] = Idle]
  BY <1>2, <1>4, <1>5, ToIdle
<1>6. CASE thr' = [thr EXCEPT ![t] = l]
  BY <1>2, <1>3, <1>6, TameStep
<1> QED
  BY <1>2, <1>5, <1>6

(***************************************************************************)
(* Steps that walk a pod list.                                             *)
(***************************************************************************)
\* A pod list has every container once.
LEMMA RunningOnce ==
    ASSUME NEW ps
    PROVE  OneEach(RunningIn(ps)) /\ \A d \in RunningIn(ps) : PodOf[d.c] \in ps
BY DEF OneEach, RunningIn

\* A create request lists the pods.
LEMMA CreateStartOrdinary ==
    ASSUME RegInv, NEW t \in Threads, NEW sel, NEW k, NEW ttl, CreateStart(t, sel, k, ttl)
    PROVE  Ordinary(t)
<1> DEFINE l == [Idle EXCEPT !.pc = "check", !.op = "create", !.sel = sel,
                             !.clock = k, !.ttl = ttl, !.todo = RunningIn(sel)]
<1>1. IdsInv(thr[t]) /\ thr[t].pc = "idle"
  BY DEF RegInv, CreateStart
<1>2. thr' = [thr EXCEPT ![t] = l] /\ UNCHANGED <<objs, registry, store, gauge>>
  BY DEF CreateStart
<1>3. /\ l.pc = "check" /\ l.op = "create" /\ l.todo = RunningIn(sel) /\ l.list = {} /\ l.hs = <<>>
      /\ l.ids = {} /\ l.data = {}
  BY DEF Idle
<1> HIDE DEF l
<1>4. Uncounted(thr[t], l) /\ Unsaved(thr[t], l) /\ IdsInv(l)
  BY <1>1, <1>3 DEF Uncounted, Unsaved, SavePC, IdsInv, SweepPC
<1>5. EntryInv(l)
  BY <1>3, RunningOnce DEF EntryInv, OneEach, Distinct
<1> QED
  BY <1>2, <1>4, <1>5, OrdinaryStep

\* A pod event carries the list of one pod.
LEMMA WatchReceiveOrdinary ==
    ASSUME RegInv, NEW t \in Threads, NEW p, WatchReceive(t, p)
    PROVE  Ordinary(t)
<1> DEFINE l == [Idle EXCEPT !.pc = "match", !.op = "watch", !.sel = {p}, !.list = RunningIn({p})]
<1>1. IdsInv(thr[t]) /\ thr[t].pc = "idle"
  BY DEF RegInv, WatchReceive
<1>2. thr' = [thr EXCEPT ![t] = l] /\ UNCHANGED <<objs, registry, store, gauge>>
  BY DEF WatchReceive
<1>3. /\ l.pc = "match" /\ l.todo = {} /\ l.list = RunningIn({p}) /\ l.sel = {p}
      /\ l.ids = {} /\ l.data = {}
  BY DEF Idle
<1> HIDE DEF l
<1>4. Uncounted(thr[t], l) /\ Unsaved(thr[t], l) /\ IdsInv(l)
  BY <1>1, <1>3 DEF Uncounted, Unsaved, SavePC, IdsInv, SweepPC
<1>5. OneEach(RunningIn({p})) /\ \A d \in RunningIn({p}) : PodOf[d.c] \in {p}
  BY RunningOnce
<1>6. EntryInv(l)
  BY <1>3, <1>5 DEF EntryInv, OneEach, Collect
<1> QED
  BY <1>2, <1>4, <1>6, OrdinaryStep

\* The pod watcher takes the whole list for the next match.
LEMMA WatchNextOrdinary ==
    ASSUME RegInv, NEW t \in Threads, NEW m \in thr[t].matched, WatchNext(t, m)
    PROVE  Ordinary(t)
<1> DEFINE l == [thr[t] EXCEPT !.pc = "inject", !.matched = @ \ {m}, !.id = m.id,
                               !.clock = m.clock, !.todo = thr[t].list, !.hs = <<>>]
<1>1. thr[t] \in Thread /\ thr \in [Threads -> Thread] /\ IdsInv(thr[t]) /\ EntryInv(thr[t]) /\ thr[t].pc = "matched"
  BY Facts DEF RegInv, WatchNext
<1>2. thr' = [thr EXCEPT ![t] = l] /\ UNCHANGED <<objs, registry, store, gauge>>
  BY <1>1 DEF WatchNext
<1>3. /\ l.pc = "inject" /\ l.todo = thr[t].list /\ l.list = thr[t].list /\ l.sel = thr[t].sel /\ l.hs = <<>>
      /\ l.ids = thr[t].ids /\ l.data = thr[t].data /\ l.op = thr[t].op
  BY <1>1 DEF Thread
<1> HIDE DEF l
<1>4. Uncounted(thr[t], l) /\ Unsaved(thr[t], l) /\ IdsInv(l)
  BY <1>1, <1>3 DEF Uncounted, Unsaved, SavePC, IdsInv, SweepPC
<1>5. EntryInv(l)
  BY <1>1, <1>3 DEF EntryInv, Distinct
<1> QED
  BY <1>2, <1>4, <1>5, OrdinaryStep

\* injectPod collects a handle for a container it had not done yet.
LEMMA InjectOkOrdinary ==
    ASSUME RegInv, NEW t \in Threads, NEW cid \in thr[t].todo, InjectOk(t, cid)
    PROVE  Ordinary(t)
<1> DEFINE e == [c |-> cid.c, inc |-> cid.inc, h |-> NewHandle]
           l == [thr[t] EXCEPT !.todo = @ \ {cid}, !.hs = Append(@, e)]
<1>1. thr[t] \in Thread /\ thr \in [Threads -> Thread] /\ IdsInv(thr[t]) /\ EntryInv(thr[t]) /\ thr[t].pc = "inject"
  BY Facts DEF RegInv, InjectOk
<1>2. thr' = [thr EXCEPT ![t] = l] /\ UNCHANGED <<objs, registry, store, gauge>> /\ e.c = cid.c
  BY <1>1 DEF InjectOk
<1> HIDE DEF e
<1>3. /\ l.pc = "inject" /\ l.todo = thr[t].todo \ {cid} /\ l.list = thr[t].list /\ l.sel = thr[t].sel
      /\ l.hs = Append(thr[t].hs, e) /\ l.ids = thr[t].ids /\ l.data = thr[t].data /\ l.op = thr[t].op
  BY <1>1 DEF Thread
<1> HIDE DEF l
<1>4. Uncounted(thr[t], l) /\ Unsaved(thr[t], l) /\ IdsInv(l)
  BY <1>1, <1>3 DEF Uncounted, Unsaved, SavePC, IdsInv, SweepPC
<1>5. thr[t].hs \in Seq(ContainerHandle)
  BY <1>1 DEF Thread
<1>6. /\ Len(l.hs) = Len(thr[t].hs) + 1 /\ Len(thr[t].hs) \in Nat
      /\ \A j \in 1 .. Len(thr[t].hs) : l.hs[j] = thr[t].hs[j]
      /\ l.hs[Len(thr[t].hs) + 1] = e
  BY <1>3, <1>5
<1>7. \A j \in 1 .. Len(l.hs) : j \in 1 .. Len(thr[t].hs) \/ j = Len(thr[t].hs) + 1
  BY <1>6
<1>8. /\ Distinct(thr[t].hs)
      /\ \A j \in 1 .. Len(thr[t].hs) : /\ \A d \in thr[t].todo : d.c # thr[t].hs[j].c
                                        /\ thr[t].op = "watch" => PodOf[thr[t].hs[j].c] \in thr[t].sel
      /\ thr[t].op = "watch" => PodOf[cid.c] \in thr[t].sel
      /\ \A d \in thr[t].todo : d.c = cid.c => d = cid
  BY <1>1 DEF EntryInv, Collect, OneEach
<1>9. Distinct(l.hs)
  <2> SUFFICES ASSUME NEW i \in 1 .. Len(l.hs), NEW j \in 1 .. Len(l.hs), l.hs[i].c = l.hs[j].c
               PROVE  i = j
    BY DEF Distinct
  <2> QED BY <1>2, <1>6, <1>7, <1>8 DEF Distinct
<1>10. \A j \in 1 .. Len(l.hs) : /\ \A d \in l.todo : d.c # l.hs[j].c
                                 /\ l.op = "watch" => PodOf[l.hs[j].c] \in l.sel
  BY <1>2, <1>3, <1>6, <1>7, <1>8
<1>11. EntryInv(l)
  BY <1>1, <1>3, <1>9, <1>10 DEF EntryInv, OneEach
<1> QED
  BY <1>2, <1>4, <1>11, OrdinaryStep

(***************************************************************************)
(* Steps that change timeshifts.                                           *)
(***************************************************************************)
\* An update keeps the containers of a timeshift in their places.
LEMMA RefreshedDistinct ==
    ASSUME NEW handles \in Seq(ContainerHandle), NEW hs, NEW upd, Distinct(handles)
    PROVE  Distinct(Refreshed(handles, hs, upd))
<1> DEFINE r == Refreshed(handles, hs, upd)
<1>1. Len(handles) \in Nat /\ DOMAIN handles = 1 .. Len(handles) /\ \A j \in 1 .. Len(handles) : handles[j] \in ContainerHandle
  BY ElementOfSeq, LenProperties
<1>2. ASSUME NEW j \in 1 .. Len(handles) PROVE r[j].c = handles[j].c
  <2>1. handles[j] \in ContainerHandle
    BY <1>1
  <2> DEFINE e == [handles[j] EXCEPT !.h = (CHOOSE u \in upd : u.idx = j).new]
  <2>2. r[j] = e \/ r[j] = handles[j]
    BY <1>1 DEF Refreshed
  <2>3. e.c = handles[j].c
    BY <2>1 DEF ContainerHandle
  <2> QED BY <2>2, <2>3
<1>3. DOMAIN r = 1 .. Len(handles)
  BY <1>1 DEF Refreshed
<1>4. Len(r) = Len(handles)
  BY <1>1, <1>3 DEF Refreshed
<1> HIDE DEF r
<1>5. Distinct(r)
  BY <1>2, <1>4 DEF Distinct
<1> QED
  BY <1>5 DEF r

\* The pod watcher keeps entries of other pods only, each once.
LEMMA RetainedDistinct ==
    ASSUME NEW handles \in Seq(ContainerHandle), NEW ps, Distinct(handles), NEW kept \in Retained(handles, ps)
    PROVE  Distinct(kept) /\ \A j \in 1 .. Len(kept) : PodOf[kept[j].c] \notin ps
<1> DEFINE keep == {j \in DOMAIN handles : PodOf[handles[j].c] \notin ps}
           n    == Cardinality(keep)
<1>1. Len(handles) \in Nat /\ DOMAIN handles = 1 .. Len(handles)
  BY LenProperties
<1>2. IsFiniteSet(1 .. Len(handles))
  BY <1>1, FS_Interval
<1>3. n \in Nat
  BY <1>1, <1>2, FS_Subset, FS_CardinalityType
<1>4. PICK f \in [1 .. n -> keep] : /\ kept = [k \in 1 .. n |-> handles[f[k]]]
                                    /\ \A i, j \in 1 .. n : i < j => f[i] < f[j]
  BY Zenon DEF Retained
<1>5. \A k \in 1 .. n : f[k] \in 1 .. Len(handles) /\ PodOf[handles[f[k]].c] \notin ps
  BY <1>1, <1>4
<1> HIDE DEF n, keep
<1>6. Len(kept) = n
  BY <1>3, <1>4
<1>7. ASSUME NEW i \in 1 .. n, NEW j \in 1 .. n, f[i] = f[j] PROVE i = j
  <2>1. i \in Nat /\ j \in Nat /\ f[i] \in Nat /\ f[j] \in Nat
    BY <1>1, <1>3, <1>5
  <2>2. ~(i < j) /\ ~(j < i)
    BY <1>4, <1>7, <2>1
  <2> QED BY <2>1, <2>2
<1>8. Distinct(kept)
  <2> SUFFICES ASSUME NEW i \in 1 .. n, NEW j \in 1 .. n, kept[i].c = kept[j].c PROVE i = j
    BY <1>6 DEF Distinct
  <2>1. handles[f[i]].c = handles[f[j]].c
    BY <1>4
  <2>2. f[i] = f[j]
    BY <1>5, <2>1 DEF Distinct
  <2> QED BY <1>7, <2>2
<1> QED
  BY <1>4, <1>5, <1>6, <1>8

\* What a client sees of a timeshift does not depend on its handles.
LEMMA PublicKept ==
    ASSUME NEW s \in Timeshift, NEW h
    PROVE  Public([s EXCEPT !.handles = h]) = Public(s)
BY DEF Public, Timeshift

\* The pod watcher replaces the entries of one pod.
LEMMA WatchApplyOrdinary ==
    ASSUME RegInv, NEW t \in Threads, WatchApply(t)
    PROVE  Ordinary(t)
<1> DEFINE id == thr[t].id
           l == [thr[t] EXCEPT !.pc = "matched", !.hs = <<>>]
<1>1. /\ thr[t] \in Thread /\ thr \in [Threads -> Thread] /\ IdsInv(thr[t]) /\ EntryInv(thr[t])
      /\ thr[t].pc = "inject" /\ thr[t].op = "watch"
      /\ objs \in Seq(Timeshift) /\ Len(objs) \in Nat /\ registry \subseteq 1 .. Len(objs)
  BY Facts DEF RegInv, WatchApply
<1>2. thr' = [thr EXCEPT ![t] = l] /\ UNCHANGED <<registry, store, gauge>>
  BY <1>1 DEF WatchApply
<1>3. Uncounted(thr[t], l) /\ Unsaved(thr[t], l) /\ Tame(thr[t], l)
  BY <1>1 DEF Uncounted, Unsaved, SavePC, SweepPC, Tame, Collect, Thread
<1> HIDE DEF l
<1>4. IdsInv(l) /\ EntryInv(l)
  BY <1>1, <1>3, TameOK
<1>5. thr'[t] = l /\ Others(t)
  BY <1>1, <1>2 DEF Others
<1>6. /\ Len(objs') = Len(objs)
      /\ \A j \in registry : Public(objs'[j]) = Public(objs[j])
      /\ \A j \in 1 .. Len(objs) : Distinct(objs'[j].handles)
  <2>1. CASE thr[t].hs # <<>> /\ thr[t].id \in registry
    <3>1. PICK kept \in Retained(objs[id].handles, thr[t].sel) :
              objs' = [objs EXCEPT ![id].handles = kept \o thr[t].hs]
      BY <2>1 DEF WatchApply
    <3>2. id \in 1 .. Len(objs) /\ objs[id] \in Timeshift /\ Distinct(objs[id].handles)
      BY <1>1, <2>1, ElementOfSeq DEF RegInv
    <3>3. objs[id].handles \in Seq(ContainerHandle) /\ AllIssued(objs[id].handles, pages)
      BY <3>2 DEF Timeshift, RegInv, HandleInv
    <3>4. kept \in Seq(ContainerHandle)
      BY <3>3, RetainedOK
    <3>5. Distinct(kept) /\ \A j \in 1 .. Len(kept) : PodOf[kept[j].c] \notin thr[t].sel
      BY <3>2, <3>3, RetainedDistinct
    <3>6. thr[t].hs \in Seq(ContainerHandle)
      BY <1>1 DEF Thread
    <3>7. Distinct(thr[t].hs) /\ \A j \in 1 .. Len(thr[t].hs) : PodOf[thr[t].hs[j].c] \in thr[t].sel
      BY <1>1 DEF EntryInv, Collect
    <3> DEFINE new == kept \o thr[t].hs
               s   == [objs[id] EXCEPT !.handles = new]
    <3>8. /\ Len(new) = Len(kept) + Len(thr[t].hs)
          /\ Len(kept) \in Nat /\ Len(thr[t].hs) \in Nat
          /\ \A j \in 1 .. Len(kept) + Len(thr[t].hs) :
                new[j] = IF j <= Len(kept) THEN kept[j] ELSE thr[t].hs[j - Len(kept)]
      BY <3>4, <3>6, ConcatProperties, LenProperties
    <3> HIDE DEF new
    <3>9. Distinct(new)
      <4> SUFFICES ASSUME NEW i \in 1 .. Len(new), NEW j \in 1 .. Len(new), new[i].c = new[j].c PROVE i = j
        BY DEF Distinct
      <4>1. \A k \in 1 .. Len(new) : \/ k \in 1 .. Len(kept) /\ new[k] = kept[k]
                                     \/ k - Len(kept) \in 1 .. Len(thr[t].hs) /\ new[k] = thr[t].hs[k - Len(kept)]
        BY <3>8
      <4>2. CASE i \in 1 .. Len(kept) /\ new[i] = kept[i] /\ j \in 1 .. Len(kept) /\ new[j] = kept[j]
        BY <3>5, <4>2 DEF Distinct
      <4>3. CASE /\ i - Len(kept) \in 1 .. Len(thr[t].hs) /\ new[i] = thr[t].hs[i - Len(kept)]
                 /\ j - Len(kept) \in 1 .. Len(thr[t].hs) /\ new[j] = thr[t].hs[j - Len(kept)]
        <5>1. i - Len(kept) = j - Len(kept)
          BY <3>7, <4>3 DEF Distinct
        <5> QED BY <3>8, <5>1
      <4> QED BY <3>5, <3>7, <4>1, <4>2, <4>3
    <3>10. s.handles = new /\ Public(s) = Public(objs[id])
      BY <3>2, PublicKept DEF Timeshift
    <3>11. objs' = [objs EXCEPT ![id] = s]
      BY <3>1 DEF new
    <3> HIDE DEF s
    <3>12. Len(objs') = Len(objs) /\ \A j \in 1 .. Len(objs) : objs'[j] = IF j = id THEN s ELSE objs[j]
      BY <1>1, <3>2, <3>11
    <3> QED BY <1>1, <3>9, <3>10, <3>12 DEF RegInv
  <2>2. CASE ~(thr[t].hs # <<>> /\ thr[t].id \in registry)
    <3>1. objs' = objs
      BY <2>2 DEF WatchApply
    <3> QED BY <3>1 DEF RegInv
  <2> QED BY <2>1, <2>2
<1> QED
  BY <1>2, <1>3, <1>4, <1>5, <1>6 DEF Ordinary

(***************************************************************************)
(* The gauge.                                                              *)
(***************************************************************************)
Incs == {t \in Threads : thr[t].pc = "inc"}
Decs == {t \in Threads : thr[t].pc = "dec"}
Pend == UNION {{<<t, id>> : id \in thr[t].ids} : t \in Threads}

\* What GaugeExact counts.
LEMMA GaugeDef ==
    GaugeExact <=> gauge = Cardinality(registry) - Cardinality(Incs) + Cardinality(Decs) + Cardinality(Pend)
BY DEF GaugeExact, Incs, Decs, Pend

\* The same of the next state.
LEMMA GaugeNext ==
    ASSUME gauge' = Cardinality(registry') - Cardinality(Incs') + Cardinality(Decs') + Cardinality(Pend')
    PROVE  GaugeExact'
BY DEF GaugeExact, Incs, Decs, Pend

\* The sets that it counts are finite.
LEMMA Countable ==
    ASSUME HandleInv
    PROVE  /\ IsFiniteSet(registry) /\ IsFiniteSet(Incs) /\ IsFiniteSet(Decs) /\ IsFiniteSet(Pend)
           /\ Cardinality(registry) \in Nat /\ Cardinality(Incs) \in Nat
           /\ Cardinality(Decs) \in Nat /\ Cardinality(Pend) \in Nat
<1>1. IsFiniteSet(Threads)
  BY ThreadAssumption
<1>2. Len(objs) \in Nat /\ registry \subseteq 1 .. Len(objs)
  BY DEF HandleInv, TypeOK
<1>3. IsFiniteSet(1 .. Len(objs))
  BY <1>2, FS_Interval
<1>4. IsFiniteSet(Threads \X (1 .. Len(objs)))
  BY <1>1, <1>3, FS_Product
<1>5. \A t \in Threads : thr[t].ids \subseteq 1 .. Len(objs)
  BY DEF HandleInv, ThreadInv
<1>6. Pend \subseteq Threads \X (1 .. Len(objs))
  BY <1>5 DEF Pend
<1>7. Incs \subseteq Threads /\ Decs \subseteq Threads
  BY DEF Incs, Decs
<1>8. /\ IsFiniteSet(registry) /\ IsFiniteSet(Incs) /\ IsFiniteSet(Decs) /\ IsFiniteSet(Pend)
  BY <1>1, <1>2, <1>3, <1>4, <1>6, <1>7, FS_Subset
<1> QED
  BY <1>8, FS_CardinalityType

\* The balance of a step that counts.
LEMMA Balance ==
    ASSUME RegInv, NEW r \in Int, NEW i \in Int, NEW d \in Int, NEW p \in Int,
           Cardinality(registry') = Cardinality(registry) + r,
           Cardinality(Incs') = Cardinality(Incs) + i,
           Cardinality(Decs') = Cardinality(Decs) + d,
           Cardinality(Pend') = Cardinality(Pend) + p,
           gauge' = gauge + (r - i + d + p)
    PROVE  GaugeExact'
<1>1. gauge = Cardinality(registry) - Cardinality(Incs) + Cardinality(Decs) + Cardinality(Pend)
  BY GaugeDef DEF RegInv
<1>2. /\ Cardinality(registry) \in Nat /\ Cardinality(Incs) \in Nat
      /\ Cardinality(Decs) \in Nat /\ Cardinality(Pend) \in Nat
  BY Countable DEF RegInv
<1>3. gauge' = Cardinality(registry') - Cardinality(Incs') + Cardinality(Decs') + Cardinality(Pend')
  BY <1>1, <1>2
<1> QED
  BY <1>3, GaugeNext

\* The counts after a step of thread t, from the thread alone.
LEMMA Recount ==
    ASSUME NEW t \in Threads, Others(t)
    PROVE  /\ Incs' = IF thr'[t].pc = "inc" THEN Incs \union {t} ELSE Incs \ {t}
           /\ Decs' = IF thr'[t].pc = "dec" THEN Decs \union {t} ELSE Decs \ {t}
           /\ thr'[t].ids = thr[t].ids => Pend' = Pend
           /\ (t \in Incs <=> thr[t].pc = "inc") /\ (t \in Decs <=> thr[t].pc = "dec")
BY DEF Others, Incs, Decs, Pend

\* A thread that neither starts nor stops counting leaves the sets alone.
LEMMA RecountSame ==
    ASSUME NEW t \in Threads, Others(t), Uncounted(thr[t], thr'[t])
    PROVE  Incs' = Incs /\ Decs' = Decs /\ Pend' = Pend
<1>1. Incs' = Incs /\ Decs' = Decs
  BY DEF Others, Uncounted, Incs, Decs
<1>2. \A u \in Threads : thr'[u].ids = thr[u].ids
  BY DEF Others, Uncounted
<1>3. Pend' = Pend
  BY <1>2 DEF Pend
<1> QED
  BY <1>1, <1>3

(***************************************************************************)
(* The registry that clients see.                                          *)
(***************************************************************************)
\* A thread that neither starts nor ends a save leaves those in flight alone.
LEMMA DraftsSame ==
    ASSUME NEW t \in Threads, Others(t), Unsaved(thr[t], thr'[t])
    PROVE  Drafts' = Drafts
<1>1. Saving' = Saving
  BY DEF Others, Unsaved, Saving, SavePC
<1>2. \A u \in Saving : thr'[u].data = thr[u].data
  BY DEF Others, Unsaved, Saving, SavePC
<1> QED
  BY <1>1, <1>2 DEF Drafts

\* Nothing that clients can see has changed.
Unseen == Shifts' = Shifts /\ Len(objs') = Len(objs) /\ Stored' = Stored /\ Drafts' = Drafts

\* What a step has to come to.
Good == RegInv' /\ (AbstractStep \/ Unseen)

\* The parts of the invariant that concern other threads than t.
LEMMA Frame ==
    ASSUME RegInv, HandleInv', GaugeExact', NEW t \in Threads, Others(t), IdsInv(thr'[t]), EntryInv(thr'[t]),
           \A id \in 1 .. Len(objs') : Distinct(objs'[id].handles),
           \A s \in store'.data : Distinct(s.handles)
    PROVE  RegInv'
<1>1. \A u \in Threads : IdsInv(thr'[u]) /\ EntryInv(thr'[u])
  BY DEF RegInv, Others
<1>2. \A u \in Threads : (IdsInv(thr[u]) /\ EntryInv(thr[u]))'
  BY <1>1 DEF IdsInv, EntryInv, OneEach, Distinct
<1>3. \A id \in 1 .. Len(objs') : Distinct(objs[id].handles)'
  BY DEF Distinct
<1>4. \A s \in store'.data : Distinct(s.handles)'
  BY DEF Distinct
<1> QED
  BY <1>2, <1>3, <1>4 DEF RegInv

\* An ordinary step is good.
LEMMA OrdinaryGood ==
    ASSUME RegInv, HandleInv', NEW t \in Threads, Ordinary(t)
    PROVE  Good
<1>1. Incs' = Incs /\ Decs' = Decs /\ Pend' = Pend /\ registry' = registry /\ gauge' = gauge
  BY RecountSame DEF Ordinary
<1>2. GaugeExact'
  <2>1. gauge = Cardinality(registry) - Cardinality(Incs) + Cardinality(Decs) + Cardinality(Pend)
    BY GaugeDef DEF RegInv
  <2>2. gauge' = Cardinality(registry') - Cardinality(Incs') + Cardinality(Decs') + Cardinality(Pend')
    BY <1>1, <2>1
  <2> QED BY <2>2, GaugeNext
<1>3. RegInv'
  BY <1>2, Frame DEF Ordinary, RegInv
<1>4. Shifts' = Shifts
  BY DEF Ordinary, Shifts
<1>5. Drafts' = Drafts
  BY DraftsSame DEF Ordinary
<1>6. Stored' = Stored /\ Len(objs') = Len(objs)
  BY DEF Ordinary, Stored
<1> QED
  BY <1>3, <1>4, <1>5, <1>6 DEF Good, Unseen

(***************************************************************************)
(* The steps that count or that clients can see.                           *)
(***************************************************************************)
\* One thread takes a step.
LEMMA OneThread ==
    ASSUME RegInv, NEW t \in Threads, NEW l, thr' = [thr EXCEPT ![t] = l]
    PROVE  thr'[t] = l /\ Others(t)
<1>1. thr \in [Threads -> Thread]
  BY DEF RegInv, HandleInv, TypeOK
<1> QED
  BY <1>1 DEF Others

\* The Inc of a create.
LEMMA GaugeIncGood ==
    ASSUME RegInv, HandleInv', NEW t \in Threads, GaugeInc(t)
    PROVE  Good
<1> DEFINE l == [thr[t] EXCEPT !.pc = "encode"]
<1>1. /\ thr[t] \in Thread /\ thr \in [Threads -> Thread] /\ IdsInv(thr[t]) /\ EntryInv(thr[t])
      /\ thr[t].pc = "inc" /\ gauge \in Int /\ HandleInv
  BY Facts DEF RegInv, GaugeInc
<1>2. thr' = [thr EXCEPT ![t] = l] /\ UNCHANGED <<objs, registry, store>> /\ gauge' = gauge + 1
  BY <1>1 DEF GaugeInc, Goto
<1>3. Unsaved(thr[t], l) /\ Tame(thr[t], l) /\ l.pc = "encode" /\ l.ids = thr[t].ids
  BY <1>1 DEF Unsaved, SavePC, SweepPC, Tame, Collect, Thread
<1> HIDE DEF l
<1>4. thr'[t] = l /\ Others(t)
  BY <1>2, OneThread
<1>5. IdsInv(thr'[t]) /\ EntryInv(thr'[t])
  BY <1>1, <1>3, <1>4, TameOK
<1>6. /\ Incs' = Incs \ {t} /\ t \in Incs
      /\ Decs' = Decs \ {t} /\ t \notin Decs
      /\ Pend' = Pend
  BY <1>1, <1>3, <1>4, Recount
<1>7. GaugeExact'
  <2>0. /\ Cardinality(registry) \in Nat /\ Cardinality(Incs) \in Nat
        /\ Cardinality(Decs) \in Nat /\ Cardinality(Pend) \in Nat
    BY <1>1, Countable
  <2>1. Cardinality(Incs') = Cardinality(Incs) - 1
    BY <1>1, <1>6, Countable, FS_RemoveElement
  <2>2. Decs' = Decs /\ Pend' = Pend
    BY <1>6
  <2>3. /\ Cardinality(registry') = Cardinality(registry) + 0 /\ Cardinality(Incs') = Cardinality(Incs) + (-1)
        /\ Cardinality(Decs') = Cardinality(Decs) + (0) /\ Cardinality(Pend') = Cardinality(Pend) + 0
        /\ gauge' = gauge + (0 - (-1) + (0) + 0)
    BY <1>1, <1>2, <2>0, <2>1, <2>2
  <2> QED BY <2>3, Balance
<1>8. RegInv'
  BY <1>2, <1>4, <1>5, <1>7, Frame DEF RegInv
<1>9. Shifts' = Shifts /\ Stored' = Stored /\ Len(objs') = Len(objs)
  BY <1>2 DEF Shifts, Stored
<1>10. Drafts' = Drafts
  BY <1>3, <1>4, DraftsSame
<1> QED
  BY <1>8, <1>9, <1>10 DEF Good, Unseen

\* The Dec of a delete.
LEMMA GaugeDecGood ==
    ASSUME RegInv, HandleInv', NEW t \in Threads, GaugeDec(t)
    PROVE  Good
<1> DEFINE l == [thr[t] EXCEPT !.pc = "encode"]
<1>1. /\ thr[t] \in Thread /\ thr \in [Threads -> Thread] /\ IdsInv(thr[t]) /\ EntryInv(thr[t])
      /\ thr[t].pc = "dec" /\ gauge \in Int /\ HandleInv
  BY Facts DEF RegInv, GaugeDec
<1>2. thr' = [thr EXCEPT ![t] = l] /\ UNCHANGED <<objs, registry, store>> /\ gauge' = gauge - 1
  BY <1>1 DEF GaugeDec, Goto
<1>3. Unsaved(thr[t], l) /\ Tame(thr[t], l) /\ l.pc = "encode" /\ l.ids = thr[t].ids
  BY <1>1 DEF Unsaved, SavePC, SweepPC, Tame, Collect, Thread
<1> HIDE DEF l
<1>4. thr'[t] = l /\ Others(t)
  BY <1>2, OneThread
<1>5. IdsInv(thr'[t]) /\ EntryInv(thr'[t])
  BY <1>1, <1>3, <1>4, TameOK
<1>6. /\ Incs' = Incs \ {t} /\ t \notin Incs
      /\ Decs' = Decs \ {t} /\ t \in Decs
      /\ Pend' = Pend
  BY <1>1, <1>3, <1>4, Recount
<1>7. GaugeExact'
  <2>0. /\ Cardinality(registry) \in Nat /\ Cardinality(Incs) \in Nat
        /\ Cardinality(Decs) \in Nat /\ Cardinality(Pend) \in Nat
    BY <1>1, Countable
  <2>1. Cardinality(Decs') = Cardinality(Decs) - 1
    BY <1>1, <1>6, Countable, FS_RemoveElement
  <2>2. Incs' = Incs /\ Pend' = Pend
    BY <1>6
  <2>3. /\ Cardinality(registry') = Cardinality(registry) + 0 /\ Cardinality(Incs') = Cardinality(Incs) + (0)
        /\ Cardinality(Decs') = Cardinality(Decs) + (-1) /\ Cardinality(Pend') = Cardinality(Pend) + 0
        /\ gauge' = gauge + (0 - (0) + (-1) + 0)
    BY <1>1, <1>2, <2>0, <2>1, <2>2
  <2> QED BY <2>3, Balance
<1>8. RegInv'
  BY <1>2, <1>4, <1>5, <1>7, Frame DEF RegInv
<1>9. Shifts' = Shifts /\ Stored' = Stored /\ Len(objs') = Len(objs)
  BY <1>2 DEF Shifts, Stored
<1>10. Drafts' = Drafts
  BY <1>3, <1>4, DraftsSame
<1> QED
  BY <1>8, <1>9, <1>10 DEF Good, Unseen

\* A create files its timeshift.
LEMMA CreateRegisterGood ==
    ASSUME RegInv, HandleInv', NEW t \in Threads, CreateRegister(t)
    PROVE  Good
<1> DEFINE n == Len(objs) + 1
           s == [id |-> n, sel |-> thr[t].sel, clock |-> thr[t].clock,
                 ttl |-> thr[t].ttl, handles |-> thr[t].hs]
           l == [thr[t] EXCEPT !.pc = "inc", !.id = n]
<1>1. /\ thr[t] \in Thread /\ thr \in [Threads -> Thread] /\ IdsInv(thr[t]) /\ EntryInv(thr[t])
      /\ thr[t].pc = "inject" /\ gauge \in Int /\ HandleInv
      /\ objs \in Seq(Timeshift) /\ Len(objs) \in Nat /\ registry \subseteq 1 .. Len(objs)
  BY Facts DEF RegInv, CreateRegister
<1>2. /\ thr' = [thr EXCEPT ![t] = l] /\ UNCHANGED <<store, gauge>>
      /\ objs' = Append(objs, s) /\ registry' = registry \union {n}
  BY <1>1 DEF CreateRegister
<1>3. Unsaved(thr[t], l) /\ Tame(thr[t], l) /\ l.pc = "inc" /\ l.ids = thr[t].ids
  BY <1>1 DEF Unsaved, SavePC, SweepPC, Tame, Collect, Thread
<1> HIDE DEF l
<1>4. thr'[t] = l /\ Others(t)
  BY <1>2, OneThread
<1>5. IdsInv(thr'[t]) /\ EntryInv(thr'[t])
  BY <1>1, <1>3, <1>4, TameOK
<1>6. Distinct(s.handles)
  BY <1>1 DEF EntryInv, Collect
<1> HIDE DEF s
<1>7. /\ Len(objs') = n /\ objs'[n] = s /\ \A j \in 1 .. Len(objs) : objs'[j] = objs[j]
  BY <1>1, <1>2
<1>8. /\ Incs' = Incs \union {t} /\ t \notin Incs
      /\ Decs' = Decs \ {t} /\ t \notin Decs
      /\ Pend' = Pend
  BY <1>1, <1>3, <1>4, Recount
<1>9. n \notin registry /\ registry \subseteq 1 .. Len(objs) /\ n \in Nat
  BY <1>1
<1>10. GaugeExact'
  <2>1. Cardinality(Incs') = Cardinality(Incs) + 1
    BY <1>1, <1>8, Countable, FS_AddElement
  <2>2. Cardinality(registry') = Cardinality(registry) + 1
    BY <1>1, <1>2, <1>9, Countable, FS_AddElement
  <2>3. Decs' = Decs /\ Pend' = Pend
    BY <1>8
  <2>4. /\ Cardinality(registry) \in Nat /\ Cardinality(Incs) \in Nat
        /\ Cardinality(Decs) \in Nat /\ Cardinality(Pend) \in Nat
    BY <1>1, Countable
  <2>5. /\ Cardinality(Decs') = Cardinality(Decs) + 0 /\ Cardinality(Pend') = Cardinality(Pend) + 0
        /\ gauge' = gauge + (1 - 1 + 0 + 0)
    BY <1>1, <1>2, <2>3, <2>4
  <2> QED BY <2>1, <2>2, <2>5, Balance
<1>11. \A id \in 1 .. Len(objs') : Distinct(objs'[id].handles)
  <2>1. \A id \in 1 .. Len(objs') : id = n \/ id \in 1 .. Len(objs)
    BY <1>1, <1>7
  <2> QED BY <1>6, <1>7, <2>1 DEF RegInv
<1>12. RegInv'
  BY <1>2, <1>4, <1>5, <1>10, <1>11, Frame DEF RegInv
<1>13. Stored' = Stored
  BY <1>2 DEF Stored
<1>14. Drafts' = Drafts
  BY <1>3, <1>4, DraftsSame
<1>15. Shifts' = [id \in DOMAIN Shifts \union {n} |-> IF id = n THEN Public(objs'[n]) ELSE Shifts[id]]
  <2>1. \A id \in registry : Public(objs'[id]) = Public(objs[id]) /\ id # n
    BY <1>7, <1>9
  <2> QED BY <1>2, <2>1 DEF Shifts
<1>16. Abstract!Create(Public(objs'[n]))
  BY <1>7, <1>13, <1>14, <1>15 DEF Abstract!Create
<1>17. AbstractStep
  BY <1>2, <1>9, <1>16 DEF AbstractStep
<1> QED
  BY <1>12, <1>17 DEF Good

\* The registry, encoded, is what clients see of it.
LEMMA EncodedShifts ==
    ASSUME HandleInv
    PROVE  ById({objs[id] : id \in registry}) = Shifts
<1> DEFINE data == {objs[id] : id \in registry}
<1>1. \A id \in registry : objs[id].id = id
  BY DEF HandleInv, TypeOK
<1>2. {s.id : s \in data} = registry
  BY <1>1
<1>3. \A id \in registry : (CHOOSE s \in data : s.id = id) = objs[id]
  BY <1>1
<1> QED
  BY <1>2, <1>3 DEF ById, Shifts

\* persist takes the registry.
LEMMA EncodeGood ==
    ASSUME RegInv, HandleInv', NEW t \in Threads, Encode(t)
    PROVE  Good
<1> DEFINE data == {objs[id] : id \in registry}
           l == [thr[t] EXCEPT !.pc = "get", !.data = data]
<1>1. /\ thr[t] \in Thread /\ thr \in [Threads -> Thread] /\ IdsInv(thr[t]) /\ EntryInv(thr[t])
      /\ thr[t].pc = "encode" /\ HandleInv /\ registry \subseteq 1 .. Len(objs)
  BY Facts DEF RegInv, Encode
<1>2. thr' = [thr EXCEPT ![t] = l] /\ UNCHANGED <<objs, registry, store, gauge>>
  BY <1>1 DEF Encode
<1>3. /\ l.pc = "get" /\ l.data = data /\ l.ids = thr[t].ids /\ l.op = thr[t].op
      /\ l.list = thr[t].list /\ l.todo = thr[t].todo /\ l.sel = thr[t].sel
  BY <1>1 DEF Thread
<1>4. \A s \in data : Distinct(s.handles)
  BY <1>1 DEF RegInv
<1>5. ById(data) = Shifts
  BY <1>1, EncodedShifts
<1> HIDE DEF l, data
<1>6. thr'[t] = l /\ Others(t)
  BY <1>2, OneThread
<1>7. IdsInv(thr'[t]) /\ EntryInv(thr'[t])
  BY <1>1, <1>3, <1>4, <1>6 DEF IdsInv, EntryInv, SweepPC, SavePC, Collect
<1>8. Uncounted(thr[t], thr'[t])
  BY <1>1, <1>3, <1>6 DEF Uncounted
<1>9. GaugeExact'
  <2>1. Incs' = Incs /\ Decs' = Decs /\ Pend' = Pend
    BY <1>6, <1>8, RecountSame
  <2>2. gauge = Cardinality(registry) - Cardinality(Incs) + Cardinality(Decs) + Cardinality(Pend)
    BY GaugeDef DEF RegInv
  <2>3. gauge' = Cardinality(registry') - Cardinality(Incs') + Cardinality(Decs') + Cardinality(Pend')
    BY <1>2, <2>1, <2>2
  <2> QED BY <2>3, GaugeNext
<1>10. RegInv'
  BY <1>2, <1>6, <1>7, <1>9, Frame DEF RegInv
<1>11. Shifts' = Shifts /\ Stored' = Stored /\ Len(objs') = Len(objs)
  BY <1>2 DEF Shifts, Stored
<1>12. Drafts' = Drafts \union {Shifts}
  <2>1. t \notin Saving /\ Saving' = Saving \union {t}
    BY <1>1, <1>3, <1>6 DEF Saving, Others
  <2>2. \A u \in Saving : thr'[u].data = thr[u].data
    BY <1>6, <2>1 DEF Others, Saving
  <2>3. ById(thr'[t].data) = Shifts
    BY <1>3, <1>5, <1>6
  <2> QED BY <2>1, <2>2, <2>3 DEF Drafts
<1>13. Abstract!BeginSave
  BY <1>11, <1>12 DEF Abstract!BeginSave
<1> QED
  BY <1>10, <1>13 DEF Good, AbstractStep

\* Where the caller of persist goes on.
LEMMA AfterPersistCalm ==
    ASSUME RegInv, NEW t \in Threads, thr[t].pc \in SavePC, thr' = [thr EXCEPT ![t] = AfterPersist(thr[t])]
    PROVE  /\ Others(t) /\ Uncounted(thr[t], thr'[t]) /\ IdsInv(thr'[t]) /\ EntryInv(thr'[t])
           /\ t \in Saving /\ Saving' = Saving \ {t}
<1> DEFINE l == AfterPersist(thr[t])
           d == [thr[t] EXCEPT !.pc = "reset", !.i = 1, !.data = {}]
           e == [thr[t] EXCEPT !.pc = "expire", !.data = {}]
<1>1. thr[t] \in Thread /\ IdsInv(thr[t]) /\ EntryInv(thr[t])
  BY Facts DEF RegInv
<1>2. \/ l = d
      \/ l = e
      \/ thr[t].op # "sweep" /\ l = Idle
  BY DEF AfterPersist
<1>3. /\ Tame(thr[t], d) /\ d.ids = thr[t].ids /\ d.pc = "reset"
      /\ Tame(thr[t], e) /\ e.ids = thr[t].ids /\ e.pc = "expire"
  BY <1>1 DEF Thread, Tame, Collect, SweepPC
<1> HIDE DEF d, e, l
<1>4. l.ids = thr[t].ids /\ l.pc \in {"reset", "expire", "idle"} /\ (Tame(thr[t], l) \/ Fresh(l))
  BY <1>1, <1>2, <1>3, IdleFresh DEF IdsInv
<1>5. thr'[t] = l /\ Others(t)
  <2>1. thr' = [thr EXCEPT ![t] = l]
    BY DEF l
  <2> QED BY <2>1, OneThread
<1>6. IdsInv(l) /\ EntryInv(l)
  BY <1>1, <1>4, TameOK, FreshOK
<1>7. Uncounted(thr[t], l)
  BY <1>4 DEF Uncounted, SavePC
<1>8. t \in Saving /\ Saving' = Saving \ {t}
  BY <1>4, <1>5 DEF Saving, SavePC, Others
<1> QED
  BY <1>5, <1>6, <1>7, <1>8

\* A save that ends, one way or the other.
LEMMA DraftsEnd ==
    ASSUME NEW t \in Threads, Others(t), t \in Saving, Saving' = Saving \ {t}
    PROVE  ById(thr[t].data) \in Drafts /\ Drafts' \in {Drafts, Drafts \ {ById(thr[t].data)}}
<1> DEFINE d == ById(thr[t].data)
<1>1. \A u \in Saving' : thr'[u] = thr[u]
  BY DEF Others, Saving
<1>2. Drafts' = {ById(thr[u].data) : u \in Saving \ {t}}
  BY <1>1 DEF Drafts
<1>3. d \in Drafts
  BY DEF Drafts
<1>4. CASE \E u \in Saving \ {t} : ById(thr[u].data) = d
  BY <1>2, <1>3, <1>4 DEF Drafts
<1>5. CASE ~ \E u \in Saving \ {t} : ById(thr[u].data) = d
  BY <1>2, <1>3, <1>5 DEF Drafts
<1> QED
  BY <1>3, <1>4, <1>5

\* A flush writes the ConfigMap.
LEMMA FlushPutGood ==
    ASSUME RegInv, HandleInv', NEW t \in Threads, FlushPut(t)
    PROVE  Good
<1>1. /\ thr[t].pc \in SavePC /\ thr' = [thr EXCEPT ![t] = AfterPersist(thr[t])]
      /\ store'.data = thr[t].data /\ UNCHANGED <<objs, registry, gauge>>
  BY DEF FlushPut, SavePC
<1>2. /\ Others(t) /\ Uncounted(thr[t], thr'[t]) /\ IdsInv(thr'[t]) /\ EntryInv(thr'[t])
      /\ t \in Saving /\ Saving' = Saving \ {t}
  BY <1>1, AfterPersistCalm
<1>3. GaugeExact'
  <2>1. Incs' = Incs /\ Decs' = Decs /\ Pend' = Pend
    BY <1>2, RecountSame
  <2>2. gauge = Cardinality(registry) - Cardinality(Incs) + Cardinality(Decs) + Cardinality(Pend)
    BY GaugeDef DEF RegInv
  <2>3. gauge' = Cardinality(registry') - Cardinality(Incs') + Cardinality(Decs') + Cardinality(Pend')
    BY <1>1, <2>1, <2>2
  <2> QED BY <2>3, GaugeNext
<1>4. \A s \in store'.data : Distinct(s.handles)
  BY <1>1 DEF RegInv, EntryInv
<1>5. RegInv'
  BY <1>1, <1>2, <1>3, <1>4, Frame DEF RegInv
<1>6. Shifts' = Shifts /\ Len(objs') = Len(objs) /\ Stored' = ById(thr[t].data)
  BY <1>1 DEF Shifts, Stored
<1>7. Abstract!EndSave(ById(thr[t].data))
  BY <1>2, <1>6, DraftsEnd DEF Abstract!EndSave
<1> QED
  BY <1>2, <1>5, <1>7 DEF Good, AbstractStep

\* A flush that fails is only logged.
LEMMA FlushErrGood ==
    ASSUME RegInv, HandleInv', NEW t \in Threads, FlushErr(t)
    PROVE  Good
<1>1. /\ thr[t].pc \in SavePC /\ thr' = [thr EXCEPT ![t] = AfterPersist(thr[t])]
      /\ UNCHANGED <<objs, registry, gauge, store>>
  BY DEF FlushErr, SavePC
<1>2. /\ Others(t) /\ Uncounted(thr[t], thr'[t]) /\ IdsInv(thr'[t]) /\ EntryInv(thr'[t])
      /\ t \in Saving /\ Saving' = Saving \ {t}
  BY <1>1, AfterPersistCalm
<1>3. GaugeExact'
  <2>1. Incs' = Incs /\ Decs' = Decs /\ Pend' = Pend
    BY <1>2, RecountSame
  <2>2. gauge = Cardinality(registry) - Cardinality(Incs) + Cardinality(Decs) + Cardinality(Pend)
    BY GaugeDef DEF RegInv
  <2>3. gauge' = Cardinality(registry') - Cardinality(Incs') + Cardinality(Decs') + Cardinality(Pend')
    BY <1>1, <2>1, <2>2
  <2> QED BY <2>3, GaugeNext
<1>4. RegInv'
  BY <1>1, <1>2, <1>3, Frame DEF RegInv
<1>5. Shifts' = Shifts /\ Len(objs') = Len(objs) /\ Stored' = Stored
  BY <1>1 DEF Shifts, Stored
<1>6. CASE Drafts' = Drafts
  BY <1>4, <1>5, <1>6 DEF Good, Unseen
<1>7. CASE Drafts' = Drafts \ {ById(thr[t].data)}
  <2>1. Abstract!FailSave(ById(thr[t].data))
    BY <1>2, <1>5, <1>7, DraftsEnd DEF Abstract!FailSave
  <2> QED BY <1>2, <1>4, <2>1 DEF Good, AbstractStep
<1> QED
  BY <1>2, <1>6, <1>7, DraftsEnd

\* An update files its clock and its re-injected handles.
LEMMA UpdateApplyGood ==
    ASSUME RegInv, HandleInv', NEW t \in Threads, UpdateApply(t)
    PROVE  Good
<1> DEFINE id == thr[t].id
           r == Refreshed(objs[id].handles, thr[t].hs, thr[t].upd)
           s == [objs[id] EXCEPT !.handles = r, !.clock = thr[t].clock]
           l == [thr[t] EXCEPT !.pc = "encode", !.hs = <<>>, !.upd = {}]
<1>1. /\ thr[t] \in Thread /\ thr \in [Threads -> Thread] /\ IdsInv(thr[t]) /\ EntryInv(thr[t])
      /\ thr[t].pc = "settime" /\ HandleInv
      /\ objs \in Seq(Timeshift) /\ Len(objs) \in Nat /\ registry \subseteq 1 .. Len(objs)
  BY Facts DEF RegInv, UpdateApply
<1>2. thr' = [thr EXCEPT ![t] = l] /\ UNCHANGED <<registry, store, gauge>> /\ objs' = [objs EXCEPT ![id] = s]
  BY <1>1 DEF UpdateApply
<1>3. Uncounted(thr[t], l) /\ Unsaved(thr[t], l) /\ Tame(thr[t], l)
  BY <1>1 DEF Uncounted, Unsaved, SavePC, SweepPC, Tame, Collect, Thread
<1> HIDE DEF l, r
<1>4. thr'[t] = l /\ Others(t)
  BY <1>2, OneThread
<1>5. IdsInv(thr'[t]) /\ EntryInv(thr'[t])
  BY <1>1, <1>3, <1>4, TameOK
<1>6. ASSUME id \in 1 .. Len(objs)
      PROVE  /\ Distinct(s.handles) /\ s.clock = thr[t].clock
             /\ Public(s) = [Public(objs[id]) EXCEPT !.clock = thr[t].clock]
  <2>1. objs[id] \in Timeshift /\ Distinct(objs[id].handles)
    BY <1>1, <1>6, ElementOfSeq DEF RegInv
  <2>2. objs[id].handles \in Seq(ContainerHandle)
    BY <2>1 DEF Timeshift
  <2>3. Distinct(r)
    BY <2>1, <2>2, RefreshedDistinct DEF r
  <2>4. s.handles = r /\ s.clock = thr[t].clock /\ s.sel = objs[id].sel /\ s.ttl = objs[id].ttl
    BY <2>1 DEF Timeshift
  <2> HIDE DEF s
  <2>5. Public(s) = [Public(objs[id]) EXCEPT !.clock = thr[t].clock]
    BY <2>4 DEF Public
  <2> QED BY <2>3, <2>4, <2>5
<1> HIDE DEF s
<1>7. Len(objs') = Len(objs) /\ \A j \in 1 .. Len(objs) : objs'[j] = IF j = id THEN s ELSE objs[j]
  <2>1. CASE id \in 1 .. Len(objs)
    <3>1. s = objs'[id] /\ DOMAIN objs = 1 .. Len(objs) /\ DOMAIN objs' = DOMAIN objs
      BY <1>1, <1>2, <2>1, LenProperties
    <3>2. objs' \in Seq(Timeshift)
      BY DEF HandleInv, TypeOK
    <3>3. Len(objs') = Len(objs)
      BY <1>1, <3>1, <3>2, LenProperties
    <3> QED BY <1>1, <1>2, <3>1, <3>3
  <2>2. CASE id \notin 1 .. Len(objs)
    <3>1. objs' = objs
      BY <1>1, <1>2, <2>2
    <3> QED BY <2>2, <3>1
  <2> QED BY <2>1, <2>2
<1>8. \A j \in 1 .. Len(objs') : Distinct(objs'[j].handles)
  BY <1>6, <1>7 DEF RegInv
<1>9. CASE id \notin registry
  <2>1. \A j \in registry : Public(objs'[j]) = Public(objs[j])
    BY <1>1, <1>7, <1>9
  <2>2. Ordinary(t)
    BY <1>2, <1>3, <1>4, <1>5, <1>7, <1>8, <2>1 DEF Ordinary
  <2> QED BY <2>2, OrdinaryGood
<1>10. CASE id \in registry
  <2>1. GaugeExact'
    <3>1. Incs' = Incs /\ Decs' = Decs /\ Pend' = Pend
      BY <1>3, <1>4, RecountSame
    <3>2. gauge = Cardinality(registry) - Cardinality(Incs) + Cardinality(Decs) + Cardinality(Pend)
      BY GaugeDef DEF RegInv
    <3>3. gauge' = Cardinality(registry') - Cardinality(Incs') + Cardinality(Decs') + Cardinality(Pend')
      BY <1>2, <3>1, <3>2
    <3> QED BY <3>3, GaugeNext
  <2>2. RegInv'
    BY <1>2, <1>4, <1>5, <1>8, <2>1, Frame DEF RegInv
  <2>3. Stored' = Stored
    BY <1>2 DEF Stored
  <2>4. Drafts' = Drafts
    BY <1>3, <1>4, DraftsSame
  <2>5. id \in 1 .. Len(objs) /\ objs'[id] = s
    BY <1>1, <1>7, <1>10
  <2>6. objs'[id].clock = thr[t].clock
    BY <1>6, <2>5
  <2>7. Shifts' = [Shifts EXCEPT ![id].clock = objs'[id].clock]
    <3>1. \A j \in registry : Public(objs'[j]) = IF j = id THEN [Public(objs[id]) EXCEPT !.clock = thr[t].clock]
                                                 ELSE Public(objs[j])
      BY <1>1, <1>6, <1>7, <2>5
    <3>2. Shifts' = [j \in registry |-> Public(objs'[j])]
      BY <1>2 DEF Shifts
    <3> QED BY <1>10, <2>6, <3>1, <3>2 DEF Shifts
  <2>8. id \in DOMAIN Shifts
    BY <1>10 DEF Shifts
  <2>9. Abstract!Update(id, objs'[id].clock)
    BY <1>7, <2>3, <2>4, <2>7, <2>8 DEF Abstract!Update
  <2> QED BY <1>10, <2>2, <2>9 DEF Good, AbstractStep
<1> QED
  BY <1>9, <1>10

\* Timeshifts leave the registry.
LEMMA Removed ==
    ASSUME registry' \subseteq registry, objs' = objs, store' = store, Drafts' = Drafts
    PROVE  AbstractStep
<1>1. Shifts' = [id \in DOMAIN Shifts \ (registry \ registry') |-> Shifts[id]]
  BY DEF Shifts
<1>2. Stored' = Stored
  BY DEF Stored
<1>3. Abstract!Remove(registry \ registry')
  BY <1>1, <1>2 DEF Abstract!Remove
<1> QED
  BY <1>3 DEF AbstractStep

\* A delete takes its timeshift out.
LEMMA DeleteRemoveGood ==
    ASSUME RegInv, HandleInv', NEW t \in Threads, NEW id \in registry, DeleteRemove(t, id)
    PROVE  Good
<1> DEFINE l == [Idle EXCEPT !.pc = "dec", !.op = "delete", !.id = id]
<1>1. IdsInv(thr[t]) /\ thr[t].pc = "idle" /\ HandleInv /\ gauge \in Int
  BY Facts DEF RegInv, DeleteRemove
<1>2. thr' = [thr EXCEPT ![t] = l] /\ UNCHANGED <<objs, store, gauge>> /\ registry' = registry \ {id}
  BY DEF DeleteRemove
<1>3. Unsaved(thr[t], l) /\ Fresh(l) /\ l.pc = "dec" /\ l.ids = {}
  BY <1>1 DEF Unsaved, SavePC, Fresh, Collect, Idle
<1> HIDE DEF l
<1>4. thr'[t] = l /\ Others(t) /\ thr[t].ids = {}
  BY <1>1, <1>2, OneThread DEF IdsInv, SweepPC, SavePC
<1>5. IdsInv(thr'[t]) /\ EntryInv(thr'[t])
  BY <1>3, <1>4, FreshOK
<1>6. /\ Incs' = Incs \ {t} /\ t \notin Incs
      /\ Decs' = Decs \union {t} /\ t \notin Decs
      /\ Pend' = Pend
  BY <1>1, <1>3, <1>4, Recount
<1>7. GaugeExact'
  <2>1. /\ Cardinality(registry) \in Nat /\ Cardinality(Incs) \in Nat
        /\ Cardinality(Decs) \in Nat /\ Cardinality(Pend) \in Nat
    BY <1>1, Countable
  <2>2. Cardinality(Decs') = Cardinality(Decs) + 1
    BY <1>1, <1>6, Countable, FS_AddElement
  <2>3. Cardinality(registry') = Cardinality(registry) - 1
    BY <1>1, <1>2, Countable, FS_RemoveElement
  <2>4. Incs' = Incs /\ Pend' = Pend
    BY <1>6
  <2>5. /\ Cardinality(registry') = Cardinality(registry) + (-1)
        /\ Cardinality(Incs') = Cardinality(Incs) + 0 /\ Cardinality(Pend') = Cardinality(Pend) + 0
        /\ gauge' = gauge + ((-1) - 0 + 1 + 0)
    BY <1>1, <1>2, <2>1, <2>3, <2>4
  <2> QED BY <2>2, <2>5, Balance
<1>8. RegInv'
  BY <1>2, <1>4, <1>5, <1>7, Frame DEF RegInv
<1>9. Drafts' = Drafts
  BY <1>3, <1>4, DraftsSame
<1>10. AbstractStep
  BY <1>2, <1>9, Removed
<1> QED
  BY <1>8, <1>10 DEF Good

\* A set of ids is as large as the set of a thread's pairs with them.
LEMMA PairsCount ==
    ASSUME NEW t, NEW S, IsFiniteSet(S)
    PROVE  /\ IsFiniteSet({<<t, id>> : id \in S})
           /\ Cardinality({<<t, id>> : id \in S}) = Cardinality(S)
<1> DEFINE T == {<<t, id>> : id \in S}
           f == [id \in S |-> <<t, id>>]
<1>1. f \in Bijection(S, T)
  BY DEF Bijection, Injection, Surjection, IsInjective
<1>2. ExistsBijection(S, T)
  BY <1>1 DEF ExistsBijection
<1> QED
  BY <1>2, FS_Bijection

\* A sweep takes all expired timeshifts out at once.
LEMMA SweepRemoveGood ==
    ASSUME RegInv, HandleInv', NEW t \in Threads, SweepRemove(t)
    PROVE  Good
<1> DEFINE l == [Idle EXCEPT !.pc = "encode", !.op = "sweep", !.ids = Overdue]
           new == {<<t, id>> : id \in Overdue}
<1>1. IdsInv(thr[t]) /\ thr[t].pc = "idle" /\ HandleInv /\ gauge \in Int
  BY Facts DEF RegInv, SweepRemove
<1>2. /\ thr' = [thr EXCEPT ![t] = l] /\ UNCHANGED <<objs, store, gauge>>
      /\ registry' = registry \ Overdue /\ Overdue \subseteq registry
  BY DEF SweepRemove, Overdue
<1>3. /\ Unsaved(thr[t], l) /\ l.pc = "encode" /\ l.op = "sweep" /\ l.ids = Overdue
      /\ l.list = {} /\ l.todo = {} /\ l.data = {}
  BY <1>1 DEF Unsaved, SavePC, Idle
<1> HIDE DEF l
<1>4. thr'[t] = l /\ Others(t) /\ thr[t].ids = {}
  BY <1>1, <1>2, OneThread DEF IdsInv, SweepPC, SavePC
<1>5. IdsInv(thr'[t]) /\ EntryInv(thr'[t])
  BY <1>3, <1>4 DEF IdsInv, SweepPC, EntryInv, OneEach, Collect
<1>6. /\ Incs' = Incs \ {t} /\ t \notin Incs
      /\ Decs' = Decs \ {t} /\ t \notin Decs
  BY <1>1, <1>3, <1>4, Recount
<1>7. Pend' = Pend \union new /\ Pend \intersect new = {}
  <2>1. \A u \in Threads : thr'[u].ids = IF u = t THEN Overdue ELSE thr[u].ids
    BY <1>3, <1>4 DEF Others
  <2>2. \A x : x \in Pend' <=> x \in Pend \/ x \in new
    BY <1>4, <2>1 DEF Pend
  <2>3. \A x : ~(x \in Pend /\ x \in new)
    BY <1>4 DEF Pend
  <2> HIDE DEF new
  <2> QED BY <2>2, <2>3
<1>8. GaugeExact'
  <2>1. /\ Cardinality(registry) \in Nat /\ Cardinality(Incs) \in Nat
        /\ Cardinality(Decs) \in Nat /\ Cardinality(Pend) \in Nat
        /\ IsFiniteSet(registry) /\ IsFiniteSet(Pend)
    BY <1>1, Countable
  <2>2. IsFiniteSet(Overdue) /\ Cardinality(Overdue) \in Nat
    BY <1>2, <2>1, FS_Subset, FS_CardinalityType
  <2>3. IsFiniteSet(new) /\ Cardinality(new) = Cardinality(Overdue)
    BY <2>2, PairsCount
  <2> HIDE DEF new
  <2>4. Cardinality(registry') = Cardinality(registry) - Cardinality(Overdue)
    <3>1. registry \intersect Overdue = Overdue
      BY <1>2
    <3>2. Cardinality(registry \ Overdue) = Cardinality(registry) - Cardinality(registry \intersect Overdue)
      BY <2>1, FS_Difference
    <3> QED BY <1>2, <3>1, <3>2
  <2>5. Cardinality(Pend') = Cardinality(Pend) + Cardinality(Overdue)
    <3>1. Cardinality(Pend \union new) = Cardinality(Pend) + Cardinality(new) - Cardinality(Pend \intersect new)
      BY <2>1, <2>3, FS_Union
    <3>2. Cardinality(Pend \intersect new) = 0
      BY <1>7, FS_EmptySet
    <3> QED BY <1>7, <2>1, <2>2, <2>3, <3>1, <3>2
  <2>6. Incs' = Incs /\ Decs' = Decs
    BY <1>6
  <2>7. /\ Cardinality(registry') = Cardinality(registry) + (-Cardinality(Overdue))
        /\ Cardinality(Incs') = Cardinality(Incs) + 0 /\ Cardinality(Decs') = Cardinality(Decs) + 0
        /\ gauge' = gauge + ((-Cardinality(Overdue)) - 0 + 0 + Cardinality(Overdue))
    BY <1>1, <1>2, <2>1, <2>2, <2>4, <2>6
  <2>8. -Cardinality(Overdue) \in Int
    BY <2>2
  <2> QED BY <2>2, <2>5, <2>7, <2>8, Balance
<1>9. RegInv'
  BY <1>2, <1>4, <1>5, <1>8, Frame DEF RegInv
<1>10. Drafts' = Drafts
  BY <1>3, <1>4, DraftsSame
<1>11. AbstractStep
  BY <1>2, <1>10, Removed
<1> QED
  BY <1>9, <1>11 DEF Good

\* The sweeper counts a timeshift and goes on to reset it.
LEMMA SweepNextGood ==
    ASSUME RegInv, HandleInv', NEW t \in Threads, NEW id \in thr[t].ids, SweepNext(t, id)
    PROVE  Good
<1> DEFINE l == [thr[t] EXCEPT !.pc = "reset", !.id = id, !.i = 1, !.ids = @ \ {id}]
<1>1. /\ thr[t] \in Thread /\ thr \in [Threads -> Thread] /\ IdsInv(thr[t]) /\ EntryInv(thr[t])
      /\ thr[t].pc = "expire" /\ gauge \in Int /\ HandleInv
  BY Facts DEF RegInv, SweepNext
<1>2. thr' = [thr EXCEPT ![t] = l] /\ UNCHANGED <<objs, registry, store>> /\ gauge' = gauge - 1
  BY <1>1 DEF SweepNext
<1>3. /\ l.pc = "reset" /\ l.op = thr[t].op /\ l.ids = thr[t].ids \ {id} /\ l.sel = thr[t].sel
      /\ l.list = thr[t].list /\ l.todo = thr[t].todo /\ l.data = thr[t].data
  BY <1>1 DEF Thread
<1> HIDE DEF l
<1>4. thr'[t] = l /\ Others(t)
  BY <1>2, OneThread
<1>5. IdsInv(thr'[t]) /\ EntryInv(thr'[t])
  BY <1>1, <1>3, <1>4 DEF IdsInv, SweepPC, EntryInv, Collect
<1>6. /\ Incs' = Incs \ {t} /\ t \notin Incs
      /\ Decs' = Decs \ {t} /\ t \notin Decs
  BY <1>1, <1>3, <1>4, Recount
<1>7. Pend' = Pend \ {<<t, id>>} /\ <<t, id>> \in Pend
  <2>1. \A u \in Threads : thr'[u].ids = IF u = t THEN thr[t].ids \ {id} ELSE thr[u].ids
    BY <1>3, <1>4 DEF Others
  <2>2. \A x : x \in Pend' <=> x \in Pend /\ x # <<t, id>>
    BY <2>1 DEF Pend
  <2>3. <<t, id>> \in Pend
    BY DEF Pend
  <2> QED BY <2>2, <2>3
<1>8. GaugeExact'
  <2>1. /\ Cardinality(registry) \in Nat /\ Cardinality(Incs) \in Nat
        /\ Cardinality(Decs) \in Nat /\ Cardinality(Pend) \in Nat
        /\ IsFiniteSet(Pend)
    BY <1>1, Countable
  <2>2. Cardinality(Pend') = Cardinality(Pend) - 1
    BY <1>7, <2>1, FS_RemoveElement
  <2>3. Incs' = Incs /\ Decs' = Decs
    BY <1>6
  <2>4. /\ Cardinality(registry') = Cardinality(registry) + 0 /\ Cardinality(Pend') = Cardinality(Pend) + (-1)
        /\ Cardinality(Incs') = Cardinality(Incs) + 0 /\ Cardinality(Decs') = Cardinality(Decs) + 0
        /\ gauge' = gauge + (0 - 0 + 0 + (-1))
    BY <1>1, <1>2, <2>1, <2>2, <2>3
  <2> QED BY <2>4, Balance
<1>9. RegInv'
  BY <1>2, <1>4, <1>5, <1>8, Frame DEF RegInv
<1>10. Shifts' = Shifts /\ Stored' = Stored /\ Len(objs') = Len(objs)
  BY <1>2 DEF Shifts, Stored
<1>11. Unsaved(thr[t], thr'[t])
  BY <1>1, <1>3, <1>4 DEF Unsaved, SavePC
<1>12. Drafts' = Drafts
  BY <1>4, <1>11, DraftsSame
<1> QED
  BY <1>9, <1>10, <1>12 DEF Good, Unseen

\* A new controller process: no thread is under way, the gauge is set to what
\* was restored, and every timeshift of the heap has distinct containers.
LEMMA RestartGood ==
    ASSUME RegInv, HandleInv', NEW data \in SUBSET Timeshift, DataInv(data, pages, Len(objs)), Restart(data),
           \A s \in data : Distinct(s.handles)
    PROVE  /\ RegInv' /\ Drafts' = {} /\ Stored' = Stored /\ Len(objs') = Len(objs)
           /\ Shifts' = ById(data)
<1>1. /\ objs \in Seq(Timeshift) /\ Len(objs) \in Nat /\ DOMAIN objs = 1 .. Len(objs)
      /\ objs' \in Seq(Timeshift)
  BY LenProperties DEF RegInv, HandleInv, TypeOK
<1>2. /\ registry' = {s.id : s \in data} /\ gauge' = Cardinality({s.id : s \in data})
      /\ thr' = [t \in Threads |-> Idle] /\ store' = store /\ DOMAIN objs' = DOMAIN objs
  BY DEF Restart
<1>3. Len(objs') = Len(objs)
  BY <1>1, <1>2, LenProperties
<1>4. ASSUME NEW id \in 1 .. Len(objs)
      PROVE  /\ Distinct(objs'[id].handles)
             /\ id \in registry' => objs'[id] = CHOOSE s \in data : s.id = id
  <2>1. CASE \E s \in data : s.id = id
    <3> DEFINE s == CHOOSE x \in data : x.id = id
    <3>1. s \in data /\ s.id = id
      BY <2>1
    <3>2. objs'[id] = s
      BY <1>1, <2>1 DEF Restart
    <3> QED BY <3>1, <3>2
  <2>2. CASE ~ \E s \in data : s.id = id
    <3>1. objs'[id] = objs[id] /\ id \notin registry'
      BY <1>1, <1>2, <2>2 DEF Restart
    <3> QED BY <3>1 DEF RegInv
  <2> QED BY <2>1, <2>2
<1>5. \A t \in Threads : thr'[t] = Idle
  BY <1>2
<1>6. \A t \in Threads : IdsInv(thr'[t]) /\ EntryInv(thr'[t])
  BY <1>5, IdleFresh, FreshOK
<1>7. Incs' = {} /\ Decs' = {} /\ Pend' = {} /\ Saving' = {}
  BY <1>5, IdleFresh DEF Incs, Decs, Pend, Saving
<1>8. GaugeExact'
  <2>1. registry' \subseteq 1 .. Len(objs)
    BY <1>2 DEF DataInv
  <2>2. Cardinality(registry') \in Nat
    <3>1. IsFiniteSet(1 .. Len(objs))
      BY <1>1, FS_Interval
    <3> QED BY <2>1, <3>1, FS_Subset, FS_CardinalityType
  <2>3. gauge' = Cardinality(registry')
    BY <1>2
  <2>4. Cardinality({}) = 0
    BY FS_EmptySet
  <2>5. gauge' = Cardinality(registry') - Cardinality(Incs') + Cardinality(Decs') + Cardinality(Pend')
    BY <1>7, <2>2, <2>3, <2>4
  <2> QED BY <2>5, GaugeNext
<1>9. RegInv'
  <2>1. \A t \in Threads : (IdsInv(thr[t]) /\ EntryInv(thr[t]))'
    BY <1>6 DEF IdsInv, EntryInv, OneEach, Distinct
  <2>2. \A id \in 1 .. Len(objs') : Distinct(objs[id].handles)'
    BY <1>3, <1>4 DEF Distinct
  <2>3. \A s \in store'.data : Distinct(s.handles)'
    BY <1>2 DEF RegInv, Distinct
  <2> QED BY <1>8, <2>1, <2>2, <2>3 DEF RegInv
<1>10. Drafts' = {} /\ Stored' = Stored
  BY <1>2, <1>7 DEF Drafts, Stored
<1>11. Shifts' = ById(data)
  <2>1. \A id \in registry' : objs'[id] = CHOOSE s \in data : s.id = id
    BY <1>2, <1>4 DEF DataInv
  <2>2. Shifts' = [id \in registry' |-> Public(objs'[id])]
    BY DEF Shifts
  <2> QED BY <1>2, <2>1, <2>2 DEF ById
<1> QED
  BY <1>3, <1>9, <1>10, <1>11

\* Both kinds of restart are restarts of the registry.
LEMMA CrashGood ==
    ASSUME RegInv, HandleInv', CrashRestore \/ CrashEmpty
    PROVE  Good
<1>1. /\ store.data \in SUBSET Timeshift /\ DataInv(store.data, pages, Len(objs))
      /\ \A s \in store.data : Distinct(s.handles)
  BY DEF RegInv, HandleInv, TypeOK
<1>2. CASE CrashRestore
  <2>1. /\ RegInv' /\ Drafts' = {} /\ Stored' = Stored /\ Len(objs') = Len(objs)
        /\ Shifts' = ById(store.data)
    BY <1>1, <1>2, RestartGood DEF CrashRestore
  <2>2. Shifts' = Stored
    BY <2>1 DEF Stored
  <2>3. Abstract!Restart
    BY <2>1, <2>2 DEF Abstract!Restart
  <2> QED BY <2>1, <2>3 DEF Good, AbstractStep
<1>3. CASE CrashEmpty
  <2>1. {} \in SUBSET Timeshift /\ DataInv({}, pages, Len(objs))
    BY DEF DataInv
  <2>2. /\ RegInv' /\ Drafts' = {} /\ Stored' = Stored /\ Len(objs') = Len(objs)
        /\ Shifts' = ById({})
    BY <1>3, <2>1, RestartGood DEF CrashEmpty
  <2>3. ById({}) = Abstract!NoShifts
    BY DEF ById, Abstract!NoShifts
  <2>4. Abstract!Restart
    BY <2>2, <2>3 DEF Abstract!Restart
  <2> QED BY <2>2, <2>4 DEF Good, AbstractStep
<1> QED
  BY <1>2, <1>3

\* A step outside the controller, or the passing of a TTL.
LEMMA OutsideGood ==
    ASSUME RegInv, HandleInv', UNCHANGED <<objs, registry, thr, store, gauge>>
    PROVE  Good
<1>1. RegInv'
  BY DEF RegInv, GaugeExact, IdsInv, EntryInv, OneEach, Distinct
<1>2. Unseen
  BY DEF Unseen, Shifts, Stored, Drafts, Saving
<1> QED
  BY <1>1, <1>2 DEF Good

\* Every step keeps the invariant and is a step of the registry or invisible.
LEMMA NextGood ==
    ASSUME RegInv, [Next]_vars
    PROVE  Good
<1>h. HandleInv'
  BY NextInv DEF RegInv
<1>p. ASSUME NEW t \in Threads, InjectPod(t) \/ ResetHandles(t) PROVE Good
  <2>1. ASSUME NEW cid \in thr[t].todo, InjectOk(t, cid) \/ InjectErr(t, cid) \/ InjectLost(t, cid) PROVE Good
    BY <1>h, <2>1, InjectOkOrdinary, InjectSkipOrdinary, OrdinaryGood
  <2>2. ASSUME ResetHandles(t) PROVE Good
    BY <1>h, <2>2, SkipOrdinary, ResetDoneOrdinary, OrdinaryGood DEF ResetHandles
  <2> QED BY <1>p, <2>1, <2>2 DEF InjectPod
<1>s. ASSUME NEW t \in Threads, Persist(t) PROVE Good
  BY <1>h, <1>s, EncodeGood, FlushGetOrdinary, OrdinaryGood, FlushPutGood, FlushErrGood DEF Persist
<1>1. ASSUME NEW t \in Workers, NewRequest(t) PROVE Good
  <2>1. t \in Threads
    BY DEF Threads
  <2>2. ASSUME NEW sel \in Selectors, NEW k \in Clocks, NEW ttl \in TTLs, CreateStart(t, sel, k, ttl) PROVE Good
    BY <1>h, <2>1, <2>2, CreateStartOrdinary, OrdinaryGood
  <2>3. ASSUME NEW id \in registry, NEW k \in Clocks, UpdateStart(t, id, k) PROVE Good
    BY <1>h, <2>1, <2>3, UpdateStartOrdinary, OrdinaryGood
  <2>4. ASSUME NEW id \in registry, NEW delta \in Deltas, NEW freeze \in Freezes, AdvanceRead(t, id, delta, freeze)
        PROVE  Good
    BY <1>h, <2>1, <2>4, AdvanceReadOrdinary, OrdinaryGood
  <2>5. ASSUME NEW id \in registry, DeleteRemove(t, id) PROVE Good
    BY <1>h, <2>1, <2>5, DeleteRemoveGood
  <2> QED BY <1>1, <2>2, <2>3, <2>4, <2>5 DEF NewRequest
<1>2. ASSUME NEW t \in Workers, WorkerStep(t) PROVE Good
  <2>1. t \in Threads
    BY DEF Threads
  <2>2. ASSUME CreateCheck(t) \/ CreateNone(t) \/ AdvanceUpdate(t) PROVE Good
    BY <1>h, <2>1, <2>2, CreateCheckOrdinary, EndOrdinary, AdvanceUpdateOrdinary, OrdinaryGood
  <2>3. ASSUME CreateRegister(t) \/ GaugeInc(t) \/ GaugeDec(t) \/ UpdateApply(t) PROVE Good
    BY <1>h, <2>1, <2>3, CreateRegisterGood, GaugeIncGood, GaugeDecGood, UpdateApplyGood
  <2>4. ASSUME SetTimeOk(t) \/ SetTimeErr(t) \/ SetTimeLost(t) \/ SetTimeNotFound(t) PROVE Good
    BY <1>h, <2>1, <2>4, SkipOrdinary, NotFoundOrdinary, OrdinaryGood
  <2>5. ASSUME ReinjectOk(t) \/ ReinjectErr(t) \/ ReinjectLost(t) PROVE Good
    BY <1>h, <2>1, <2>5, ReinjectOkOrdinary, ReinjectSkipOrdinary, OrdinaryGood
  <2> QED BY <1>2, <1>p, <1>s, <2>1, <2>2, <2>3, <2>4, <2>5 DEF WorkerStep
<1>3. ASSUME NEW t \in Sweepers, SweeperStep(t) PROVE Good
  <2>1. t \in Threads
    BY DEF Threads
  <2>2. ASSUME SweepRemove(t) \/ SweepDone(t) PROVE Good
    BY <1>h, <2>1, <2>2, SweepRemoveGood, EndOrdinary, OrdinaryGood
  <2>3. ASSUME NEW id \in thr[t].ids, SweepNext(t, id) PROVE Good
    BY <1>h, <2>1, <2>3, SweepNextGood
  <2> QED BY <1>3, <1>p, <1>s, <2>1, <2>2, <2>3 DEF SweeperStep
<1>4. ASSUME NEW t \in Watchers, WatcherStep(t) \/ \E p \in Pods : WatchReceive(t, p) PROVE Good
  <2>1. t \in Threads
    BY DEF Threads
  <2>2. ASSUME WatchMatch(t) \/ WatchDone(t) \/ WatchApply(t) PROVE Good
    BY <1>h, <2>1, <2>2, WatchMatchOrdinary, EndOrdinary, WatchApplyOrdinary, OrdinaryGood
  <2>3. ASSUME NEW m \in thr[t].matched, WatchNext(t, m) PROVE Good
    BY <1>h, <2>1, <2>3, WatchNextOrdinary, OrdinaryGood
  <2>4. ASSUME NEW p \in Pods, WatchReceive(t, p) PROVE Good
    BY <1>h, <2>1, <2>4, WatchReceiveOrdinary, OrdinaryGood
  <2> QED BY <1>4, <1>p, <2>1, <2>2, <2>3, <2>4 DEF WatcherStep
<1>5. ASSUME Environment PROVE Good
  <2>1. ASSUME NEW t \in Workers, ClientGone(t) PROVE Good
    <3>1. t \in Threads
      BY DEF Threads
    <3> QED BY <1>h, <2>1, <3>1, ClientGoneOrdinary, OrdinaryGood
  <2>2. ASSUME ClusterNext /\ UNCHANGED ctlVars PROVE Good
    BY <1>h, <2>2, OutsideGood DEF ctlVars
  <2>3. ASSUME NEW id \in DOMAIN objs, Expire(id) PROVE Good
    BY <1>h, <2>3, OutsideGood DEF Expire
  <2> QED BY <1>5, <1>h, <2>1, <2>2, <2>3, CrashGood DEF Environment
<1>6. CASE UNCHANGED vars
  BY <1>h, <1>6, OutsideGood DEF vars, ctlVars
<1> QED
  BY <1>1, <1>2, <1>3, <1>4, <1>5, <1>6 DEF Next

\* The invariant holds at the start, and so does the registry's.
LEMMA InitReg ==
    ASSUME Init
    PROVE  RegInv /\ Abstract!RegistryInit
<1>1. /\ HandleInv /\ objs = <<>> /\ Len(objs) = 0 /\ registry = {} /\ store.data = {} /\ gauge = 0
      /\ \A t \in Threads : thr[t] = Idle
  BY InitInv DEF Init
<1>2. Incs = {} /\ Decs = {} /\ Pend = {} /\ Saving = {}
  BY <1>1, IdleFresh DEF Incs, Decs, Pend, Saving
<1>3. GaugeExact
  <2>1. Cardinality({}) = 0
    BY FS_EmptySet
  <2>2. gauge = Cardinality(registry) - Cardinality(Incs) + Cardinality(Decs) + Cardinality(Pend)
    BY <1>1, <1>2, <2>1
  <2> QED BY <2>2, GaugeDef
<1>4. \A t \in Threads : IdsInv(thr[t]) /\ EntryInv(thr[t])
  BY <1>1, IdleFresh, FreshOK
<1>5. RegInv
  BY <1>1, <1>3, <1>4 DEF RegInv
<1>6. Shifts = Abstract!NoShifts /\ Stored = Abstract!NoShifts /\ Drafts = {}
  BY <1>1, <1>2 DEF Shifts, Stored, Drafts, ById, Abstract!NoShifts
<1> QED
  BY <1>1, <1>5, <1>6 DEF Abstract!RegistryInit

\* The inductive invariant holds in every reachable state.
LEMMA RegInvariance == Spec => []RegInv
<1>1. Init => RegInv
  BY InitReg
<1>2. RegInv /\ [Next]_vars => RegInv'
  BY NextGood DEF Good
<1> QED
  BY <1>1, <1>2, PTL DEF Spec

(***************************************************************************)
(* The theorems.                                                           *)
(***************************************************************************)
\* However creates, deletes, sweeps and restarts interleave, the gauge differs
\* from the size of the registry only by the goroutines that have changed the
\* registry and not yet reached their Inc or Dec: no path counts a timeshift
\* twice or forgets one.
THEOREM GaugeExactHolds == Spec => []GaugeExact
<1>1. RegInv => GaugeExact
  BY DEF RegInv
<1> QED
  BY <1>1, RegInvariance, PTL

\* Re-injection by an update, the replacement of a restarted pod's entries by the
\* pod watcher and recovery from the ConfigMap never leave a registered timeshift
\* with two entries for one container.
THEOREM OneEntryHolds == Spec => []OneEntryPerContainer
<1>1. RegInv => OneEntryPerContainer
  <2> SUFFICES ASSUME RegInv, NEW id \in registry
               PROVE  \A i, j \in DOMAIN objs[id].handles :
                          objs[id].handles[i].c = objs[id].handles[j].c => i = j
    BY DEF OneEntryPerContainer
  <2>1. objs \in Seq(Timeshift) /\ id \in 1 .. Len(objs) /\ Distinct(objs[id].handles)
    BY DEF RegInv, HandleInv, TypeOK
  <2>2. objs[id].handles \in Seq(ContainerHandle)
    <3>1. objs[id] \in Timeshift
      BY <2>1, ElementOfSeq
    <3> QED BY <3>1 DEF Timeshift
  <2>3. DOMAIN objs[id].handles = 1 .. Len(objs[id].handles)
    BY <2>2, LenProperties
  <2> QED BY <2>1, <2>3 DEF Distinct
<1> QED
  BY <1>1, RegInvariance, PTL

\* The controller implements the registry of Registry.tla: whatever the number of
\* handlers and whatever fails, each step is one create, update, removal, save
\* step or restart of the abstract registry, or is invisible to its clients.
THEOREM ImplementsRegistryHolds == Spec => ImplementsRegistry
<1>1. Init => Abstract!RegistryInit
  BY InitReg
<1>2. RegInv /\ [Next]_vars => [AbstractStep]_Abstract!regVars
  <2> SUFFICES ASSUME RegInv, [Next]_vars PROVE [AbstractStep]_Abstract!regVars
    OBVIOUS
  <2>1. AbstractStep \/ Unseen
    BY NextGood DEF Good
  <2>2. Unseen => UNCHANGED Abstract!regVars
    BY DEF Unseen, Abstract!regVars
  <2> QED BY <2>1, <2>2
<1> QED
  BY <1>1, <1>2, RegInvariance, PTL DEF Spec, ImplementsRegistry

(***************************************************************************)
(* Updates and restarts.                                                   *)
(***************************************************************************)
\* Refreshed entries are for the same containers.
LEMMA RefreshedEntries ==
    ASSUME NEW handles \in Seq(ContainerHandle), NEW hs, NEW upd
    PROVE  LET r == Refreshed(handles, hs, upd)
           IN  /\ Len(r) = Len(handles)
               /\ \A j \in 1 .. Len(handles) :
                      /\ r[j].c = handles[j].c /\ r[j].inc = handles[j].inc
                      /\ (\A u \in upd : u.idx # j) => r[j] = handles[j]
<1> DEFINE r == Refreshed(handles, hs, upd)
<1>1. Len(handles) \in Nat /\ DOMAIN handles = 1 .. Len(handles) /\ \A j \in 1 .. Len(handles) : handles[j] \in ContainerHandle
  BY ElementOfSeq, LenProperties
<1>2. ASSUME NEW j \in 1 .. Len(handles)
      PROVE  r[j].c = handles[j].c /\ r[j].inc = handles[j].inc /\ ((\A u \in upd : u.idx # j) => r[j] = handles[j])
  <2>1. handles[j] \in ContainerHandle
    BY <1>1
  <2> DEFINE e == [handles[j] EXCEPT !.h = (CHOOSE u \in upd : u.idx = j).new]
  <2>2. r[j] = e \/ r[j] = handles[j]
    BY <1>1 DEF Refreshed
  <2>3. e.c = handles[j].c /\ e.inc = handles[j].inc
    BY <2>1 DEF ContainerHandle
  <2>4. (\A u \in upd : u.idx # j) => r[j] = handles[j]
    BY <1>1 DEF Refreshed
  <2> HIDE DEF e
  <2> QED BY <2>2, <2>3, <2>4
<1>3. Len(r) = Len(handles)
  BY <1>1 DEF Refreshed
<1> HIDE DEF r
<1>4. /\ Len(r) = Len(handles)
      /\ \A j \in 1 .. Len(handles) : /\ r[j].c = handles[j].c /\ r[j].inc = handles[j].inc
                                      /\ (\A u \in upd : u.idx # j) => r[j] = handles[j]
  BY <1>2, <1>3
<1> QED
  BY <1>4 DEF r

\* What an update does to the heap.
LEMMA Applied ==
    ASSUME RegInv, NEW t \in Threads, UpdateApply(t)
    PROVE  /\ Len(objs') = Len(objs)
           /\ \A id \in 1 .. Len(objs) :
                  IF id = thr[t].id
                  THEN /\ objs'[id].handles = Refreshed(objs[id].handles, thr[t].hs, thr[t].upd)
                       /\ objs'[id].clock = thr[t].clock
                       /\ objs'[id].sel = objs[id].sel /\ objs'[id].ttl = objs[id].ttl
                  ELSE objs'[id] = objs[id]
<1> DEFINE id == thr[t].id
           r == Refreshed(objs[id].handles, thr[t].hs, thr[t].upd)
           s == [objs[id] EXCEPT !.handles = r, !.clock = thr[t].clock]
<1>1. objs \in Seq(Timeshift) /\ Len(objs) \in Nat /\ DOMAIN objs = 1 .. Len(objs) /\ objs' \in Seq(Timeshift)
  <2>1. HandleInv'
    BY UpdateApplyInv DEF RegInv
  <2> QED BY <2>1, LenProperties DEF RegInv, HandleInv, TypeOK
<1>2. objs' = [objs EXCEPT ![id] = s]
  BY DEF UpdateApply
<1> HIDE DEF r
<1>3. id \in 1 .. Len(objs) => /\ s.handles = r /\ s.clock = thr[t].clock
                               /\ s.sel = objs[id].sel /\ s.ttl = objs[id].ttl
  BY <1>1, ElementOfSeq DEF Timeshift
<1> HIDE DEF s
<1>4. DOMAIN objs' = 1 .. Len(objs)
  BY <1>1, <1>2
<1>5. Len(objs') = Len(objs)
  BY <1>1, <1>4, LenProperties
<1>6. \A j \in 1 .. Len(objs) : objs'[j] = IF j = id THEN s ELSE objs[j]
  BY <1>1, <1>2
<1> QED
  BY <1>3, <1>5, <1>6 DEF r

\* What a restart makes of the heap.
LEMMA Restored ==
    ASSUME RegInv, NEW data \in SUBSET Timeshift, DataInv(data, pages, Len(objs)), Restart(data)
    PROVE  /\ registry' = {s.id : s \in data} /\ store' = store /\ \A t \in Threads : thr'[t] = Idle
           /\ \A id \in registry' : objs'[id] \in data /\ objs'[id].id = id
<1>1. DOMAIN objs = 1 .. Len(objs)
  BY LenProperties DEF RegInv, HandleInv, TypeOK
<1>2. registry' = {s.id : s \in data} /\ store' = store /\ \A t \in Threads : thr'[t] = Idle
  BY DEF Restart
<1>3. ASSUME NEW id \in registry' PROVE objs'[id] \in data /\ objs'[id].id = id
  <2> DEFINE s == CHOOSE x \in data : x.id = id
  <2>1. \E x \in data : x.id = id
    BY <1>2
  <2>2. s \in data /\ s.id = id
    BY <2>1
  <2>3. id \in DOMAIN objs
    BY <1>1, <2>1 DEF DataInv
  <2>4. objs'[id] = s
    BY <2>1, <2>3 DEF Restart
  <2> QED BY <2>2, <2>4
<1> QED
  BY <1>2, <1>3

(***************************************************************************)
(* Steps that add no timeshift and collect no handle.                      *)
(***************************************************************************)
\* No create request carries a TTL.
Untimed == TTLs \subseteq {FALSE}

\* A step within the controller that collects no handle.
Narrow(a, b) ==
    /\ b.data = a.data \/ b.data = {}
    /\ b.cut => a.cut \/ ClientsGiveUp
    /\ b.ttl => a.ttl \/ ~Untimed
    /\ b.pc = "check" => b.hs = <<>> \/ (a.pc = "check" /\ b.hs = a.hs)
    /\ b.pc = "inject" => a.pc = "inject" /\ b.hs = a.hs /\ b.todo \subseteq a.todo

Plain(t) ==
    /\ Others(t) /\ Narrow(thr[t], thr'[t])
    /\ objs' = objs /\ store' = store /\ registry' \subseteq registry

\* Such a step of a thread that is not at a create or a pod event.
Aside(t) == Plain(t) /\ thr'[t].pc \notin Collect /\ UNCHANGED <<up, inc>>

\* A create starts.
LEMMA CreatePlain ==
    ASSUME RegInv, NEW t \in Threads, NEW sel, NEW k, NEW ttl \in TTLs, CreateStart(t, sel, k, ttl)
    PROVE  Plain(t)
<1> DEFINE l == [Idle EXCEPT !.pc = "check", !.op = "create", !.sel = sel,
                             !.clock = k, !.ttl = ttl, !.todo = RunningIn(sel)]
<1>1. thr \in [Threads -> Thread]
  BY Facts DEF RegInv
<1>2. l.pc = "check" /\ l.hs = <<>> /\ l.data = {} /\ l.cut = FALSE /\ l.ttl = ttl
  BY DEF Idle
<1>3. thr' = [thr EXCEPT ![t] = l] /\ UNCHANGED <<objs, store, registry>>
  BY DEF CreateStart
<1>4. Narrow(thr[t], l)
  <2>1. Untimed => ttl = FALSE
    BY DEF Untimed
  <2> HIDE DEF l
  <2> QED BY <1>2, <2>1 DEF Narrow
<1> QED
  BY <1>1, <1>3, <1>4 DEF Plain, Others

\* The other requests start.
LEMMA StartAside ==
    ASSUME RegInv, NEW t \in Threads,
           \/ \E id \in registry, k \in Clocks : UpdateStart(t, id, k)
           \/ \E id \in registry, delta \in Deltas, freeze \in Freezes : AdvanceRead(t, id, delta, freeze)
           \/ \E id \in registry : DeleteRemove(t, id)
    PROVE  Aside(t)
<1>1. thr \in [Threads -> Thread]
  BY Facts DEF RegInv
<1>3. ASSUME NEW id, NEW k, UpdateStart(t, id, k) PROVE Aside(t)
  BY <1>1, <1>3 DEF UpdateStart, Aside, Plain, Others, Narrow, Idle, Snapshot, Collect, clusterVars
<1>4. ASSUME NEW id, NEW delta, NEW freeze, AdvanceRead(t, id, delta, freeze) PROVE Aside(t)
  BY <1>1, <1>4 DEF AdvanceRead, Aside, Plain, Others, Narrow, Idle, Collect, clusterVars
<1>5. ASSUME NEW id, DeleteRemove(t, id) PROVE Aside(t)
  BY <1>1, <1>5 DEF DeleteRemove, Aside, Plain, Others, Narrow, Idle, Collect, clusterVars
<1> QED
  BY <1>3, <1>4, <1>5

\* Requests, sweeps and resets that end.
LEMMA EndAside ==
    ASSUME RegInv, NEW t \in Threads, CreateNone(t) \/ SweepDone(t) \/ FlushErr(t) \/ ResetDone(t)
    PROVE  Aside(t)
<1>1. thr \in [Threads -> Thread] /\ thr[t] \in Thread
  BY Facts DEF RegInv
<1>2. CASE CreateNone(t) \/ SweepDone(t)
  BY <1>1, <1>2 DEF CreateNone, SweepDone, Aside, Plain, Others, Narrow, Idle, Collect, clusterVars
<1>3. CASE ResetDone(t)
  BY <1>1, <1>3 DEF ResetDone, Aside, Plain, Others, Narrow, Idle, Thread, Collect, clusterVars
<1>4. CASE FlushErr(t)
  <2>1. /\ Others(t) /\ thr'[t] = AfterPersist(thr[t]) /\ objs' = objs /\ store' = store
        /\ registry' = registry /\ UNCHANGED <<up, inc>>
    BY <1>1, <1>4 DEF FlushErr, Others, clusterVars
  <2>2. Narrow(thr[t], AfterPersist(thr[t])) /\ AfterPersist(thr[t]).pc \notin Collect
    BY <1>1 DEF AfterPersist, Narrow, Idle, Thread, Collect
  <2> QED BY <2>1, <2>2 DEF Aside, Plain
<1> QED
  BY <1>2, <1>3, <1>4

\* Steps of an update, a delete or a sweep on the way.
LEMMA WayAside ==
    ASSUME RegInv, NEW t \in Threads,
           \/ GaugeInc(t) \/ GaugeDec(t) \/ FlushGet(t) \/ AdvanceUpdate(t)
           \/ SetTimeOk(t) \/ SetTimeErr(t) \/ SetTimeLost(t) \/ SetTimeNotFound(t)
           \/ ReinjectOk(t) \/ ReinjectErr(t) \/ ReinjectLost(t)
           \/ ResetOk(t) \/ ResetErr(t) \/ SweepRemove(t)
           \/ \E id \in thr[t].ids : SweepNext(t, id)
    PROVE  Aside(t)
<1>1. thr \in [Threads -> Thread] /\ thr[t] \in Thread
  BY Facts DEF RegInv
<1>2. ASSUME NEW pc \in {"encode", "cmUpdate", "cmCreate"}, Goto(t, pc),
             UNCHANGED <<clusterVars, objs, registry, store>>
      PROVE  Aside(t)
  <2> DEFINE l == [thr[t] EXCEPT !.pc = pc]
  <2>1. thr' = [thr EXCEPT ![t] = l] /\ UNCHANGED <<objs, registry, store>> /\ UNCHANGED <<up, inc>>
    BY <1>2 DEF Goto, clusterVars
  <2>2. l.pc \notin Collect /\ l.data = thr[t].data /\ l.cut = thr[t].cut /\ l.ttl = thr[t].ttl
    BY <1>1 DEF Thread, Collect
  <2> HIDE DEF l
  <2> QED BY <1>1, <2>1, <2>2 DEF Aside, Plain, Others, Narrow, Collect
<1>10. CASE GaugeInc(t) \/ GaugeDec(t) \/ FlushGet(t)
  BY <1>2, <1>10 DEF GaugeInc, GaugeDec, FlushGet
<1>3. CASE AdvanceUpdate(t)
  BY <1>1, <1>3 DEF AdvanceUpdate, Snapshot, Idle, Aside, Plain, Others, Narrow, Thread, Collect, clusterVars
<1>4. CASE SetTimeOk(t) \/ SetTimeErr(t) \/ SetTimeLost(t)
  <2>1. /\ thr[t].pc = "settime" /\ NextHandle(t) /\ UNCHANGED <<objs, store, registry>>
        /\ UNCHANGED <<up, inc>>
    BY <1>4 DEF SetTimeOk, SetTimeErr, SetTimeLost, WritePage, clusterVars
  <2> QED BY <1>1, <2>1 DEF NextHandle, Aside, Plain, Others, Narrow, Thread, Collect
<1>5. CASE SetTimeNotFound(t)
  BY <1>1, <1>5 DEF SetTimeNotFound, Goto, Aside, Plain, Others, Narrow, Thread, Collect, clusterVars
<1>6. CASE ReinjectOk(t) \/ ReinjectErr(t) \/ ReinjectLost(t)
  <2>1. /\ Others(t) /\ thr'[t].pc = "settime" /\ UNCHANGED <<objs, store, registry>>
        /\ thr'[t].data = thr[t].data /\ thr'[t].cut = thr[t].cut /\ thr'[t].ttl = thr[t].ttl
    BY <1>1, <1>6 DEF ReinjectOk, ReinjectErr, ReinjectLost, Others, Thread
  <2>2. UNCHANGED <<up, inc>>
    BY <1>6 DEF ReinjectOk, ReinjectErr, ReinjectLost, Install, clusterVars
  <2> QED BY <2>1, <2>2 DEF Aside, Plain, Narrow, Collect
<1>7. CASE ResetOk(t) \/ ResetErr(t)
  <2>1. /\ thr[t].pc = "reset" /\ NextHandle(t) /\ UNCHANGED <<objs, store, registry>>
        /\ UNCHANGED <<up, inc>>
    BY <1>7 DEF ResetOk, ResetErr, AtReset, WritePage, clusterVars
  <2> QED BY <1>1, <2>1 DEF NextHandle, Aside, Plain, Others, Narrow, Thread, Collect
<1>8. CASE SweepRemove(t)
  BY <1>1, <1>8 DEF SweepRemove, Aside, Plain, Others, Narrow, Idle, Collect, clusterVars
<1>9. ASSUME NEW id \in thr[t].ids, SweepNext(t, id) PROVE Aside(t)
  BY <1>1, <1>9 DEF SweepNext, Aside, Plain, Others, Narrow, Thread, Collect, clusterVars
<1> QED
  BY <1>10, <1>3, <1>4, <1>5, <1>6, <1>7, <1>8, <1>9

\* A client that goes away, and a container that is not injected.
LEMMA LossPlain ==
    ASSUME RegInv, NEW t \in Threads,
           \/ ClientGone(t)
           \/ \E cid \in thr[t].todo : InjectErr(t, cid) \/ InjectLost(t, cid)
    PROVE  Plain(t)
<1>1. thr \in [Threads -> Thread] /\ thr[t] \in Thread
  BY Facts DEF RegInv
<1>2. CASE ClientGone(t)
  <2>1. /\ thr' = [thr EXCEPT ![t] = [thr[t] EXCEPT !.cut = TRUE]] /\ UNCHANGED <<objs, store, registry>>
        /\ ClientsGiveUp
    BY <1>2 DEF ClientGone
  <2>2. Narrow(thr[t], [thr[t] EXCEPT !.cut = TRUE])
    BY <1>1, <2>1 DEF Narrow, Thread
  <2> QED BY <1>1, <2>1, <2>2 DEF Plain, Others
<1>3. ASSUME NEW cid \in thr[t].todo, InjectErr(t, cid) \/ InjectLost(t, cid) PROVE Plain(t)
  <2> DEFINE l == [thr[t] EXCEPT !.todo = @ \ {cid}]
  <2>1. thr' = [thr EXCEPT ![t] = l] /\ UNCHANGED <<objs, store, registry>>
    BY <1>3 DEF InjectErr, InjectLost
  <2>2. Narrow(thr[t], l)
    BY <1>1 DEF Narrow, Thread
  <2> HIDE DEF l
  <2> QED BY <1>1, <2>1, <2>2 DEF Plain, Others
<1> QED
  BY <1>2, <1>3

(***************************************************************************)
(* Where no container restarts, no call fails and no client gives up,      *)
(* every timeshift keeps an entry for each container of its pods, also     *)
(* through updates, agent restarts and controller restarts: the pod        *)
(* watcher receives events and has nothing to do.  Where no timeshift has  *)
(* a TTL, neither has the sweeper.                                         *)
(***************************************************************************)
Steady == MaxRestarts = 0 /\ MaxFaults = 0 /\ ~ClientsGiveUp

\* There is no pod watcher, or it has nothing to do.
WatchersRest == Watchers = {} \/ Steady

First(c) == [c |-> c, inc |-> 0]

HasEntry(c, hs) == \E j \in 1 .. Len(hs) : hs[j].c = c /\ hs[j].inc = 0

\* The timeshift has an entry for every container of its pods, and no TTL.
Fine(s) ==
    /\ Steady => \A c \in Containers : PodOf[c] \in s.sel => HasEntry(c, s.handles)
    /\ Untimed => ~s.ttl

\* A create has injected every container of its pods, or has still to.
CalmLocal(l) ==
    /\ Steady => ~l.cut
    /\ Untimed => ~l.ttl
    /\ \A s \in l.data : Fine(s)
    /\ Steady /\ l.op = "create" /\ l.pc \in Collect =>
           \A c \in Containers : PodOf[c] \in l.sel => First(c) \in l.todo \/ HasEntry(c, l.hs)

\* The pod watcher waits, or looks at the containers of a pod.
AtRest(l) ==
    \/ l.pc = "idle"
    \/ l.pc = "match" /\ \A d \in l.list : d = First(d.c) /\ d.c \in Containers /\ PodOf[d.c] \in l.sel

CalmInv ==
    /\ Steady => \A c \in Containers : up[c] /\ inc[c] = 0
    /\ \A id \in registry : Fine(objs[id])
    /\ \A s \in store.data : Fine(s)
    /\ \A t \in Threads : CalmLocal(thr[t])
    /\ \A t \in Watchers : AtRest(thr[t])
    /\ Untimed => \A t \in Sweepers : thr[t].pc = "idle"

\* What the pods list is when nothing has restarted.
LEMMA SteadyList ==
    ASSUME Steady, CalmInv, NEW ps
    PROVE  /\ \A c \in Containers : PodOf[c] \in ps => First(c) \in RunningIn(ps)
           /\ \A d \in RunningIn(ps) : d = First(d.c) /\ d.c \in Containers /\ PodOf[d.c] \in ps
BY DEF CalmInv, RunningIn, First

\* No call fails.
LEMMA SteadyCalls ==
    ASSUME Steady, RegInv, CalmInv, NEW t \in Threads
    PROVE  ~CallFails(t) /\ ~(used.faults < MaxFaults) /\ ~thr[t].cut
<1>1. used.faults \in Nat
  BY DEF RegInv, HandleInv, TypeOK
<1>2. ~(used.faults < MaxFaults) /\ ~thr[t].cut
  BY <1>1 DEF Steady, CalmInv, CalmLocal
<1> QED
  BY <1>2 DEF CallFails

\* The frame of the steps of a thread.
LEMMA CalmFrame ==
    ASSUME CalmInv, NEW t \in Threads, Others(t), UNCHANGED <<up, inc>>,
           \A id \in registry' : Fine(objs'[id]), \A s \in store'.data : Fine(s),
           CalmLocal(thr'[t]), t \in Watchers => AtRest(thr'[t]),
           Untimed /\ t \in Sweepers => thr'[t].pc = "idle"
    PROVE  CalmInv'
<1>1. \A u \in Threads : CalmLocal(thr'[u])
  BY DEF CalmInv, Others
<1>2. \A u \in Watchers : AtRest(thr'[u])
  BY DEF CalmInv, Others, Threads
<1>3. Untimed => \A u \in Sweepers : thr'[u].pc = "idle"
  BY DEF CalmInv, Others, Threads
<1> QED
  BY <1>1, <1>2, <1>3 DEF CalmInv, Fine, CalmLocal, AtRest

\* A thread whose steps are not confined.
Free(t) == t \in Threads \ Watchers /\ (Untimed => t \notin Sweepers)

\* A step aside.
LEMMA AsideCalm ==
    ASSUME CalmInv, NEW t, Free(t), Aside(t)
    PROVE  CalmInv'
<1>1. t \in Threads /\ CalmLocal(thr[t])
  BY DEF Free, CalmInv
<1>2. CalmLocal(thr'[t])
  BY <1>1 DEF Aside, Plain, Narrow, CalmLocal, Steady
<1>3. \A id \in registry' : Fine(objs'[id])
  BY DEF Aside, Plain, CalmInv
<1> QED
  BY <1>1, <1>2, <1>3, CalmFrame DEF Aside, Plain, Free, CalmInv

\* A client that goes away.
LEMMA GoneCalm ==
    ASSUME RegInv, CalmInv, NEW t, Free(t), ClientGone(t)
    PROVE  CalmInv'
<1> DEFINE l == [thr[t] EXCEPT !.cut = TRUE]
<1>1. t \in Threads /\ CalmLocal(thr[t]) /\ thr \in [Threads -> Thread] /\ thr[t] \in Thread
  BY Facts DEF Free, CalmInv, RegInv
<1>2. /\ thr' = [thr EXCEPT ![t] = l] /\ ~Steady
      /\ UNCHANGED <<objs, registry, store>> /\ UNCHANGED <<up, inc>>
  BY DEF ClientGone, Steady, clusterVars
<1>3. l.data = thr[t].data /\ l.ttl = thr[t].ttl
  BY <1>1 DEF Thread
<1> HIDE DEF l
<1>4. CalmLocal(l)
  BY <1>1, <1>2, <1>3 DEF CalmLocal
<1> QED
  BY <1>1, <1>2, <1>4, CalmFrame DEF Others, Free, CalmInv

\* A create lists the pods.
LEMMA CreateCalm ==
    ASSUME RegInv, CalmInv, NEW t, Free(t), NEW sel, NEW k, NEW ttl \in TTLs, CreateStart(t, sel, k, ttl)
    PROVE  CalmInv'
<1> DEFINE l == [Idle EXCEPT !.pc = "check", !.op = "create", !.sel = sel,
                             !.clock = k, !.ttl = ttl, !.todo = RunningIn(sel)]
<1>1. t \in Threads /\ thr \in [Threads -> Thread]
  BY Facts DEF Free, RegInv
<1>2. /\ l.cut = FALSE /\ l.ttl = ttl /\ l.data = {} /\ l.sel = sel /\ l.todo = RunningIn(sel)
  BY DEF Idle
<1>3. /\ thr' = [thr EXCEPT ![t] = l]
      /\ UNCHANGED <<objs, registry, store>> /\ UNCHANGED <<up, inc>>
  BY DEF CreateStart, clusterVars
<1> HIDE DEF l
<1>5. Steady => \A c \in Containers : PodOf[c] \in sel => First(c) \in RunningIn(sel)
  BY SteadyList
<1>6. Untimed => ~ttl
  BY DEF Untimed
<1>4. CalmLocal(l)
  BY <1>2, <1>5, <1>6 DEF CalmLocal
<1> QED
  BY <1>1, <1>3, <1>4, CalmFrame DEF Others, Free, CalmInv

\* The conflict check.
LEMMA CheckCalm ==
    ASSUME RegInv, CalmInv, NEW t, Free(t), CreateCheck(t)
    PROVE  CalmInv'
<1>1. t \in Threads /\ CalmLocal(thr[t]) /\ thr \in [Threads -> Thread] /\ thr[t] \in Thread /\ thr[t].pc = "check"
  BY Facts DEF Free, CalmInv, RegInv, CreateCheck
<1>2. Others(t) /\ UNCHANGED <<objs, registry, store>> /\ UNCHANGED <<up, inc>>
  BY <1>1 DEF CreateCheck, Others, clusterVars
<1>3. thr'[t] = Idle \/ thr'[t] = [thr[t] EXCEPT !.pc = "inject"]
  BY <1>1 DEF CreateCheck
<1>4. CASE thr'[t] = Idle
  <2>1. CalmLocal(Idle)
    BY DEF CalmLocal, Idle, Collect
  <2> QED BY <1>1, <1>2, <1>4, <2>1, CalmFrame DEF Free, CalmInv
<1>5. CASE thr'[t] = [thr[t] EXCEPT !.pc = "inject"]
  <2> DEFINE l == [thr[t] EXCEPT !.pc = "inject"]
  <2>1. /\ l.cut = thr[t].cut /\ l.ttl = thr[t].ttl /\ l.data = thr[t].data /\ l.sel = thr[t].sel
        /\ l.op = thr[t].op /\ l.todo = thr[t].todo /\ l.hs = thr[t].hs
    BY <1>1 DEF Thread
  <2> HIDE DEF l
  <2>2. CalmLocal(l)
    BY <1>1, <2>1 DEF CalmLocal, Collect
  <2> QED BY <1>1, <1>2, <1>5, <2>2, CalmFrame DEF Free, CalmInv, l
<1> QED
  BY <1>3, <1>4, <1>5

\* A container is injected, or is not.
LEMMA InjectCalm ==
    ASSUME RegInv, CalmInv, NEW t, Free(t), InjectPod(t)
    PROVE  CalmInv'
<1>1. t \in Threads /\ CalmLocal(thr[t]) /\ thr \in [Threads -> Thread] /\ thr[t] \in Thread
  BY Facts DEF Free, CalmInv, RegInv
<1>2. PICK cid \in thr[t].todo : InjectOk(t, cid) \/ InjectErr(t, cid) \/ InjectLost(t, cid)
  BY DEF InjectPod
<1>3. Others(t) /\ UNCHANGED <<objs, registry, store>> /\ thr[t].pc = "inject"
  BY <1>1, <1>2 DEF InjectOk, InjectErr, InjectLost, Others
<1>4. UNCHANGED <<up, inc>>
  BY <1>2 DEF InjectOk, InjectErr, InjectLost, Install, clusterVars
<1>5. /\ thr'[t].cut = thr[t].cut /\ thr'[t].ttl = thr[t].ttl /\ thr'[t].data = thr[t].data
      /\ thr'[t].sel = thr[t].sel /\ thr'[t].op = thr[t].op /\ thr'[t].todo = thr[t].todo \ {cid}
  BY <1>1, <1>2 DEF InjectOk, InjectErr, InjectLost, Thread
<1>6. ASSUME Steady, thr[t].op = "create", NEW c \in Containers, PodOf[c] \in thr[t].sel
      PROVE  First(c) \in thr'[t].todo \/ HasEntry(c, thr'[t].hs)
  <2>1. First(c) \in thr[t].todo \/ HasEntry(c, thr[t].hs)
    BY <1>1, <1>3, <1>6 DEF CalmLocal, Collect
  <2>2. thr[t].hs \in Seq(ContainerHandle) /\ cid \in ContainerID
    BY <1>1 DEF Thread
  <2>3. CASE InjectOk(t, cid)
    <3> DEFINE e == [c |-> cid.c, inc |-> cid.inc, h |-> NewHandle]
    <3>1. thr'[t].hs = Append(thr[t].hs, e)
      BY <1>1, <2>3 DEF InjectOk, Thread
    <3>2. e.c = cid.c /\ e.inc = cid.inc
      OBVIOUS
    <3>3. e \in ContainerHandle
      <4>1. NewHandle \in Nat
        BY <1>1, Facts DEF RegInv, NewHandle
      <4> QED BY <2>2, <4>1 DEF ContainerID, ContainerHandle
    <3> HIDE DEF e
    <3>4. /\ Len(thr[t].hs) \in Nat /\ Len(thr'[t].hs) = Len(thr[t].hs) + 1
          /\ thr'[t].hs[Len(thr[t].hs) + 1] = e
          /\ \A j \in 1 .. Len(thr[t].hs) : thr'[t].hs[j] = thr[t].hs[j]
      BY <2>2, <3>1, <3>3
    <3>5. HasEntry(c, thr[t].hs) => HasEntry(c, thr'[t].hs)
      <4> SUFFICES ASSUME NEW j \in 1 .. Len(thr[t].hs), thr[t].hs[j].c = c, thr[t].hs[j].inc = 0
                   PROVE  HasEntry(c, thr'[t].hs)
        BY DEF HasEntry
      <4>1. j \in 1 .. Len(thr'[t].hs) /\ thr'[t].hs[j] = thr[t].hs[j]
        BY <3>4
      <4> QED BY <4>1 DEF HasEntry
    <3>6. First(c) = cid => HasEntry(c, thr'[t].hs)
      BY <3>2, <3>4 DEF HasEntry, First
    <3> QED BY <1>5, <2>1, <3>5, <3>6
  <2>4. CASE InjectErr(t, cid)
    <3>1. ~Running(cid) /\ thr'[t].hs = thr[t].hs
      BY <1>1, <1>6, <2>4, SteadyCalls DEF InjectErr, Thread
    <3>2. First(c) # cid
      BY <1>6, <3>1 DEF CalmInv, Running, First
    <3> QED BY <1>5, <2>1, <3>1, <3>2
  <2>5. ~InjectLost(t, cid)
    BY <1>1, <1>6, SteadyCalls DEF InjectLost
  <2> QED BY <1>2, <2>3, <2>4, <2>5
<1>7. CalmLocal(thr'[t])
  BY <1>1, <1>5, <1>6 DEF CalmLocal
<1> QED
  BY <1>1, <1>3, <1>4, <1>7, CalmFrame DEF Free, CalmInv

\* A create files a timeshift with an entry for each of its containers.
LEMMA RegisterCalm ==
    ASSUME RegInv, CalmInv, NEW t, Free(t), CreateRegister(t)
    PROVE  CalmInv'
<1> DEFINE n == Len(objs) + 1
           s == [id |-> n, sel |-> thr[t].sel, clock |-> thr[t].clock,
                 ttl |-> thr[t].ttl, handles |-> thr[t].hs]
           l == [thr[t] EXCEPT !.pc = "inc", !.id = n]
<1>1. /\ t \in Threads /\ CalmLocal(thr[t]) /\ thr \in [Threads -> Thread] /\ thr[t] \in Thread
      /\ thr[t].pc = "inject" /\ thr[t].op = "create" /\ thr[t].todo = {}
      /\ objs \in Seq(Timeshift) /\ Len(objs) \in Nat /\ registry \subseteq 1 .. Len(objs)
  BY Facts DEF Free, CalmInv, RegInv, CreateRegister
<1>2. /\ thr' = [thr EXCEPT ![t] = l] /\ store' = store /\ UNCHANGED <<up, inc>>
      /\ objs' = Append(objs, s) /\ registry' = registry \union {n}
      /\ s.handles = thr[t].hs /\ s.sel = thr[t].sel /\ s.ttl = thr[t].ttl
  BY <1>1 DEF CreateRegister, clusterVars
<1>3. l.pc = "inc" /\ l.data = thr[t].data /\ l.cut = thr[t].cut /\ l.ttl = thr[t].ttl
  BY <1>1 DEF Thread
<1> HIDE DEF s, l
<1>4. objs'[n] = s /\ \A id \in registry : objs'[id] = objs[id]
  BY <1>1, <1>2
<1> HIDE DEF n
<1>5. Fine(s)
  BY <1>1, <1>2 DEF Fine, CalmLocal, Collect
<1>6. \A id \in registry' : Fine(objs'[id])
  BY <1>2, <1>4, <1>5 DEF CalmInv
<1>7. CalmLocal(l)
  BY <1>1, <1>3 DEF CalmLocal, Collect
<1> QED
  BY <1>1, <1>2, <1>6, <1>7, CalmFrame DEF Others, Free, CalmInv

\* persist.
LEMMA PersistCalm ==
    ASSUME RegInv, CalmInv, NEW t, Free(t), Encode(t) \/ FlushPut(t)
    PROVE  CalmInv'
<1>1. t \in Threads /\ CalmLocal(thr[t]) /\ thr \in [Threads -> Thread] /\ thr[t] \in Thread
  BY Facts DEF Free, CalmInv, RegInv
<1>2. CASE Encode(t)
  <2> DEFINE data == {objs[id] : id \in registry}
             l == [thr[t] EXCEPT !.pc = "get", !.data = data]
  <2>1. thr' = [thr EXCEPT ![t] = l] /\ UNCHANGED <<objs, registry, store>> /\ UNCHANGED <<up, inc>>
    BY <1>1, <1>2 DEF Encode, clusterVars
  <2>2. l.pc = "get" /\ l.data = data /\ l.cut = thr[t].cut /\ l.ttl = thr[t].ttl
    BY <1>1 DEF Thread
  <2>3. \A s \in data : Fine(s)
    BY DEF CalmInv
  <2> HIDE DEF l, data
  <2>4. CalmLocal(l)
    BY <1>1, <2>2, <2>3 DEF CalmLocal, Collect
  <2> QED BY <1>1, <2>1, <2>4, CalmFrame DEF Others, Free, CalmInv
<1>3. CASE FlushPut(t)
  <2> DEFINE l == AfterPersist(thr[t])
  <2>1. /\ thr' = [thr EXCEPT ![t] = l] /\ UNCHANGED <<objs, registry>> /\ UNCHANGED <<up, inc>>
        /\ store'.data = thr[t].data
    BY <1>3 DEF FlushPut, clusterVars
  <2>2. /\ l.pc \notin Collect /\ l.data = {} /\ (l.cut => thr[t].cut) /\ (l.ttl => thr[t].ttl)
    BY <1>1 DEF AfterPersist, Idle, Thread, Collect
  <2> HIDE DEF l
  <2>3. CalmLocal(l)
    BY <1>1, <2>2 DEF CalmLocal
  <2>4. \A s \in store'.data : Fine(s)
    BY <1>1, <2>1 DEF CalmLocal
  <2> QED BY <1>1, <2>1, <2>3, <2>4, CalmFrame DEF Others, Free, CalmInv
<1> QED
  BY <1>2, <1>3

\* An update files handles under the entries there are.
LEMMA UpdateCalm ==
    ASSUME RegInv, CalmInv, NEW t, Free(t), UpdateApply(t)
    PROVE  CalmInv'
<1> DEFINE l == [thr[t] EXCEPT !.pc = "encode", !.hs = <<>>, !.upd = {}]
<1>1. /\ t \in Threads /\ CalmLocal(thr[t]) /\ thr[t] \in Thread /\ thr \in [Threads -> Thread]
      /\ objs \in Seq(Timeshift) /\ registry \subseteq 1 .. Len(objs)
  BY Facts DEF Free, CalmInv, RegInv
<1>2. thr' = [thr EXCEPT ![t] = l] /\ UNCHANGED <<registry, store>> /\ UNCHANGED <<up, inc>>
  BY <1>1 DEF UpdateApply, clusterVars
<1>3. l.pc = "encode" /\ l.data = thr[t].data /\ l.cut = thr[t].cut /\ l.ttl = thr[t].ttl
  BY <1>1 DEF Thread
<1> HIDE DEF l
<1>4. CalmLocal(l)
  BY <1>1, <1>3 DEF CalmLocal, Collect
<1>5. ASSUME NEW id \in registry PROVE Fine(objs'[id])
  <2>1. objs[id].handles \in Seq(ContainerHandle) /\ id \in 1 .. Len(objs) /\ Fine(objs[id])
    <3>1. id \in 1 .. Len(objs) /\ objs[id] \in Timeshift
      BY <1>1, ElementOfSeq
    <3> QED BY <3>1 DEF Timeshift, CalmInv
  <2>2. CASE id = thr[t].id
    <3> DEFINE r == Refreshed(objs[id].handles, thr[t].hs, thr[t].upd)
    <3>1. objs'[id].handles = r /\ objs'[id].sel = objs[id].sel /\ objs'[id].ttl = objs[id].ttl
      BY <1>1, <2>1, <2>2, Applied
    <3>2. /\ Len(r) = Len(objs[id].handles)
          /\ \A j \in 1 .. Len(objs[id].handles) : r[j].c = objs[id].handles[j].c /\ r[j].inc = objs[id].handles[j].inc
      BY <2>1, RefreshedEntries
    <3> HIDE DEF r
    <3>3. \A c : HasEntry(c, objs[id].handles) => HasEntry(c, r)
      BY <3>2 DEF HasEntry
    <3> QED BY <2>1, <3>1, <3>3 DEF Fine
  <2>3. CASE id # thr[t].id
    <3>1. objs'[id] = objs[id]
      BY <1>1, <2>1, <2>3, Applied
    <3> QED BY <2>1, <3>1
  <2> QED BY <2>2, <2>3
<1> QED
  BY <1>1, <1>2, <1>4, <1>5, CalmFrame DEF Others, Free, CalmInv

\* A restart brings back timeshifts that were saved.
LEMMA CrashCalm ==
    ASSUME RegInv, CalmInv, CrashRestore \/ CrashEmpty
    PROVE  CalmInv'
<1>1. PICK data \in {store.data, {}} : Restart(data)
  BY DEF CrashRestore, CrashEmpty
<1>2. data \in SUBSET Timeshift /\ DataInv(data, pages, Len(objs)) /\ \A s \in data : Fine(s)
  BY DEF RegInv, HandleInv, TypeOK, DataInv, CalmInv
<1>3. /\ store' = store /\ \A t \in Threads : thr'[t] = Idle
      /\ \A id \in registry' : objs'[id] \in data
  BY <1>1, <1>2, Restored
<1>4. UNCHANGED <<up, inc>>
  BY <1>1 DEF Restart, clusterVars
<1>5. CalmLocal(Idle) /\ AtRest(Idle) /\ Idle.pc = "idle"
  BY DEF CalmLocal, AtRest, Idle, Collect
<1>6. \A t \in Threads : CalmLocal(thr'[t]) /\ AtRest(thr'[t]) /\ thr'[t].pc = "idle"
  BY <1>3, <1>5
<1> QED
  BY <1>2, <1>3, <1>4, <1>6 DEF CalmInv, Fine, CalmLocal, AtRest, Threads

\* What a pod watcher that has nothing to do leaves alone.
Bystands(t) ==
    /\ Others(t) /\ UNCHANGED <<clusterVars, objs, registry, store, gauge, used>>
    /\ thr'[t].pc \notin Collect /\ thr'[t].data \in {{}, thr[t].data}

\* The pod watcher finds all containers of a pod tracked.
LEMMA WatcherRests ==
    ASSUME WatchersRest, RegInv, CalmInv, NEW t \in Watchers,
           WatcherStep(t) \/ \E p \in Pods : WatchReceive(t, p)
    PROVE  Bystands(t) /\ CalmInv'
<1>1. /\ t \in Threads /\ Steady /\ AtRest(thr[t]) /\ CalmLocal(thr[t])
      /\ thr \in [Threads -> Thread] /\ thr[t] \in Thread
      /\ t \notin Sweepers
  BY Facts, ThreadAssumption DEF Threads, WatchersRest, CalmInv, RegInv
<1>2. CalmLocal(Idle) /\ AtRest(Idle) /\ Idle.pc = "idle" /\ Idle.data = {}
  BY DEF CalmLocal, AtRest, Idle, Collect
<1>3. ASSUME NEW p \in Pods, WatchReceive(t, p) PROVE Bystands(t) /\ CalmInv'
  <2> DEFINE l == [Idle EXCEPT !.pc = "match", !.op = "watch", !.sel = {p}, !.list = RunningIn({p})]
  <2>1. thr' = [thr EXCEPT ![t] = l] /\ UNCHANGED <<clusterVars, objs, registry, store, gauge, used>>
    BY <1>3 DEF WatchReceive
  <2>2. /\ l.pc = "match" /\ l.sel = {p} /\ l.list = RunningIn({p}) /\ l.data = {}
        /\ l.cut = FALSE /\ l.ttl = FALSE
    BY DEF Idle
  <2> HIDE DEF l
  <2>3. CalmLocal(l) /\ AtRest(l)
    BY <1>1, <2>2, SteadyList DEF CalmLocal, AtRest, Collect
  <2>4. Others(t) /\ thr'[t] = l
    BY <1>1, <2>1 DEF Others
  <2>5. Bystands(t)
    BY <2>1, <2>2, <2>4 DEF Bystands, Collect
  <2> QED BY <1>1, <2>1, <2>3, <2>4, <2>5, CalmFrame DEF CalmInv, clusterVars
<1>4. CASE WatchMatch(t)
  <2>1. thr[t].pc = "match"
    BY <1>4 DEF WatchMatch
  <2>2. ASSUME NEW id \in registry, thr[t].sel \subseteq objs[id].sel PROVE AllContainersHandled(objs[id], thr[t].list)
    <3> SUFFICES ASSUME NEW d \in thr[t].list
                 PROVE  d \in {[c |-> h.c, inc |-> h.inc] : h \in Entries(objs[id].handles)}
      BY DEF AllContainersHandled
    <3>1. d = First(d.c) /\ d.c \in Containers /\ PodOf[d.c] \in objs[id].sel
      BY <1>1, <2>1, <2>2 DEF AtRest
    <3>2. PICK j \in 1 .. Len(objs[id].handles) : objs[id].handles[j].c = d.c /\ objs[id].handles[j].inc = 0
      BY <1>1, <3>1 DEF CalmInv, Fine, HasEntry
    <3>3. objs[id] \in Timeshift
      BY <1>1, Facts, ElementOfSeq DEF RegInv
    <3>4. objs[id].handles[j] \in Entries(objs[id].handles)
      BY <3>2, <3>3, LenProperties DEF Timeshift, Entries
    <3> QED BY <3>1, <3>2, <3>4 DEF First
  <2>3. MatchesOf(thr[t]) = {}
    BY <2>2 DEF MatchesOf
  <2>4. thr' = [thr EXCEPT ![t] = Idle] /\ UNCHANGED <<clusterVars, objs, registry, store, gauge, used>>
    BY <1>4, <2>3 DEF WatchMatch
  <2>5. Others(t) /\ thr'[t] = Idle
    BY <1>1, <2>4 DEF Others
  <2>6. Bystands(t)
    BY <1>2, <2>4, <2>5 DEF Bystands, Collect
  <2> QED BY <1>1, <1>2, <2>4, <2>5, <2>6, CalmFrame DEF CalmInv, clusterVars
<1>5. ~WatchDone(t) /\ ~WatchApply(t) /\ ~InjectPod(t) /\ \A m : ~WatchNext(t, m)
  BY <1>1 DEF AtRest, WatchDone, WatchApply, InjectPod, InjectOk, InjectErr, InjectLost, WatchNext
<1> QED
  BY <1>3, <1>4, <1>5 DEF WatcherStep

\* Without a TTL the sweeper has nothing to do.
LEMMA SweeperRests ==
    ASSUME Untimed, CalmInv, NEW t \in Sweepers
    PROVE  ~SweeperStep(t)
<1>1. thr[t].pc = "idle"
  BY DEF CalmInv
<1>2. Overdue = {}
  BY DEF Overdue, CalmInv, Fine
<1> QED
  BY <1>1, <1>2 DEF SweeperStep, SweepRemove, SweepDone, SweepNext, Persist, Encode, FlushGet, FlushPut, FlushErr,
                    ResetHandles, ResetOk, ResetErr, ResetDone, AtReset

\* Containers and agents.
LEMMA ClusterCalm ==
    ASSUME CalmInv, ClusterNext, UNCHANGED ctlVars
    PROVE  CalmInv'
<1>1. ASSUME Steady PROVE UNCHANGED <<up, inc>>
  <2>1. \A c \in Containers : ~ContainerStop(c) /\ ~ContainerStart(c)
    BY <1>1 DEF CalmInv, Steady, ContainerStop, ContainerStart
  <2> QED BY <2>1 DEF ClusterNext, AgentCrash, AgentShutdown
<1>2. UNCHANGED <<objs, registry, store, thr>>
  BY DEF ctlVars
<1> QED
  BY <1>1, <1>2 DEF CalmInv, Fine, CalmLocal, AtRest

\* Handlers.
LEMMA WorkerCalm ==
    ASSUME RegInv, CalmInv, NEW t \in Workers, NewRequest(t) \/ WorkerStep(t) \/ ClientGone(t)
    PROVE  CalmInv'
<1>1. t \in Threads /\ Free(t)
  BY ThreadAssumption DEF Threads, Free
<1>2. CASE NewRequest(t)
  BY <1>1, <1>2, CreateCalm, StartAside, AsideCalm DEF NewRequest
<1>3. CASE WorkerStep(t)
  <2>1. ASSUME Persist(t) PROVE CalmInv'
    BY <1>1, <2>1, PersistCalm, WayAside, EndAside, AsideCalm DEF Persist
  <2>2. ASSUME ResetHandles(t) \/ CreateNone(t) PROVE CalmInv'
    BY <1>1, <2>2, WayAside, EndAside, AsideCalm DEF ResetHandles
  <2>3. ASSUME CreateCheck(t) \/ CreateRegister(t) \/ UpdateApply(t) \/ InjectPod(t) PROVE CalmInv'
    BY <1>1, <2>3, CheckCalm, RegisterCalm, UpdateCalm, InjectCalm
  <2>4. ASSUME \/ GaugeInc(t) \/ AdvanceUpdate(t) \/ GaugeDec(t)
               \/ SetTimeOk(t) \/ SetTimeErr(t) \/ SetTimeLost(t) \/ SetTimeNotFound(t)
               \/ ReinjectOk(t) \/ ReinjectErr(t) \/ ReinjectLost(t)
        PROVE  CalmInv'
    BY <1>1, <2>4, WayAside, AsideCalm
  <2> QED BY <1>3, <2>1, <2>2, <2>3, <2>4 DEF WorkerStep
<1>4. CASE ClientGone(t)
  BY <1>1, <1>4, GoneCalm
<1> QED
  BY <1>2, <1>3, <1>4

\* Every step.
LEMMA NextCalm ==
    ASSUME WatchersRest, RegInv, CalmInv, [Next]_vars
    PROVE  CalmInv'
<1>1. ASSUME NEW t \in Workers, NewRequest(t) \/ WorkerStep(t) PROVE CalmInv'
  BY <1>1, WorkerCalm
<1>2. ASSUME NEW t \in Sweepers, SweeperStep(t) PROVE CalmInv'
  <2>1. t \in Threads /\ Free(t)
    BY <1>2, SweeperRests, ThreadAssumption DEF Threads, Free
  <2> QED BY <1>2, <2>1, PersistCalm, WayAside, EndAside, AsideCalm DEF SweeperStep, Persist, ResetHandles
<1>3. ASSUME NEW t \in Watchers, WatcherStep(t) \/ \E p \in Pods : WatchReceive(t, p) PROVE CalmInv'
  BY <1>3, WatcherRests
<1>4. CASE Environment
  <2>1. ASSUME NEW id, Expire(id) PROVE CalmInv'
    BY <2>1 DEF Expire, clusterVars, CalmInv, Fine, CalmLocal, AtRest
  <2> QED BY <1>4, <2>1, WorkerCalm, CrashCalm, ClusterCalm DEF Environment
<1>5. CASE UNCHANGED vars
  BY <1>5 DEF vars, ctlVars, clusterVars, CalmInv, Fine, CalmLocal, AtRest
<1> QED
  BY <1>1, <1>2, <1>3, <1>4, <1>5 DEF Next

\* The invariant of the calm controller.
LEMMA CalmInvariance ==
    ASSUME WatchersRest
    PROVE  Spec => []CalmInv
<1>1. Init => CalmInv
  BY DEF Init, ClusterInit, CalmInv, CalmLocal, AtRest, Idle, Collect, Threads
<1>2. RegInv /\ CalmInv /\ [Next]_vars => CalmInv'
  BY NextCalm
<1> QED
  BY <1>1, <1>2, RegInvariance, PTL DEF Spec

(***************************************************************************)
(* One handler.                                                            *)
(***************************************************************************)
\* Requests are handled one at a time, beside any number of sweepers, and the pod
\* watcher has nothing to do.
OneHandler == WatchersRest /\ \A t, u \in Workers : t = u

\* No container has an entry in both.
Apart(hs, gs) == \A i \in 1 .. Len(hs), j \in 1 .. Len(gs) : hs[i].c # gs[j].c

ApartData(data) == \A r, s \in data : r.id # s.id => Apart(r.handles, s.handles)

\* The containers that a create has injected, or has still to, are free.
FreeInv(l, reg, os) ==
    /\ l.pc = "check" => l.hs = <<>>
    /\ l.pc = "inject" =>
          \A id \in reg : /\ Apart(l.hs, os[id].handles)
                          /\ \A d \in l.todo : \A j \in 1 .. Len(os[id].handles) : os[id].handles[j].c # d.c

OverlapInv ==
    /\ \A a, b \in registry : a # b => Apart(objs[a].handles, objs[b].handles)
    /\ ApartData(store.data)
    /\ \A t \in Threads : ApartData(thr[t].data)
    /\ \A t \in Workers : FreeInv(thr[t], registry, objs)

\* The registry may shrink, and the entries keep their containers.
SameContainers(hs, gs) == Len(hs) = Len(gs) /\ \A j \in 1 .. Len(gs) : hs[j].c = gs[j].c

Kept ==
    /\ registry' \subseteq registry
    /\ \A id \in registry' : SameContainers(objs'[id].handles, objs[id].handles)

\* What was free stays free.
LEMMA FreeKept ==
    ASSUME Kept, NEW l, FreeInv(l, registry, objs)
    PROVE  FreeInv(l, registry', objs')
<1> SUFFICES ASSUME l.pc = "inject", NEW id \in registry'
             PROVE  /\ Apart(l.hs, objs'[id].handles)
                    /\ \A d \in l.todo : \A j \in 1 .. Len(objs'[id].handles) : objs'[id].handles[j].c # d.c
  BY DEF FreeInv
<1>1. id \in registry /\ SameContainers(objs'[id].handles, objs[id].handles)
  BY DEF Kept
<1>2. /\ Apart(l.hs, objs[id].handles)
      /\ \A d \in l.todo : \A j \in 1 .. Len(objs[id].handles) : objs[id].handles[j].c # d.c
  BY <1>1 DEF FreeInv
<1> QED
  BY <1>1, <1>2 DEF SameContainers, Apart

\* The frame of the steps that add no timeshift.
LEMMA OverlapFrame ==
    ASSUME OverlapInv, NEW t \in Threads, Others(t), Kept, ApartData(store'.data), ApartData(thr'[t].data),
           FreeInv(thr'[t], registry, objs)
    PROVE  OverlapInv'
<1>1. ASSUME NEW a \in registry', NEW b \in registry', a # b PROVE Apart(objs'[a].handles, objs'[b].handles)
  <2>1. a \in registry /\ b \in registry /\ Apart(objs[a].handles, objs[b].handles)
    BY <1>1 DEF Kept, OverlapInv
  <2>2. SameContainers(objs'[a].handles, objs[a].handles) /\ SameContainers(objs'[b].handles, objs[b].handles)
    BY DEF Kept
  <2> QED BY <2>1, <2>2 DEF SameContainers, Apart
<1>2. \A u \in Threads : ApartData(thr'[u].data)
  BY DEF OverlapInv, Others
<1>3. ASSUME NEW u \in Workers PROVE FreeInv(thr'[u], registry', objs')
  <2>1. FreeInv(thr'[u], registry, objs)
    <3>1. u \in Threads
      BY DEF Threads
    <3> QED BY <3>1 DEF OverlapInv, Others
  <2> QED BY <2>1, FreeKept
<1> QED
  BY <1>1, <1>2, <1>3 DEF OverlapInv, Apart, ApartData, FreeInv

\* A plain step keeps what NoOverlap rests on.
LEMMA PlainOverlap ==
    ASSUME OverlapInv, NEW t \in Threads, Plain(t), t \in Workers \/ thr'[t].pc \notin {"check", "inject"}
    PROVE  OverlapInv'
<1>1. Kept
  BY DEF Plain, Kept, SameContainers
<1>2. ApartData(store'.data) /\ ApartData(thr'[t].data)
  BY DEF Plain, Narrow, OverlapInv, ApartData
<1>3. FreeInv(thr'[t], registry, objs)
  <2>1. CASE thr'[t].pc \notin {"check", "inject"}
    BY <2>1 DEF FreeInv
  <2>2. CASE t \in Workers /\ thr'[t].pc = "check"
    BY <2>2 DEF Plain, Narrow, FreeInv, OverlapInv
  <2>3. CASE t \in Workers /\ thr'[t].pc = "inject"
    <3>1. thr[t].pc = "inject" /\ thr'[t].hs = thr[t].hs /\ thr'[t].todo \subseteq thr[t].todo
      BY <2>3 DEF Plain, Narrow
    <3>2. FreeInv(thr[t], registry, objs)
      BY <2>3 DEF OverlapInv
    <3> QED BY <2>3, <3>1, <3>2 DEF FreeInv
  <2> QED BY <2>1, <2>2, <2>3
<1> QED
  BY <1>1, <1>2, <1>3, OverlapFrame DEF Plain

\* The conflict check lets through containers that no timeshift has.
LEMMA CreateCheckOverlap ==
    ASSUME RegInv, OverlapInv, NEW t \in Workers, CreateCheck(t)
    PROVE  OverlapInv'
<1> DEFINE l == [thr[t] EXCEPT !.pc = "inject"]
<1>1. t \in Threads /\ thr[t] \in Thread /\ thr \in [Threads -> Thread] /\ thr[t].pc = "check" /\ thr[t].hs = <<>>
  BY Facts DEF RegInv, CreateCheck, OverlapInv, FreeInv, Threads
<1>2. UNCHANGED <<objs, registry, store>>
  BY DEF CreateCheck
<1>3. CASE thr' = [thr EXCEPT ![t] = Idle]
  <2>1. Plain(t)
    BY <1>1, <1>2, <1>3 DEF Plain, Others, Narrow, Idle
  <2> QED BY <1>1, <2>1, PlainOverlap
<1>4. CASE thr' = [thr EXCEPT ![t] = l] /\ ~ \E cid \in thr[t].todo : cid.c \in OccupiedContainers
  <2>1. l.pc = "inject" /\ l.hs = <<>> /\ l.todo = thr[t].todo /\ l.data = thr[t].data
    BY <1>1 DEF Thread
  <2> HIDE DEF l
  <2>2. thr'[t] = l /\ Others(t)
    BY <1>1, <1>4 DEF Others
  <2>3. ASSUME NEW id \in registry, NEW d \in l.todo, NEW j \in 1 .. Len(objs[id].handles)
        PROVE  objs[id].handles[j].c # d.c
    <3>1. DOMAIN objs[id].handles = 1 .. Len(objs[id].handles)
      <4>1. objs[id] \in Timeshift
        BY Facts, <1>1, ElementOfSeq DEF RegInv
      <4> QED BY <4>1, LenProperties DEF Timeshift
    <3>2. objs[id].handles[j].c \in OccupiedContainers
      BY <3>1 DEF OccupiedContainers, Entries
    <3> QED BY <1>4, <2>1, <3>2
  <2>4. FreeInv(l, registry, objs)
    BY <2>1, <2>3 DEF FreeInv, Apart
  <2>5. ApartData(store'.data) /\ ApartData(l.data) /\ Kept
    BY <1>1, <1>2, <2>1 DEF OverlapInv, Kept, SameContainers
  <2> QED BY <1>1, <2>2, <2>4, <2>5, OverlapFrame
<1> QED
  BY <1>1, <1>3, <1>4 DEF CreateCheck

\* A new handle is for a container that was free.
LEMMA InjectOkOverlap ==
    ASSUME RegInv, OverlapInv, NEW t \in Workers, NEW cid \in thr[t].todo, InjectOk(t, cid)
    PROVE  OverlapInv'
<1> DEFINE e == [c |-> cid.c, inc |-> cid.inc, h |-> NewHandle]
           l == [thr[t] EXCEPT !.todo = @ \ {cid}, !.hs = Append(@, e)]
<1>1. /\ t \in Threads /\ thr[t] \in Thread /\ thr \in [Threads -> Thread] /\ thr[t].pc = "inject"
      /\ thr[t].hs \in Seq(ContainerHandle)
  BY Facts DEF RegInv, InjectOk, Threads, Thread
<1>2. thr' = [thr EXCEPT ![t] = l] /\ UNCHANGED <<objs, registry, store>> /\ e.c = cid.c
  BY <1>1 DEF InjectOk
<1> HIDE DEF e
<1>3. l.pc = "inject" /\ l.hs = Append(thr[t].hs, e) /\ l.todo = thr[t].todo \ {cid} /\ l.data = thr[t].data
  BY <1>1 DEF Thread
<1> HIDE DEF l
<1>4. thr'[t] = l /\ Others(t)
  BY <1>1, <1>2 DEF Others
<1>5. FreeInv(thr[t], registry, objs)
  BY DEF OverlapInv
<1>6. \A j \in 1 .. Len(l.hs) : l.hs[j] = e \/ (j \in 1 .. Len(thr[t].hs) /\ l.hs[j] = thr[t].hs[j])
  BY <1>1, <1>3
<1>7. FreeInv(l, registry, objs)
  BY <1>1, <1>2, <1>3, <1>5, <1>6 DEF FreeInv, Apart
<1>8. ApartData(store'.data) /\ ApartData(l.data) /\ Kept
  BY <1>1, <1>2, <1>3 DEF OverlapInv, Kept, SameContainers
<1> QED
  BY <1>1, <1>4, <1>7, <1>8, OverlapFrame

\* A create registers containers that are free: nobody else registers any.
LEMMA CreateRegisterOverlap ==
    ASSUME OneHandler, RegInv, OverlapInv, NEW t \in Workers, CreateRegister(t)
    PROVE  OverlapInv'
<1> DEFINE n == Len(objs) + 1
           s == [id |-> n, sel |-> thr[t].sel, clock |-> thr[t].clock,
                 ttl |-> thr[t].ttl, handles |-> thr[t].hs]
           l == [thr[t] EXCEPT !.pc = "inc", !.id = n]
<1>1. /\ t \in Threads /\ thr[t] \in Thread /\ thr \in [Threads -> Thread] /\ thr[t].pc = "inject"
      /\ objs \in Seq(Timeshift) /\ Len(objs) \in Nat /\ registry \subseteq 1 .. Len(objs)
  BY Facts DEF RegInv, CreateRegister, Threads
<1>2. /\ thr' = [thr EXCEPT ![t] = l] /\ store' = store
      /\ objs' = Append(objs, s) /\ registry' = registry \union {n} /\ s.handles = thr[t].hs
  BY <1>1 DEF CreateRegister
<1>3. l.pc = "inc" /\ l.data = thr[t].data
  BY <1>1 DEF Thread
<1> HIDE DEF s, l
<1>4. thr'[t] = l /\ Others(t)
  BY <1>1, <1>2 DEF Others
<1>5. objs'[n] = s /\ n \notin registry /\ \A id \in registry : objs'[id] = objs[id]
  BY <1>1, <1>2
<1> HIDE DEF n
<1>6. \A id \in registry : Apart(thr[t].hs, objs[id].handles)
  BY <1>1 DEF OverlapInv, FreeInv
<1>7. ASSUME NEW a \in registry', NEW b \in registry', a # b PROVE Apart(objs'[a].handles, objs'[b].handles)
  <2>1. (a = n \/ a \in registry) /\ (b = n \/ b \in registry)
    BY <1>2
  <2>2. CASE a \in registry /\ b \in registry
    BY <1>5, <1>7, <2>2 DEF OverlapInv
  <2>3. CASE a = n /\ b \in registry
    <3>1. objs'[a].handles = thr[t].hs /\ objs'[b].handles = objs[b].handles
      BY <1>2, <1>5, <2>3
    <3> QED BY <1>6, <2>3, <3>1
  <2>4. CASE a \in registry /\ b = n
    <3>1. objs'[b].handles = thr[t].hs /\ objs'[a].handles = objs[a].handles
      BY <1>2, <1>5, <2>4
    <3> QED BY <1>6, <2>4, <3>1 DEF Apart
  <2> QED BY <1>7, <2>1, <2>2, <2>3, <2>4
<1>8. \A u \in Threads : ApartData(thr'[u].data)
  BY <1>3, <1>4 DEF OverlapInv, Others
<1>9. \A u \in Workers : FreeInv(thr'[u], registry', objs')
  BY <1>3, <1>4 DEF OneHandler, FreeInv
<1> QED
  BY <1>2, <1>7, <1>8, <1>9 DEF OverlapInv, Apart, ApartData, FreeInv

\* persist encodes timeshifts without a container in common, and saves them.
LEMMA PersistOverlap ==
    ASSUME RegInv, OverlapInv, NEW t \in Threads, Encode(t) \/ FlushPut(t)
    PROVE  OverlapInv'
<1>1. /\ thr[t] \in Thread /\ thr \in [Threads -> Thread] /\ HandleInv /\ registry \subseteq 1 .. Len(objs)
  BY Facts DEF RegInv
<1>2. CASE Encode(t)
  <2> DEFINE data == {objs[id] : id \in registry}
             l == [thr[t] EXCEPT !.pc = "get", !.data = data]
  <2>1. thr' = [thr EXCEPT ![t] = l] /\ UNCHANGED <<objs, registry, store>>
    BY <1>1, <1>2 DEF Encode
  <2>2. l.pc = "get" /\ l.data = data
    BY <1>1 DEF Thread
  <2>3. ApartData(data)
    <3> SUFFICES ASSUME NEW a \in registry, NEW b \in registry, objs[a].id # objs[b].id
                 PROVE  Apart(objs[a].handles, objs[b].handles)
      BY DEF ApartData
    <3> QED BY DEF OverlapInv
  <2> HIDE DEF l
  <2>4. thr'[t] = l /\ Others(t)
    BY <1>1, <2>1 DEF Others
  <2> QED BY <2>1, <2>2, <2>3, <2>4, OverlapFrame DEF OverlapInv, Kept, SameContainers, FreeInv
<1>3. CASE FlushPut(t)
  <2>1. /\ thr' = [thr EXCEPT ![t] = AfterPersist(thr[t])] /\ UNCHANGED <<objs, registry>>
        /\ store'.data = thr[t].data
    BY <1>3 DEF FlushPut
  <2>2. Narrow(thr[t], AfterPersist(thr[t])) /\ AfterPersist(thr[t]).pc \notin {"check", "inject"}
    BY <1>1 DEF AfterPersist, Narrow, Idle, Thread
  <2>3. thr'[t] = AfterPersist(thr[t]) /\ Others(t)
    BY <1>1, <2>1 DEF Others
  <2>4. ApartData(thr'[t].data) /\ ApartData(store'.data)
    BY <2>1, <2>2, <2>3 DEF Narrow, OverlapInv, ApartData
  <2>5. Kept /\ FreeInv(thr'[t], registry, objs)
    BY <2>1, <2>2, <2>3 DEF Kept, SameContainers, FreeInv
  <2> QED BY <2>3, <2>4, <2>5, OverlapFrame
<1> QED
  BY <1>2, <1>3

\* An update files handles under the entries there are.
LEMMA UpdateApplyOverlap ==
    ASSUME RegInv, OverlapInv, NEW t \in Threads, UpdateApply(t)
    PROVE  OverlapInv'
<1> DEFINE l == [thr[t] EXCEPT !.pc = "encode", !.hs = <<>>, !.upd = {}]
<1>1. /\ thr[t] \in Thread /\ thr \in [Threads -> Thread] /\ objs \in Seq(Timeshift)
      /\ registry \subseteq 1 .. Len(objs)
  BY Facts DEF RegInv
<1>2. thr' = [thr EXCEPT ![t] = l] /\ UNCHANGED <<registry, store>>
  BY <1>1 DEF UpdateApply
<1>3. l.pc = "encode" /\ l.data = thr[t].data
  BY <1>1 DEF Thread
<1> HIDE DEF l
<1>4. thr'[t] = l /\ Others(t)
  BY <1>1, <1>2 DEF Others
<1>5. ASSUME NEW id \in registry PROVE SameContainers(objs'[id].handles, objs[id].handles)
  <2>1. objs[id].handles \in Seq(ContainerHandle) /\ id \in 1 .. Len(objs)
    <3>1. id \in 1 .. Len(objs) /\ objs[id] \in Timeshift
      BY <1>1, ElementOfSeq
    <3> QED BY <3>1 DEF Timeshift
  <2>2. CASE id = thr[t].id
    <3>1. objs'[id].handles = Refreshed(objs[id].handles, thr[t].hs, thr[t].upd)
      BY <2>1, <2>2, Applied
    <3> QED BY <2>1, <3>1, RefreshedEntries DEF SameContainers
  <2>3. CASE id # thr[t].id
    <3>1. objs'[id] = objs[id]
      BY <2>1, <2>3, Applied
    <3> QED BY <3>1 DEF SameContainers
  <2> QED BY <2>2, <2>3
<1>6. Kept
  BY <1>2, <1>5 DEF Kept
<1>7. ApartData(store'.data) /\ ApartData(thr'[t].data) /\ FreeInv(thr'[t], registry, objs)
  BY <1>2, <1>3, <1>4 DEF OverlapInv, FreeInv
<1> QED
  BY <1>4, <1>6, <1>7, OverlapFrame

\* A restart brings back a registry as it was saved.
LEMMA CrashOverlap ==
    ASSUME RegInv, OverlapInv, CrashRestore \/ CrashEmpty
    PROVE  OverlapInv'
<1>1. PICK data \in {store.data, {}} : Restart(data)
  BY DEF CrashRestore, CrashEmpty
<1>2. data \in SUBSET Timeshift /\ DataInv(data, pages, Len(objs)) /\ ApartData(data)
  BY DEF RegInv, HandleInv, TypeOK, DataInv, OverlapInv, ApartData
<1>3. /\ store' = store /\ \A t \in Threads : thr'[t] = Idle
      /\ \A id \in registry' : objs'[id] \in data /\ objs'[id].id = id
  BY <1>1, <1>2, Restored
<1>4. \A a, b \in registry' : a # b => Apart(objs'[a].handles, objs'[b].handles)
  BY <1>2, <1>3 DEF ApartData
<1>5. \A t \in Threads : ApartData(thr'[t].data) /\ FreeInv(thr'[t], registry', objs')
  BY <1>3 DEF Idle, ApartData, FreeInv
<1>6. \A t \in Workers : FreeInv(thr'[t], registry', objs')
  BY <1>5 DEF Threads
<1> QED
  BY <1>3, <1>4, <1>5, <1>6 DEF OverlapInv, Apart, ApartData, FreeInv

\* So does a step aside.
LEMMA AsideOverlap ==
    ASSUME OverlapInv, NEW t \in Threads, Aside(t)
    PROVE  OverlapInv'
BY PlainOverlap DEF Aside, Collect

\* A pod watcher that has nothing to do.
LEMMA BystanderOverlap ==
    ASSUME OverlapInv, NEW t \in Threads, Bystands(t)
    PROVE  OverlapInv'
<1>1. Kept /\ ApartData(store'.data)
  BY DEF Bystands, Kept, SameContainers, OverlapInv
<1>2. ApartData(thr'[t].data) /\ FreeInv(thr'[t], registry, objs)
  BY DEF Bystands, OverlapInv, ApartData, FreeInv, Collect
<1> QED
  BY <1>1, <1>2, OverlapFrame DEF Bystands

\* Every step keeps the containers of the timeshifts apart.
LEMMA NextOverlap ==
    ASSUME OneHandler, RegInv, CalmInv, OverlapInv, [Next]_vars
    PROVE  OverlapInv'
<1>1. ASSUME NEW t \in Workers, NewRequest(t) PROVE OverlapInv'
  <2>1. t \in Threads
    BY DEF Threads
  <2> QED BY <1>1, <2>1, CreatePlain, PlainOverlap, StartAside, AsideOverlap DEF NewRequest
<1>2. ASSUME NEW t \in Workers, WorkerStep(t) PROVE OverlapInv'
  <2>1. t \in Threads
    BY DEF Threads
  <2>2. ASSUME InjectPod(t) PROVE OverlapInv'
    <3>1. ASSUME NEW cid \in thr[t].todo, InjectErr(t, cid) \/ InjectLost(t, cid) PROVE OverlapInv'
      BY <2>1, <3>1, LossPlain, PlainOverlap
    <3> QED BY <2>2, <3>1, InjectOkOverlap DEF InjectPod
  <2>3. ASSUME Persist(t) PROVE OverlapInv'
    BY <2>1, <2>3, PersistOverlap, WayAside, EndAside, AsideOverlap DEF Persist
  <2>4. ASSUME ResetHandles(t) \/ CreateNone(t) PROVE OverlapInv'
    BY <2>1, <2>4, WayAside, EndAside, AsideOverlap DEF ResetHandles
  <2>5. ASSUME CreateCheck(t) \/ CreateRegister(t) \/ UpdateApply(t) PROVE OverlapInv'
    BY <2>1, <2>5, CreateCheckOverlap, CreateRegisterOverlap, UpdateApplyOverlap
  <2>6. ASSUME \/ GaugeInc(t) \/ AdvanceUpdate(t) \/ GaugeDec(t)
               \/ SetTimeOk(t) \/ SetTimeErr(t) \/ SetTimeLost(t) \/ SetTimeNotFound(t)
               \/ ReinjectOk(t) \/ ReinjectErr(t) \/ ReinjectLost(t)
        PROVE  OverlapInv'
    BY <2>1, <2>6, WayAside, AsideOverlap
  <2> QED BY <1>2, <2>2, <2>3, <2>4, <2>5, <2>6 DEF WorkerStep
<1>3. ASSUME NEW t \in Sweepers, SweeperStep(t) PROVE OverlapInv'
  <2>1. t \in Threads
    BY DEF Threads
  <2> QED BY <1>3, <2>1, PersistOverlap, WayAside, EndAside, AsideOverlap DEF SweeperStep, Persist, ResetHandles
<1>4. ASSUME NEW t \in Watchers, WatcherStep(t) \/ \E p \in Pods : WatchReceive(t, p) PROVE OverlapInv'
  <2>1. t \in Threads /\ WatchersRest
    BY DEF Threads, OneHandler
  <2> QED BY <1>4, <2>1, WatcherRests, BystanderOverlap
<1>5. CASE Environment
  <2>1. ASSUME NEW t \in Workers, ClientGone(t) PROVE OverlapInv'
    <3>1. t \in Threads
      BY DEF Threads
    <3> QED BY <2>1, <3>1, LossPlain, PlainOverlap
  <2>2. ASSUME UNCHANGED <<objs, registry, thr, store>> PROVE OverlapInv'
    BY <2>2 DEF OverlapInv, Apart, ApartData, FreeInv
  <2>3. ASSUME NEW id, Expire(id) PROVE OverlapInv'
    BY <2>2, <2>3 DEF Expire
  <2>4. ASSUME ClusterNext /\ UNCHANGED ctlVars PROVE OverlapInv'
    BY <2>2, <2>4 DEF ctlVars
  <2> QED BY <1>5, <2>1, <2>3, <2>4, CrashOverlap DEF Environment
<1>6. CASE UNCHANGED vars
  BY <1>6 DEF vars, ctlVars, OverlapInv, Apart, ApartData, FreeInv
<1> QED
  BY <1>1, <1>2, <1>3, <1>4, <1>5, <1>6 DEF Next

\* Requests that are handled one at a time never claim a container twice, however
\* they interleave with the TTL sweeper and whatever fails: what the conflict check
\* has found free stays free until the timeshift is registered, and the ConfigMap
\* holds only registries that were so.  Where the pod watcher runs, the theorem asks
\* that no container restarts, no call fails and no client gives up: the watcher
\* then finds every container tracked.  Otherwise it may inject a container for a
\* timeshift without the conflict check, and the statement is false.
THEOREM NoOverlapHolds ==
    ASSUME OneHandler
    PROVE  Spec => []NoOverlap
<1>1. Init => OverlapInv
  BY DEF Init, OverlapInv, ApartData, FreeInv, Idle, Threads
<1>2. RegInv /\ CalmInv /\ OverlapInv /\ [Next]_vars => OverlapInv'
  BY NextOverlap
<1>3. ASSUME RegInv, OverlapInv PROVE NoOverlap
  <2> SUFFICES ASSUME NEW a \in registry, NEW b \in registry, a # b,
                      NEW e \in Entries(objs[a].handles), NEW f \in Entries(objs[b].handles)
               PROVE  e.c # f.c
    BY DEF NoOverlap
  <2>1. Apart(objs[a].handles, objs[b].handles)
    BY <1>3 DEF OverlapInv
  <2>2. objs[a] \in Timeshift /\ objs[b] \in Timeshift
    BY <1>3, ElementOfSeq DEF RegInv, HandleInv, TypeOK
  <2>3. DOMAIN objs[a].handles = 1 .. Len(objs[a].handles) /\ DOMAIN objs[b].handles = 1 .. Len(objs[b].handles)
    BY <2>2, LenProperties DEF Timeshift
  <2> QED BY <2>1, <2>3 DEF Entries, Apart
<1>4. Spec => []CalmInv
  BY CalmInvariance DEF OneHandler
<1> QED
  BY <1>1, <1>2, <1>3, <1>4, RegInvariance, PTL DEF Spec

(***************************************************************************)
(* One client, and no call fails.                                          *)
(***************************************************************************)
\* One client, whose calls do not fail and who waits for the answers, beside a
\* sweeper and a pod watcher that run and have nothing to do.
OneClient ==
    /\ \E t : Workers = {t}
    /\ MaxFaults = 0 /\ ~ClientsGiveUp
    /\ Sweepers = {} \/ Untimed
    /\ Watchers = {} \/ MaxRestarts = 0

\* The one handler and its request.
Client == CHOOSE t \in Workers : TRUE
Job == thr[Client]

Filed == {objs[id] : id \in registry}

OneOfEach(data) == \A r, s \in data : r.id = s.id => r = s

\* From a change of the registry to the end of persist, the ConfigMap is behind.
Unsafe == {"inc", "dec", "encode"} \union SavePC

StoreInv ==
    /\ ~Job.cut
    /\ OneOfEach(store.data) /\ OneOfEach(Job.data)
    /\ Job.pc \notin Unsafe => store.data = Filed
    /\ Job.pc \in SavePC => Job.data = Filed
    /\ Job.pc = "cmCreate" => ~store.exists

\* The only handler is the one worker, and its locals are in order.
LEMMA OneJob ==
    ASSUME OneClient, RegInv
    PROVE  /\ Workers = {Client} /\ Client \in Threads
           /\ Job \in Thread /\ thr \in [Threads -> Thread]
           /\ HandleInv /\ ThreadInv(Job, pages, Len(objs))
<1>1. Workers = {Client}
  BY DEF OneClient, Client
<1>2. Client \in Threads
  BY <1>1 DEF Threads
<1> QED
  BY <1>1, <1>2, Facts DEF RegInv, Job

\* The sweeper and the pod watcher leave everything to the client.
LEMMA OthersRest ==
    ASSUME OneClient, RegInv, CalmInv,
           \/ \E t \in Sweepers : SweeperStep(t)
           \/ \E t \in Watchers : WatcherStep(t) \/ \E p \in Pods : WatchReceive(t, p)
    PROVE  UNCHANGED <<clusterVars, objs, registry, store, used, Job>>
<1>1. ~ \E t \in Sweepers : SweeperStep(t)
  BY SweeperRests DEF OneClient
<1>2. PICK t \in Watchers : WatcherStep(t) \/ \E p \in Pods : WatchReceive(t, p)
  BY <1>1
<1>3. WatchersRest
  BY DEF OneClient, WatchersRest, Steady
<1>4. Bystands(t)
  BY <1>2, <1>3, WatcherRests
<1>5. Client \in Threads /\ Client # t
  BY OneJob, ThreadAssumption
<1> QED
  BY <1>4, <1>5 DEF Bystands, Others, Job

\* There is no fault left to happen, and the client does not go away.
LEMMA NoFault ==
    ASSUME OneClient, RegInv, StoreInv
    PROVE  ~(used.faults < MaxFaults) /\ ~CallFails(Client)
<1>1. used.faults \in Nat
  BY DEF RegInv, HandleInv, TypeOK
<1>2. ~(used.faults < MaxFaults)
  BY <1>1 DEF OneClient
<1> QED
  BY <1>2 DEF CallFails, StoreInv, Job

\* The frame of the steps that change neither the registry nor the ConfigMap.
LEMMA StoreCalm ==
    ASSUME StoreInv, UNCHANGED <<objs, registry, store>>, ~Job'.cut,
           Job'.data = Job.data \/ Job'.data = {}, Job.pc \notin Unsafe, Job'.pc \notin Unsafe
    PROVE  StoreInv'
BY DEF StoreInv, OneOfEach, Filed, Unsafe, SavePC

\* The frame of the steps up to Encode.
LEMMA StoreBehind ==
    ASSUME StoreInv, UNCHANGED store, ~Job'.cut,
           Job'.data = Job.data \/ Job'.data = {}, Job'.pc \in {"inc", "dec", "encode"}
    PROVE  StoreInv'
BY DEF StoreInv, OneOfEach, Unsafe, SavePC

\* Requests that start.
LEMMA StoreStart ==
    ASSUME OneClient, RegInv, StoreInv, NewRequest(Client)
    PROVE  StoreInv'
<1>1. Client \in Threads /\ thr \in [Threads -> Thread]
  BY OneJob
<1>2. ASSUME NEW sel, NEW k, NEW ttl, CreateStart(Client, sel, k, ttl) PROVE StoreInv'
  <2>1. /\ Job.pc = "idle" /\ Job'.pc = "check" /\ Job'.data = {} /\ Job'.cut = FALSE
        /\ UNCHANGED <<objs, registry, store>>
    BY <1>1, <1>2 DEF CreateStart, Job, Idle
  <2> QED BY <2>1, StoreCalm DEF Unsafe, SavePC
<1>3. ASSUME NEW id, NEW k, UpdateStart(Client, id, k) PROVE StoreInv'
  <2>1. /\ Job.pc = "idle" /\ Job'.pc = "settime" /\ Job'.data = {} /\ Job'.cut = FALSE
        /\ UNCHANGED <<objs, registry, store>>
    BY <1>1, <1>3 DEF UpdateStart, Snapshot, Job, Idle
  <2> QED BY <2>1, StoreCalm DEF Unsafe, SavePC
<1>4. ASSUME NEW id, NEW delta, NEW freeze, AdvanceRead(Client, id, delta, freeze) PROVE StoreInv'
  <2>1. /\ Job.pc = "idle" /\ Job'.pc = "lookup" /\ Job'.data = {} /\ Job'.cut = FALSE
        /\ UNCHANGED <<objs, registry, store>>
    BY <1>1, <1>4 DEF AdvanceRead, Job, Idle
  <2> QED BY <2>1, StoreCalm DEF Unsafe, SavePC
<1>5. ASSUME NEW id, DeleteRemove(Client, id) PROVE StoreInv'
  <2>1. Job'.pc = "dec" /\ Job'.data = {} /\ Job'.cut = FALSE /\ UNCHANGED store
    BY <1>1, <1>5 DEF DeleteRemove, Job, Idle
  <2> QED BY <2>1, StoreBehind
<1> QED
  BY <1>2, <1>3, <1>4, <1>5 DEF NewRequest

\* Steps of a create, of an update and of a reset.
LEMMA StoreWay ==
    ASSUME OneClient, RegInv, StoreInv,
           \/ CreateCheck(Client) \/ InjectPod(Client) \/ CreateNone(Client)
           \/ AdvanceUpdate(Client)
           \/ SetTimeOk(Client) \/ SetTimeErr(Client) \/ SetTimeNotFound(Client)
           \/ ReinjectOk(Client) \/ ReinjectErr(Client)
           \/ ResetHandles(Client)
    PROVE  StoreInv'
<1> DEFINE Goal == /\ UNCHANGED <<objs, registry, store>> /\ ~Job'.cut
                   /\ Job'.data = Job.data \/ Job'.data = {}
                   /\ Job.pc \notin Unsafe /\ Job'.pc \notin Unsafe
<1> SUFFICES Goal
  BY StoreCalm
<1>1. Client \in Threads /\ thr \in [Threads -> Thread] /\ Job \in Thread /\ ~Job.cut
  BY OneJob DEF StoreInv
<1>2. CASE CreateCheck(Client)
  <2>1. /\ Job.pc = "check" /\ UNCHANGED <<objs, registry, store>>
        /\ Job' = Idle \/ Job' = [Job EXCEPT !.pc = "inject"]
    BY <1>1, <1>2 DEF CreateCheck, Job
  <2>2. ~Job'.cut /\ (Job'.data = Job.data \/ Job'.data = {}) /\ Job'.pc \in {"idle", "inject"}
    BY <1>1, <2>1 DEF Thread, Idle
  <2> QED BY <2>1, <2>2 DEF Unsafe, SavePC
<1>3. ASSUME NEW cid \in thr[Client].todo, InjectOk(Client, cid) \/ InjectErr(Client, cid) \/ InjectLost(Client, cid)
      PROVE  Goal
  <2> DEFINE hs == Append(Job.hs, [c |-> cid.c, inc |-> cid.inc, h |-> NewHandle])
  <2>1. /\ Job.pc = "inject" /\ UNCHANGED <<objs, registry, store>>
        /\ Job' = [Job EXCEPT !.todo = @ \ {cid}, !.hs = hs] \/ Job' = [Job EXCEPT !.todo = @ \ {cid}]
    BY <1>1, <1>3 DEF InjectOk, InjectErr, InjectLost, Job
  <2> HIDE DEF hs
  <2>2. ~Job'.cut /\ Job'.data = Job.data /\ Job'.pc = "inject"
    BY <1>1, <2>1 DEF Thread
  <2> QED BY <2>1, <2>2 DEF Unsafe, SavePC
<1>4. CASE CreateNone(Client)
  <2>1. Job.pc = "inject" /\ UNCHANGED <<objs, registry, store>> /\ Job' = Idle
    BY <1>1, <1>4 DEF CreateNone, Job
  <2> QED BY <2>1 DEF Unsafe, SavePC, Idle
<1>5. CASE AdvanceUpdate(Client)
  <2> DEFINE l == [Snapshot(Job.id, Job.clock) EXCEPT !.op = "advance", !.cut = Job.cut]
  <2>1. Job.pc = "lookup" /\ UNCHANGED <<objs, registry, store>> /\ (Job' = Idle \/ Job' = l)
    BY <1>1, <1>5 DEF AdvanceUpdate, Job
  <2>2. l.cut = Job.cut /\ l.data = {} /\ l.pc = "settime"
    BY DEF Snapshot, Idle
  <2> HIDE DEF l
  <2>3. ~Job'.cut /\ Job'.data = {} /\ Job'.pc \in {"idle", "settime"}
    BY <1>1, <2>1, <2>2 DEF Idle
  <2> QED BY <2>1, <2>3 DEF Unsafe, SavePC
<1>6. CASE SetTimeOk(Client) \/ SetTimeErr(Client)
  <2>1. Job.pc = "settime" /\ UNCHANGED <<objs, registry, store>> /\ Job' = [Job EXCEPT !.i = @ + 1]
    BY <1>1, <1>6 DEF SetTimeOk, SetTimeErr, NextHandle, Job
  <2>2. ~Job'.cut /\ Job'.data = Job.data /\ Job'.pc = Job.pc
    BY <1>1, <2>1 DEF Thread
  <2> QED BY <2>1, <2>2 DEF Unsafe, SavePC
<1>7. CASE SetTimeNotFound(Client)
  <2>1. Job.pc = "settime" /\ UNCHANGED <<objs, registry, store>> /\ Job' = [Job EXCEPT !.pc = "reinject"]
    BY <1>1, <1>7 DEF SetTimeNotFound, Goto, Job
  <2>2. ~Job'.cut /\ Job'.data = Job.data /\ Job'.pc = "reinject"
    BY <1>1, <2>1 DEF Thread
  <2> QED BY <2>1, <2>2 DEF Unsafe, SavePC
<1>8. CASE ReinjectOk(Client) \/ ReinjectErr(Client)
  <2> DEFINE upd == Job.upd \union {[idx |-> Job.i, new |-> NewHandle]}
  <2>1. /\ Job.pc = "reinject" /\ UNCHANGED <<objs, registry, store>>
        /\ \/ Job' = [Job EXCEPT !.pc = "settime", !.i = @ + 1, !.upd = upd]
           \/ Job' = [Job EXCEPT !.pc = "settime", !.i = @ + 1]
    BY <1>1, <1>8 DEF ReinjectOk, ReinjectErr, Job
  <2> HIDE DEF upd
  <2>2. ~Job'.cut /\ Job'.data = Job.data /\ Job'.pc = "settime"
    BY <1>1, <2>1 DEF Thread
  <2> QED BY <2>1, <2>2 DEF Unsafe, SavePC
<1>9. CASE ResetOk(Client) \/ ResetErr(Client)
  <2>1. Job.pc = "reset" /\ UNCHANGED <<objs, registry, store>> /\ Job' = [Job EXCEPT !.i = @ + 1]
    BY <1>1, <1>9 DEF ResetOk, ResetErr, AtReset, NextHandle, Job
  <2>2. ~Job'.cut /\ Job'.data = Job.data /\ Job'.pc = Job.pc
    BY <1>1, <2>1 DEF Thread
  <2> QED BY <2>1, <2>2 DEF Unsafe, SavePC
<1>10. CASE ResetDone(Client)
  <2>1. /\ Job.pc = "reset" /\ UNCHANGED <<objs, registry, store>>
        /\ Job' = Idle \/ Job' = [Job EXCEPT !.pc = "expire"]
    BY <1>1, <1>10 DEF ResetDone, Job
  <2>2. ~Job'.cut /\ (Job'.data = Job.data \/ Job'.data = {}) /\ Job'.pc \in {"idle", "expire"}
    BY <1>1, <2>1 DEF Thread, Idle
  <2> QED BY <2>1, <2>2 DEF Unsafe, SavePC
<1> QED
  BY <1>2, <1>3, <1>4, <1>5, <1>6, <1>7, <1>8, <1>9, <1>10 DEF InjectPod, ResetHandles

\* What is filed under an id is the timeshift of that id.
LEMMA FiledOnce ==
    ASSUME HandleInv
    PROVE  OneOfEach(Filed)
BY DEF HandleInv, TypeOK, OneOfEach, Filed

\* Steps that change the registry and those of persist.
LEMMA StoreChange ==
    ASSUME OneClient, RegInv, StoreInv,
           \/ CreateRegister(Client) \/ GaugeInc(Client) \/ UpdateApply(Client) \/ GaugeDec(Client)
           \/ Persist(Client)
    PROVE  StoreInv'
<1>1. Client \in Threads /\ thr \in [Threads -> Thread] /\ Job \in Thread /\ ~Job.cut /\ HandleInv
  BY OneJob DEF StoreInv
<1>2. CASE CreateRegister(Client)
  <2> DEFINE n == Len(objs) + 1
  <2>1. store' = store /\ Job' = [Job EXCEPT !.pc = "inc", !.id = n]
    BY <1>1, <1>2 DEF CreateRegister, Job
  <2> HIDE DEF n
  <2>2. ~Job'.cut /\ Job'.data = Job.data /\ Job'.pc = "inc"
    BY <1>1, <2>1 DEF Thread
  <2> QED BY <2>1, <2>2, StoreBehind
<1>3. CASE GaugeInc(Client) \/ GaugeDec(Client)
  <2>1. store' = store /\ Job' = [Job EXCEPT !.pc = "encode"]
    BY <1>1, <1>3 DEF GaugeInc, GaugeDec, Goto, Job
  <2>2. ~Job'.cut /\ Job'.data = Job.data /\ Job'.pc = "encode"
    BY <1>1, <2>1 DEF Thread
  <2> QED BY <2>1, <2>2, StoreBehind
<1>4. CASE UpdateApply(Client)
  <2>1. store' = store /\ Job' = [Job EXCEPT !.pc = "encode", !.hs = <<>>, !.upd = {}]
    BY <1>1, <1>4 DEF UpdateApply, Job
  <2>2. ~Job'.cut /\ Job'.data = Job.data /\ Job'.pc = "encode"
    BY <1>1, <2>1 DEF Thread
  <2> QED BY <2>1, <2>2, StoreBehind
<1>5. CASE Encode(Client)
  <2>1. UNCHANGED <<objs, registry, store>> /\ Job' = [Job EXCEPT !.pc = "get", !.data = Filed]
    BY <1>1, <1>5 DEF Encode, Filed, Job
  <2>2. ~Job'.cut /\ Job'.data = Filed /\ Job'.pc = "get" /\ Filed' = Filed
    BY <1>1, <2>1 DEF Thread, Filed
  <2> QED BY <1>1, <2>1, <2>2, FiledOnce DEF StoreInv, OneOfEach, Unsafe, SavePC
<1>6. CASE FlushGet(Client)
  <2>1. /\ Job.pc = "get" /\ UNCHANGED <<objs, registry, store>>
        /\ \/ Job' = [Job EXCEPT !.pc = "cmUpdate"]
           \/ Job' = [Job EXCEPT !.pc = "cmCreate"] /\ ~store.exists
    BY <1>1, <1>6 DEF FlushGet, Goto, Job
  <2>2. /\ ~Job'.cut /\ Job'.data = Job.data
        /\ Job'.pc = "cmUpdate" \/ (Job'.pc = "cmCreate" /\ ~store.exists)
    BY <1>1, <2>1 DEF Thread
  <2> QED BY <2>1, <2>2 DEF StoreInv, OneOfEach, Filed, Unsafe, SavePC
<1>7. CASE FlushPut(Client)
  <2>1. /\ Job.pc \in SavePC /\ UNCHANGED <<objs, registry>> /\ store'.data = Job.data
        /\ Job' = AfterPersist(Job)
    BY <1>1, <1>7 DEF FlushPut, SavePC, Job
  <2>2. ~Job'.cut /\ Job'.data = {} /\ Job'.pc \in {"reset", "expire", "idle"}
    BY <1>1, <2>1 DEF AfterPersist, Idle, Thread
  <2> QED BY <2>1, <2>2 DEF StoreInv, OneOfEach, Filed, Unsafe, SavePC
<1>8. ~FlushErr(Client)
  BY NoFault DEF FlushErr, StoreInv, Job
<1> QED
  BY <1>2, <1>3, <1>4, <1>5, <1>6, <1>7, <1>8 DEF Persist

\* A restart brings back what was saved.
LEMMA StoreCrash ==
    ASSUME OneClient, RegInv, StoreInv, CrashRestore
    PROVE  StoreInv'
<1>1. Client \in Threads
  BY OneJob
<1>2. /\ store.data \in SUBSET Timeshift /\ DataInv(store.data, pages, Len(objs))
      /\ Restart(store.data)
  BY DEF RegInv, HandleInv, TypeOK, CrashRestore
<1>3. /\ registry' = {s.id : s \in store.data} /\ store' = store /\ Job' = Idle
      /\ \A id \in registry' : objs'[id] \in store.data /\ objs'[id].id = id
  BY <1>1, <1>2, Restored DEF Job
<1>4. Filed' = store.data
  <2>1. \A s \in store.data : s.id \in registry' /\ objs'[s.id] = s
    BY <1>3 DEF StoreInv, OneOfEach
  <2> QED BY <1>3, <2>1 DEF Filed
<1> QED
  BY <1>3, <1>4 DEF StoreInv, OneOfEach, Unsafe, SavePC, Idle

\* Every step keeps the ConfigMap no further behind than its handler.
LEMMA NextStore ==
    ASSUME OneClient, RegInv, CalmInv, StoreInv, [Next]_vars
    PROVE  StoreInv'
<1>1. Workers = {Client} /\ ~(used.faults < MaxFaults)
  BY OneJob, NoFault
<1>2. CASE NewRequest(Client)
  BY <1>2, StoreStart
<1>3. CASE WorkerStep(Client)
  <2>1. ~SetTimeLost(Client) /\ ~ReinjectLost(Client)
    BY <1>1 DEF SetTimeLost, ReinjectLost
  <2> QED BY <1>3, <2>1, StoreWay, StoreChange DEF WorkerStep
<1>4. CASE Environment
  <2>1. ~CrashEmpty /\ \A t \in Workers : ~ClientGone(t)
    BY <1>1 DEF CrashEmpty, ClientGone, OneClient
  <2>2. ASSUME UNCHANGED <<objs, registry, thr, store>> PROVE StoreInv'
    BY <2>2 DEF StoreInv, OneOfEach, Filed, Job
  <2>3. ASSUME NEW id, Expire(id) PROVE StoreInv'
    BY <2>2, <2>3 DEF Expire
  <2>4. ASSUME ClusterNext /\ UNCHANGED ctlVars PROVE StoreInv'
    BY <2>2, <2>4 DEF ctlVars
  <2> QED BY <1>4, <2>1, <2>3, <2>4, StoreCrash DEF Environment
<1>5. CASE UNCHANGED vars
  BY <1>5 DEF vars, ctlVars, StoreInv, OneOfEach, Filed, Job
<1>6. CASE \/ \E t \in Sweepers : SweeperStep(t)
           \/ \E t \in Watchers : WatcherStep(t) \/ \E p \in Pods : WatchReceive(t, p)
  <2>1. UNCHANGED <<objs, registry, store, Job>>
    BY <1>6, OthersRest
  <2> QED BY <2>1 DEF StoreInv, OneOfEach, Filed
<1> QED
  BY <1>1, <1>2, <1>3, <1>4, <1>5, <1>6 DEF Next

\* Initially both the registry and the ConfigMap are empty.
LEMMA InitStore ==
    ASSUME OneClient, Init
    PROVE  StoreInv
<1>1. Client \in Threads
  BY DEF OneClient, Client, Threads
<1>2. Job = Idle /\ store.data = {} /\ registry = {}
  BY <1>1 DEF Init, Job
<1> QED
  BY <1>2 DEF StoreInv, OneOfEach, Filed, Unsafe, SavePC, Idle

\* Whenever the only client waits for no answer, the ConfigMap holds the registry:
\* every change of it, the clock and the handles that an update files included, is
\* followed by a persist that writes it, and a restart reads back just that.  Beside
\* the sweeper it asks that timeshifts have no TTL, beside the watcher that no
\* container restarts: they then change nothing.
THEOREM StoreCurrentHolds ==
    ASSUME OneClient
    PROVE  Spec => []StoreCurrent
<1>1. Init => StoreInv
  BY InitStore
<1>2. RegInv /\ CalmInv /\ StoreInv /\ [Next]_vars => StoreInv'
  BY NextStore
<1>3. RegInv /\ StoreInv => StoreCurrent
  <2> SUFFICES ASSUME RegInv, StoreInv, Quiet PROVE store.data = Filed
    BY DEF StoreCurrent, Filed
  <2>1. Job.pc = "idle"
    BY OneJob DEF Quiet, Job
  <2> QED BY <2>1 DEF StoreInv, Unsafe, SavePC
<1>4. Spec => []CalmInv
  BY CalmInvariance DEF OneClient, WatchersRest, Steady
<1> QED
  BY <1>1, <1>2, <1>3, <1>4, RegInvariance, PTL DEF Spec

(***************************************************************************)
(* What the steps do to the cluster.                                       *)
(***************************************************************************)
\* Pages belong to their containers: a hook leads to a page of the running
\* process, and an agent has only handles of its own node.
PageInv ==
    /\ \A h \in 1 .. Len(pages) : pages[h].inc <= inc[pages[h].c]
    /\ \A c \in Containers :
          hook[c] # 0 => /\ hook[c] \in 1 .. Len(pages) /\ up[c]
                         /\ pages[hook[c]].c = c /\ pages[hook[c]].inc = inc[c]
    /\ \A n \in Nodes : \A h \in live[n] : h \in 1 .. Len(pages) /\ NodeOf[pages[h].c] = n

\* One page is added, or a clock is written into one.
Installs == \E cid \in ContainerID, k \in Clock : Running(cid) /\ Install(cid, k)
Writes == \E h : \E k \in Clock : WritePage(h, k)

\* An injection: the pages there were, the new page, the hook and the agent's map.
LEMMA Installed ==
    ASSUME ClusterTypeOK, NEW cid \in ContainerID, NEW k \in Clock, Install(cid, k)
    PROVE  /\ NewHandle = Len(pages) + 1 /\ Len(pages') = Len(pages) + 1 /\ Len(pages) \in Nat
           /\ \A h \in 1 .. Len(pages) : pages'[h] = pages[h]
           /\ pages'[NewHandle].c = cid.c /\ pages'[NewHandle].inc = cid.inc
           /\ pages'[NewHandle].clock = k
           /\ \A c \in Containers : hook'[c] = IF c = cid.c THEN NewHandle ELSE hook[c]
           /\ \A n \in Nodes : live'[n] = IF n = NodeOf[cid.c] THEN live[n] \union {NewHandle} ELSE live[n]
           /\ up' = up /\ inc' = inc /\ cid.c \in Containers /\ NodeOf[cid.c] \in Nodes
<1> DEFINE p == [c |-> cid.c, inc |-> cid.inc, clock |-> k]
<1>1. p \in Page /\ pages \in Seq(Page) /\ pages' = Append(pages, p) /\ cid.c \in Containers
  BY DEF Page, ContainerID, Install, ClusterTypeOK
<1>2. /\ Len(pages') = Len(pages) + 1 /\ Len(pages) \in Nat
      /\ \A h \in 1 .. Len(pages) : pages'[h] = pages[h]
      /\ pages'[Len(pages) + 1] = p
  BY <1>1, AppendProperties, LenProperties
<1>3. /\ \A c \in Containers : hook'[c] = IF c = cid.c THEN NewHandle ELSE hook[c]
      /\ \A n \in Nodes : live'[n] = IF n = NodeOf[cid.c] THEN live[n] \union {NewHandle} ELSE live[n]
  BY DEF ClusterTypeOK, Install
<1>4. up' = up /\ inc' = inc /\ NodeOf[cid.c] \in Nodes
  BY <1>1, TopologyAssumption DEF Install
<1>5. p.c = cid.c /\ p.inc = cid.inc /\ p.clock = k
  OBVIOUS
<1> HIDE DEF p
<1> QED
  BY <1>1, <1>2, <1>3, <1>4, <1>5 DEF NewHandle

\* A write into the page of a handle.
LEMMA Written ==
    ASSUME ClusterTypeOK, NEW h \in 1 .. Len(pages), NEW k \in Clock, WritePage(h, k)
    PROVE  /\ Len(pages') = Len(pages)
           /\ \A j \in 1 .. Len(pages) : /\ pages'[j].c = pages[j].c /\ pages'[j].inc = pages[j].inc
                                         /\ pages'[j].clock = IF j = h THEN k ELSE pages[j].clock
           /\ up' = up /\ inc' = inc /\ hook' = hook /\ live' = live
<1> DEFINE p == [pages[h] EXCEPT !.clock = k]
<1>1. pages \in Seq(Page) /\ pages[h] \in Page
  BY ElementOfSeq DEF ClusterTypeOK
<1>2. p \in Page /\ p.c = pages[h].c /\ p.inc = pages[h].inc /\ p.clock = k
  BY <1>1 DEF Page
<1>3. pages' = [pages EXCEPT ![h] = p]
  BY DEF WritePage
<1> HIDE DEF p
<1>4. Len(pages') = Len(pages) /\ \A j \in 1 .. Len(pages) : pages'[j] = IF j = h THEN p ELSE pages[j]
  BY <1>1, <1>2, <1>3, ExceptSeq
<1> QED
  BY <1>2, <1>4 DEF WritePage

\* An agent that drains its map.
LEMMA Drained ==
    ASSUME ClusterTypeOK, NEW n \in Nodes, AgentShutdown(n)
    PROVE  /\ Len(pages') = Len(pages)
           /\ \A j \in 1 .. Len(pages) : /\ pages'[j].c = pages[j].c /\ pages'[j].inc = pages[j].inc
                                         /\ pages'[j].clock = IF j \in live[n] /\ ProcessAlive(j) THEN Real
                                                              ELSE pages[j].clock
           /\ up' = up /\ inc' = inc /\ hook' = hook
           /\ \A m \in Nodes : live'[m] = IF m = n THEN {} ELSE live[m]
<1>1. pages \in Seq(Page) /\ DOMAIN pages = 1 .. Len(pages) /\ Len(pages) \in Nat
  BY LenProperties DEF ClusterTypeOK
<1> DEFINE P(j) == IF j \in live[n] /\ ProcessAlive(j) THEN [pages[j] EXCEPT !.clock = Real] ELSE pages[j]
<1>2. pages' = [j \in 1 .. Len(pages) |-> P(j)]
  BY <1>1 DEF AgentShutdown
<1>3. ASSUME NEW j \in 1 .. Len(pages)
      PROVE  /\ P(j) \in Page /\ P(j).c = pages[j].c /\ P(j).inc = pages[j].inc
             /\ P(j).clock = IF j \in live[n] /\ ProcessAlive(j) THEN Real ELSE pages[j].clock
  <2>1. pages[j] \in Page
    BY <1>1, ElementOfSeq
  <2>2. Real \in Clock
    BY DEF Real, Clock
  <2> DEFINE p == [pages[j] EXCEPT !.clock = Real]
  <2>3. p \in Page /\ p.c = pages[j].c /\ p.inc = pages[j].inc /\ p.clock = Real
    BY <2>1, <2>2 DEF Page
  <2> HIDE DEF p
  <2> QED BY <2>1, <2>3 DEF p
<1> HIDE DEF P
<1>4. pages' \in Seq(Page) /\ Len(pages') = Len(pages)
  <2>1. pages' \in [1 .. Len(pages) -> Page]
    BY <1>2, <1>3
  <2> QED BY <1>1, <2>1, IsASeq, LenProperties
<1>5. \A m \in Nodes : live'[m] = IF m = n THEN {} ELSE live[m]
  BY DEF ClusterTypeOK, AgentShutdown
<1> QED
  BY <1>2, <1>3, <1>4, <1>5 DEF AgentShutdown

\* Every step leaves the pages with their containers.
LEMMA NextCluster ==
    ASSUME HandleInv, [Next]_vars
    PROVE  Installs \/ Writes \/ ClusterNext \/ UNCHANGED clusterVars
<1>1. ASSUME NEW t \in Workers, NewRequest(t) PROVE UNCHANGED clusterVars
  BY <1>1 DEF NewRequest, CreateStart, UpdateStart, AdvanceRead, DeleteRemove
<1>2. ASSUME NEW t \in Threads, InjectPod(t) PROVE Installs \/ UNCHANGED clusterVars
  <2>1. thr[t].todo \subseteq ContainerID /\ thr[t].clock \in Clock
    BY Facts DEF Thread
  <2> QED BY <1>2, <2>1 DEF InjectPod, InjectOk, InjectErr, InjectLost, Installs
<1>3. ASSUME NEW t \in Threads, ResetHandles(t) \/ Persist(t) PROVE Writes \/ UNCHANGED clusterVars
  <2>1. Real \in Clock
    BY DEF Real, Clock
  <2> QED BY <1>3, <2>1 DEF ResetHandles, ResetOk, ResetErr, ResetDone, Writes, Persist, Encode, FlushGet, FlushPut, FlushErr
<1>4. ASSUME NEW t \in Workers, SetTimeOk(t) \/ SetTimeErr(t) \/ SetTimeLost(t) \/ SetTimeNotFound(t)
      PROVE  Writes \/ UNCHANGED clusterVars
  <2>1. thr[t].clock \in Clock
    BY Facts DEF Thread, Threads
  <2> QED BY <1>4, <2>1 DEF SetTimeOk, SetTimeErr, SetTimeLost, SetTimeNotFound, Writes
<1>5. ASSUME NEW t \in Workers, ReinjectOk(t) \/ ReinjectErr(t) \/ ReinjectLost(t)
      PROVE  Installs \/ UNCHANGED clusterVars
  <2>1. CurContainerID(t) \in ContainerID /\ thr[t].clock \in Clock
    BY <1>5, CurContainerOK DEF ReinjectOk, ReinjectErr, ReinjectLost, Threads
  <2> QED BY <1>5, <2>1 DEF ReinjectOk, ReinjectErr, ReinjectLost, Installs
<1>6. ASSUME NEW t \in Workers, WorkerStep(t) PROVE Installs \/ Writes \/ UNCHANGED clusterVars
  <2>1. ASSUME \/ CreateCheck(t) \/ CreateNone(t) \/ CreateRegister(t) \/ GaugeInc(t)
               \/ AdvanceUpdate(t) \/ UpdateApply(t) \/ GaugeDec(t)
        PROVE  UNCHANGED clusterVars
    BY <2>1 DEF CreateCheck, CreateNone, CreateRegister, GaugeInc, AdvanceUpdate, UpdateApply, GaugeDec
  <2>2. t \in Threads
    BY DEF Threads
  <2> QED BY <1>2, <1>3, <1>4, <1>5, <1>6, <2>1, <2>2 DEF WorkerStep
<1>7. ASSUME NEW t \in Sweepers, SweeperStep(t) PROVE Writes \/ UNCHANGED clusterVars
  <2>1. ASSUME SweepRemove(t) \/ SweepDone(t) \/ \E id \in thr[t].ids : SweepNext(t, id)
        PROVE  UNCHANGED clusterVars
    BY <2>1 DEF SweepRemove, SweepDone, SweepNext
  <2> QED BY <1>3, <1>7, <2>1 DEF SweeperStep, Threads
<1>8. ASSUME NEW t \in Watchers, WatcherStep(t) \/ \E p \in Pods : WatchReceive(t, p)
      PROVE  Installs \/ UNCHANGED clusterVars
  <2>1. ASSUME \/ WatchMatch(t) \/ WatchDone(t) \/ WatchApply(t) \/ \E m \in thr[t].matched : WatchNext(t, m)
               \/ \E p \in Pods : WatchReceive(t, p)
        PROVE  UNCHANGED clusterVars
    BY <2>1 DEF WatchMatch, WatchDone, WatchApply, WatchNext, WatchReceive
  <2> QED BY <1>2, <1>8, <2>1 DEF WatcherStep, Threads
<1>9. CASE Environment
  BY <1>9 DEF Environment, ClientGone, Expire, CrashRestore, CrashEmpty, Restart
<1>10. CASE UNCHANGED vars
  BY <1>10 DEF vars
<1> QED
  BY <1>1, <1>6, <1>7, <1>8, <1>9, <1>10 DEF Next

\* The pages stay with their containers.
LEMMA PageNext ==
    ASSUME ClusterTypeOK, PageInv, Installs \/ Writes \/ ClusterNext \/ UNCHANGED clusterVars
    PROVE  PageInv'
<1>1. pages \in Seq(Page) /\ Len(pages) \in Nat /\ inc \in [Containers -> Nat] /\ hook \in [Containers -> Nat]
  BY LenProperties DEF ClusterTypeOK
<1> DEFINE Same == /\ Len(pages') = Len(pages)
                   /\ \A j \in 1 .. Len(pages) : pages'[j].c = pages[j].c /\ pages'[j].inc = pages[j].inc
<1>2. ASSUME NEW h \in 1 .. Len(pages) PROVE pages[h].c \in Containers /\ pages[h].inc \in Nat
  <2>1. pages[h] \in Page
    BY <1>1, ElementOfSeq
  <2> QED BY <2>1 DEF Page
<1>3. ASSUME NEW cid \in ContainerID, NEW k \in Clock, Running(cid), Install(cid, k) PROVE PageInv'
  <2>1. \A h \in 1 .. Len(pages') : h \in 1 .. Len(pages) \/ h = NewHandle
    BY <1>3, Installed
  <2>2. \A h \in 1 .. Len(pages') : pages'[h].inc <= inc'[pages'[h].c]
    BY <1>1, <1>3, <2>1, Installed DEF PageInv, Running
  <2>3. ASSUME NEW c \in Containers, hook'[c] # 0
        PROVE  hook'[c] \in 1 .. Len(pages') /\ up'[c] /\ pages'[hook'[c]].c = c /\ pages'[hook'[c]].inc = inc'[c]
    <3>1. CASE c = cid.c
      BY <1>3, <3>1, Installed DEF Running
    <3>2. CASE c # cid.c
      BY <1>3, <2>3, <3>2, Installed DEF PageInv
    <3> QED BY <3>1, <3>2
  <2>4. ASSUME NEW n \in Nodes, NEW h \in live'[n] PROVE h \in 1 .. Len(pages') /\ NodeOf[pages'[h].c] = n
    <3>1. h \in live[n] \/ (h = NewHandle /\ n = NodeOf[cid.c])
      <4>1. live'[n] = IF n = NodeOf[cid.c] THEN live[n] \union {NewHandle} ELSE live[n]
        BY <1>3, Installed
      <4> QED BY <2>4, <4>1
    <3>2. CASE h \in live[n]
      BY <1>3, <3>2, Installed DEF PageInv
    <3>3. CASE h = NewHandle /\ n = NodeOf[cid.c]
      BY <1>3, <3>3, Installed
    <3> QED BY <3>1, <3>2, <3>3
  <2> QED BY <2>2, <2>3, <2>4 DEF PageInv
<1>4. ASSUME Same, UNCHANGED <<up, inc, hook>>, \A n \in Nodes : live'[n] \subseteq live[n] PROVE PageInv'
  BY <1>2, <1>4 DEF PageInv
<1>5. ASSUME NEW h, NEW k \in Clock, WritePage(h, k) PROVE PageInv'
  <2>1. Same
    <3>1. CASE h \in 1 .. Len(pages)
      BY <1>5, <3>1, Written
    <3>2. CASE h \notin 1 .. Len(pages)
      <4>1. pages' = pages
        BY <1>1, <1>5, <3>2, LenProperties DEF WritePage
      <4> QED BY <4>1
    <3> QED BY <3>1, <3>2
  <2> HIDE DEF Same
  <2> QED BY <1>4, <1>5, <2>1 DEF WritePage
<1>6. ASSUME NEW c \in Containers, ContainerStop(c) \/ ContainerStart(c) PROVE PageInv'
  <2>1. pages' = pages /\ live' = live
    BY <1>6 DEF ContainerStop, ContainerStart
  <2>2. ASSUME NEW d \in Containers PROVE inc[d] <= inc'[d]
    <3>1. inc[d] \in Nat /\ (inc'[d] = inc[d] \/ inc'[d] = inc[d] + 1)
      BY <1>1, <1>6 DEF ContainerStop, ContainerStart
    <3> QED BY <3>1
  <2>3. \A h \in 1 .. Len(pages) : pages[h].inc <= inc'[pages[h].c]
    <3> SUFFICES ASSUME NEW h \in 1 .. Len(pages) PROVE pages[h].inc <= inc'[pages[h].c]
      OBVIOUS
    <3>1. pages[h].c \in Containers /\ pages[h].inc \in Nat /\ inc[pages[h].c] \in Nat
      BY <1>1, <1>2
    <3>2. inc'[pages[h].c] \in Nat
      BY <1>1, <1>6, <3>1 DEF ContainerStop, ContainerStart
    <3>3. pages[h].inc <= inc[pages[h].c] /\ inc[pages[h].c] <= inc'[pages[h].c]
      BY <2>2, <3>1 DEF PageInv
    <3> QED BY <3>1, <3>2, <3>3
  <2>4. ASSUME NEW d \in Containers, hook'[d] # 0 PROVE hook'[d] = hook[d] /\ up'[d] = up[d] /\ inc'[d] = inc[d]
    <3>1. CASE ContainerStop(c)
      BY <1>1, <2>4, <3>1 DEF ContainerStop, ClusterTypeOK
    <3>2. CASE ContainerStart(c)
      BY <1>1, <2>4, <3>2 DEF ContainerStart, ClusterTypeOK, PageInv
    <3> QED BY <1>6, <3>1, <3>2
  <2> QED BY <2>1, <2>3, <2>4 DEF PageInv
<1>7. ASSUME NEW n \in Nodes, AgentCrash(n) \/ AgentShutdown(n) PROVE PageInv'
  <2>1. CASE AgentCrash(n)
    <3>1. Same /\ UNCHANGED <<up, inc, hook>> /\ \A m \in Nodes : live'[m] \subseteq live[m]
      BY <2>1 DEF AgentCrash, ClusterTypeOK
    <3> QED BY <1>4, <3>1
  <2>2. CASE AgentShutdown(n)
    <3>1. Same /\ UNCHANGED <<up, inc, hook>> /\ \A m \in Nodes : live'[m] \subseteq live[m]
      BY <2>2, Drained
    <3> QED BY <1>4, <3>1
  <2> QED BY <1>7, <2>1, <2>2
<1>8. CASE UNCHANGED clusterVars
  BY <1>8 DEF clusterVars, PageInv
<1> QED
  BY <1>3, <1>5, <1>6, <1>7, <1>8 DEF Installs, Writes, ClusterNext

(***************************************************************************)
(* Who is to show which clock through which handle.  l stands for the      *)
(* locals of the handler, reg for the registry, os for the heap.           *)
(***************************************************************************)
Updating(l) == l.pc \in {"settime", "reinject"}

\* Entry j of a registered timeshift and the clock its process is to show, while
\* an update goes through the entries.
EntryOf(id, j, l, os) ==
    IF Updating(l) /\ id = l.id THEN Refreshed(os[id].handles, l.hs, l.upd)[j] ELSE os[id].handles[j]
ClockFor(id, j, l, os) == IF Updating(l) /\ id = l.id /\ j < l.i THEN l.clock ELSE os[id].clock

Claims(e, k, l, reg, os) ==
    \/ \E id \in reg : \E j \in 1 .. Len(os[id].handles) :
          e = EntryOf(id, j, l, os) /\ k = ClockFor(id, j, l, os)
    \/ l.pc = "inject" /\ k = l.clock /\ \E j \in 1 .. Len(l.hs) : e = l.hs[j]

\* What a delete has still to reset.
Owes(e, l, os) ==
    l.op = "delete" /\ \E j \in 1 .. Len(os[l.id].handles) :
        (l.pc = "reset" => j >= l.i) /\ e = os[l.id].handles[j]

Tracked(e, l, reg, os) == Owes(e, l, os) \/ \E k : Claims(e, k, l, reg, os)

Alive(e) == Running([c |-> e.c, inc |-> e.inc])

Shows(e, k) ==
    Alive(e) => /\ hook[e.c] = e.h
                /\ pages[e.h].clock = k \/ (pages[e.h].clock = Real /\ ~Known(e.h, e.c))

\* The process of container c runs on a fake clock that its agent can reset.
Faked(c) == hook[c] # 0 /\ pages[hook[c]].clock # Real /\ Known(hook[c], c)

\* An update works on a snapshot that nobody else changes.
UpdateInv(l, reg, os) ==
    Updating(l) => /\ l.id \in reg /\ l.hs = os[l.id].handles
                   /\ \A u \in l.upd : u.idx < l.i
                   /\ \A u, v \in l.upd : u.idx = v.idx => u = v

\* A delete resets containers that no other timeshift has.
DeletePC == {"dec", "encode", "reset"} \union SavePC
DeleteInv(l, reg, os) ==
    /\ l.op # "sweep" /\ (l.pc = "reset" => l.op = "delete")
    /\ l.op = "delete" => /\ l.pc \in DeletePC /\ l.id \in 1 .. Len(os)
                          /\ \A id \in reg : Apart(os[id].handles, os[l.id].handles)

ShowInv == \A e, k : Claims(e, k, Job, registry, objs) => Shows(e, k)
TrackInv == \A c \in Containers :
                Faked(c) => \E e : e.c = c /\ e.h = hook[c] /\ Tracked(e, Job, registry, objs)

ClockInv == UpdateInv(Job, registry, objs) /\ DeleteInv(Job, registry, objs) /\ ShowInv /\ TrackInv

\* An updated position holds its new handle, and the others are as they were.
LEMMA RefreshedAt ==
    ASSUME NEW handles \in Seq(ContainerHandle), NEW upd, NEW j \in 1 .. Len(handles)
    PROVE  /\ \A u \in upd : u.idx = j /\ (\A v \in upd : v.idx = j => v = u)
                  => Refreshed(handles, handles, upd)[j] = [handles[j] EXCEPT !.h = u.new]
           /\ (\A u \in upd : u.idx # j) => Refreshed(handles, handles, upd)[j] = handles[j]
<1>1. DOMAIN handles = 1 .. Len(handles)
  BY LenProperties
<1>2. ASSUME NEW u \in upd, u.idx = j, \A v \in upd : v.idx = j => v = u
      PROVE  Refreshed(handles, handles, upd)[j] = [handles[j] EXCEPT !.h = u.new]
  <2> DEFINE w == CHOOSE v \in upd : v.idx = j
  <2>1. w \in upd /\ w.idx = j
    BY <1>2
  <2>2. w = u
    BY <1>2, <2>1
  <2>3. Refreshed(handles, handles, upd)[j] = [handles[j] EXCEPT !.h = w.new]
    BY <1>1, <1>2 DEF Refreshed
  <2> QED BY <2>2, <2>3
<1>3. (\A u \in upd : u.idx # j) => Refreshed(handles, handles, upd)[j] = handles[j]
  BY <1>1 DEF Refreshed
<1> QED
  BY <1>2, <1>3

\* The entries of registered timeshifts name their containers.
LEMMA EntryFacts ==
    ASSUME OneClient, RegInv, UpdateInv(Job, registry, objs),
           NEW id \in registry, NEW j \in 1 .. Len(objs[id].handles)
    PROVE  /\ objs[id].handles \in Seq(ContainerHandle) /\ objs[id].handles[j] \in ContainerHandle
           /\ EntryOf(id, j, Job, objs) \in ContainerHandle
           /\ EntryOf(id, j, Job, objs).c = objs[id].handles[j].c
           /\ EntryOf(id, j, Job, objs).inc = objs[id].handles[j].inc
           /\ IssuedFor(EntryOf(id, j, Job, objs), pages)
<1> DEFINE handles == objs[id].handles
           r == Refreshed(handles, Job.hs, Job.upd)
<1>1. /\ HandleInv /\ ThreadInv(Job, pages, Len(objs)) /\ Job \in Thread
      /\ objs \in Seq(Timeshift) /\ id \in 1 .. Len(objs)
  BY OneJob, Facts
<1>2. objs[id] \in Timeshift /\ AllIssued(handles, pages)
  BY <1>1, ElementOfSeq DEF HandleInv
<1>3. handles \in Seq(ContainerHandle)
  BY <1>2 DEF Timeshift
<1>4. handles[j] \in ContainerHandle /\ IssuedFor(handles[j], pages)
  BY <1>2, <1>3, ElementOfSeq DEF AllIssued
<1>5. CASE Updating(Job) /\ id = Job.id
  <2>1. Job.hs \in Seq(ContainerHandle) /\ Job.upd \in SUBSET [idx : Nat, new : Nat] /\ UpdInv(Job.hs, Job.upd, pages)
    BY <1>1 DEF Thread, ThreadInv
  <2>2. r \in Seq(ContainerHandle) /\ AllIssued(r, pages)
    BY <1>2, <1>3, <2>1, RefreshedOK
  <2>3. Len(r) = Len(handles) /\ r[j].c = handles[j].c /\ r[j].inc = handles[j].inc
    BY <1>3, RefreshedEntries
  <2> HIDE DEF r
  <2>4. r[j] \in ContainerHandle /\ IssuedFor(r[j], pages)
    BY <2>2, <2>3, ElementOfSeq DEF AllIssued
  <2>5. EntryOf(id, j, Job, objs) = r[j]
    BY <1>5 DEF EntryOf, r
  <2> QED BY <1>3, <1>4, <2>3, <2>4, <2>5
<1>6. CASE ~(Updating(Job) /\ id = Job.id)
  BY <1>3, <1>4, <1>6 DEF EntryOf
<1> QED
  BY <1>5, <1>6

\* Whatever is claimed is an entry with a page of its own container.
LEMMA ClaimIssued ==
    ASSUME OneClient, RegInv, UpdateInv(Job, registry, objs), NEW e, NEW k, Claims(e, k, Job, registry, objs)
    PROVE  e \in ContainerHandle /\ IssuedFor(e, pages)
<1>1. Job \in Thread /\ AllIssued(Job.hs, pages)
  BY OneJob DEF ThreadInv
<1>2. \A j \in 1 .. Len(Job.hs) : Job.hs[j] \in ContainerHandle /\ IssuedFor(Job.hs[j], pages)
  BY <1>1, ElementOfSeq DEF Thread, AllIssued
<1> QED
  BY <1>2, EntryFacts DEF Claims

\* For such an entry, the container runs iff the process the handle was made for does.
LEMMA AliveIssued ==
    ASSUME NEW e, IssuedFor(e, pages)
    PROVE  Alive(e) <=> ProcessAlive(e.h)
BY DEF Alive, ProcessAlive, IssuedFor, Running

\* The parts of the invariant after a step.
LEMMA ClockNext ==
    ASSUME UpdateInv(Job', registry', objs'), DeleteInv(Job', registry', objs'),
           \A e, k : Claims(e, k, Job', registry', objs') => Shows(e, k)',
           \A c \in Containers :
               Faked(c)' => \E e : e.c = c /\ e.h = hook'[c] /\ Tracked(e, Job', registry', objs')
    PROVE  ClockInv'
BY DEF ClockInv, ShowInv, TrackInv

\* The frame of the steps that touch neither containers nor agents: claims may go
\* when they are for nobody, or move from one holder to another.
LEMMA CalmClock ==
    ASSUME PageInv, ClockInv, UNCHANGED clusterVars,
           UpdateInv(Job', registry', objs'), DeleteInv(Job', registry', objs'),
           \A e, k : Claims(e, k, Job', registry', objs') => Claims(e, k, Job, registry, objs) \/ ~Alive(e),
           \A e : Tracked(e, Job, registry, objs) =>
                      Tracked(e, Job', registry', objs') \/ ~(Known(e.h, e.c) /\ ProcessAlive(e.h))
    PROVE  ClockInv'
<1>1. ASSUME NEW e, NEW k, Claims(e, k, Job', registry', objs') PROVE Shows(e, k)'
  <2>1. Alive(e) => Shows(e, k)
    BY <1>1 DEF ClockInv, ShowInv
  <2> QED BY <2>1 DEF Shows, Alive, Running, Known, clusterVars
<1>2. ASSUME NEW c \in Containers, Faked(c)'
      PROVE  \E e : e.c = c /\ e.h = hook'[c] /\ Tracked(e, Job', registry', objs')
  <2>1. Faked(c) /\ hook' = hook
    BY <1>2 DEF Faked, Known, clusterVars
  <2>2. PICK e : e.c = c /\ e.h = hook[c] /\ Tracked(e, Job, registry, objs)
    BY <2>1 DEF ClockInv, TrackInv
  <2>3. Known(e.h, e.c) /\ ProcessAlive(e.h)
    BY <2>1, <2>2 DEF Faked, PageInv, ProcessAlive, Running
  <2> QED BY <2>1, <2>2, <2>3
<1> QED
  BY <1>1, <1>2, ClockNext

(***************************************************************************)
(* Steps that leave every claim as it is.                                  *)
(***************************************************************************)
Slide(l, m) ==
    /\ ~Updating(l) /\ ~Updating(m)
    /\ l.pc = "inject" => l.hs = <<>> \/ (m.pc = "inject" /\ m.hs = l.hs /\ m.clock = l.clock)
    /\ m.pc = "inject" => m.hs = <<>> \/ (l.pc = "inject" /\ m.hs = l.hs /\ m.clock = l.clock)

\* Such a step moves no claim.
LEMMA SlideClaims ==
    ASSUME NEW l, NEW m, Slide(l, m), NEW reg, NEW os, NEW e, NEW k
    PROVE  Claims(e, k, m, reg, os) <=> Claims(e, k, l, reg, os)
<1>1. \A id, j : /\ EntryOf(id, j, m, os) = EntryOf(id, j, l, os)
                 /\ ClockFor(id, j, m, os) = ClockFor(id, j, l, os)
  BY DEF Slide, EntryOf, ClockFor
<1>2. (m.pc = "inject" /\ k = m.clock /\ \E j \in 1 .. Len(m.hs) : e = m.hs[j]) <=>
      (l.pc = "inject" /\ k = l.clock /\ \E j \in 1 .. Len(l.hs) : e = l.hs[j])
  BY DEF Slide
<1> QED
  BY <1>1, <1>2 DEF Claims

\* Such a step keeps the clocks in order when it drops no debt of a delete.
LEMMA SlideClock ==
    ASSUME PageInv, ClockInv, UNCHANGED <<clusterVars, objs, registry>>, Slide(Job, Job'),
           DeleteInv(Job', registry, objs),
           \A e : Owes(e, Job, objs) => Owes(e, Job', objs) \/ ~(Known(e.h, e.c) /\ ProcessAlive(e.h))
    PROVE  ClockInv'
<1>1. UpdateInv(Job', registry', objs') /\ DeleteInv(Job', registry', objs')
  BY DEF Slide, UpdateInv
<1>2. \A e, k : Claims(e, k, Job', registry', objs') <=> Claims(e, k, Job, registry, objs)
  BY SlideClaims
<1>3. ASSUME NEW e, Tracked(e, Job, registry, objs)
      PROVE  Tracked(e, Job', registry', objs') \/ ~(Known(e.h, e.c) /\ ProcessAlive(e.h))
  BY <1>2, <1>3 DEF Tracked
<1> QED
  BY <1>1, <1>2, <1>3, CalmClock

\* A request that starts, or one that ends without owing anything.
Fresher(l, m) ==
    /\ l.op # "delete" \/ l.pc \notin DeletePC
    /\ m.op \notin {"delete", "sweep"} /\ m.pc # "reset"

\* The case that no delete is under way.
LEMMA FreshClock ==
    ASSUME PageInv, ClockInv, UNCHANGED <<clusterVars, objs, registry>>, Slide(Job, Job'), Fresher(Job, Job')
    PROVE  ClockInv'
<1>1. Job.op # "delete"
  BY DEF Fresher, ClockInv, DeleteInv
<1>2. DeleteInv(Job', registry, objs)
  BY DEF Fresher, DeleteInv
<1> QED
  BY <1>1, <1>2, SlideClock DEF Owes

\* A request that goes on.
Onward(l, m) ==
    /\ m.op = l.op /\ m.id = l.id
    /\ m.pc \in DeletePC \/ l.pc \notin DeletePC
    /\ m.pc = "reset" => m.op = "delete" /\ m.i = 1

\* A delete that goes on keeps its object.
LEMMA DeleteOn ==
    ASSUME NEW l, NEW m, NEW reg, NEW os, DeleteInv(l, reg, os), m.op = l.op, m.id = l.id,
           m.pc \in DeletePC \/ l.pc \notin DeletePC, m.pc = "reset" => m.op = "delete"
    PROVE  DeleteInv(m, reg, os)
BY DEF DeleteInv

\* The case that a delete goes on.
LEMMA OnwardClock ==
    ASSUME OneClient, RegInv, PageInv, ClockInv, UNCHANGED <<clusterVars, objs, registry>>,
           Slide(Job, Job'), Onward(Job, Job')
    PROVE  ClockInv'
<1>1. DeleteInv(Job', registry, objs)
  BY DeleteOn DEF Onward, ClockInv
<1>2. \A e : Owes(e, Job, objs) => Owes(e, Job', objs)
  BY DEF Onward, Owes
<1> QED
  BY <1>1, <1>2, SlideClock

\* Requests that start, except for an update and a delete.
LEMMA StartClock ==
    ASSUME OneClient, RegInv, PageInv, ClockInv,
           \/ \E sel \in Selectors, k \in Clocks, ttl \in TTLs : CreateStart(Client, sel, k, ttl)
           \/ \E id \in registry, delta \in Deltas, freeze \in Freezes : AdvanceRead(Client, id, delta, freeze)
    PROVE  ClockInv'
<1>1. Client \in Threads /\ thr \in [Threads -> Thread]
  BY OneJob
<1>2. UNCHANGED <<clusterVars, objs, registry>> /\ Job.pc = "idle"
  BY DEF CreateStart, AdvanceRead, Job
<1>3. Job'.pc \in {"check", "lookup"} /\ Job'.op \in {"create", "advance"}
  <2>1. ASSUME NEW sel, NEW k, NEW ttl, CreateStart(Client, sel, k, ttl) PROVE Job'.pc = "check" /\ Job'.op = "create"
    BY <1>1, <2>1 DEF CreateStart, Job, Idle
  <2>2. ASSUME NEW id, NEW delta, NEW freeze, AdvanceRead(Client, id, delta, freeze)
        PROVE  Job'.pc = "lookup" /\ Job'.op = "advance"
    BY <1>1, <2>2 DEF AdvanceRead, Job, Idle
  <2> QED BY <2>1, <2>2
<1>4. Slide(Job, Job') /\ Fresher(Job, Job')
  BY <1>2, <1>3 DEF Slide, Fresher, Updating, DeletePC, SavePC
<1> QED
  BY <1>2, <1>4, FreshClock

\* The conflict check, and the way on for a container that is not injected.
LEMMA CreateClock ==
    ASSUME OneClient, RegInv, OverlapInv, StoreInv, PageInv, ClockInv,
           \/ CreateCheck(Client) \/ CreateNone(Client)
           \/ \E cid \in thr[Client].todo : InjectErr(Client, cid)
    PROVE  ClockInv'
<1>1. Client \in Threads /\ thr \in [Threads -> Thread] /\ Job \in Thread /\ Client \in Workers
  BY OneJob
<1>2. CASE CreateCheck(Client)
  <2> DEFINE l == [Job EXCEPT !.pc = "inject"]
  <2>1. UNCHANGED <<clusterVars, objs, registry>> /\ Job.pc = "check" /\ (Job' = Idle \/ Job' = l)
    BY <1>1, <1>2 DEF CreateCheck, Job
  <2>2. Job.hs = <<>>
    BY <1>1, <2>1 DEF OverlapInv, FreeInv, Job
  <2>3. l.pc = "inject" /\ l.op = Job.op /\ l.id = Job.id /\ l.hs = <<>>
    BY <1>1, <2>2 DEF Thread
  <2> HIDE DEF l
  <2>4. CASE Job' = Idle
    <3>1. Slide(Job, Idle) /\ Fresher(Job, Idle)
      BY <2>1 DEF Slide, Fresher, Updating, Idle, DeletePC, SavePC
    <3> QED BY <2>1, <2>4, <3>1, FreshClock
  <2>5. CASE Job' = l
    <3>1. Slide(Job, l) /\ Onward(Job, l)
      BY <2>1, <2>3 DEF Slide, Onward, Updating, DeletePC, SavePC
    <3> QED BY <2>1, <2>5, <3>1, OnwardClock
  <2> QED BY <2>1, <2>4, <2>5
<1>3. CASE CreateNone(Client)
  <2>1. UNCHANGED <<clusterVars, objs, registry>> /\ Job.pc = "inject" /\ Job.hs = <<>> /\ Job' = Idle
    BY <1>1, <1>3 DEF CreateNone, Job
  <2>2. Slide(Job, Idle) /\ Fresher(Job, Idle)
    BY <2>1 DEF Slide, Fresher, Updating, Idle, DeletePC, SavePC
  <2> QED BY <2>1, <2>2, FreshClock
<1>4. ASSUME NEW cid \in thr[Client].todo, InjectErr(Client, cid) PROVE ClockInv'
  <2> DEFINE l == [Job EXCEPT !.todo = @ \ {cid}]
  <2>1. UNCHANGED <<clusterVars, objs, registry>> /\ Job.pc = "inject" /\ Job' = l
    BY <1>1, <1>4 DEF InjectErr, Job
  <2>2. l.pc = Job.pc /\ l.op = Job.op /\ l.id = Job.id /\ l.hs = Job.hs /\ l.clock = Job.clock
    BY <1>1 DEF Thread
  <2> HIDE DEF l
  <2>3. Slide(Job, l) /\ Onward(Job, l)
    BY <2>1, <2>2 DEF Slide, Onward, Updating, DeletePC, SavePC
  <2> QED BY <2>1, <2>3, OnwardClock
<1> QED
  BY <1>2, <1>3, <1>4

\* The gauge, and persist.
LEMMA PersistClock ==
    ASSUME OneClient, RegInv, StoreInv, PageInv, ClockInv,
           GaugeInc(Client) \/ GaugeDec(Client) \/ Persist(Client)
    PROVE  ClockInv'
<1>1. Client \in Threads /\ thr \in [Threads -> Thread] /\ Job \in Thread
  BY OneJob
<1>2. CASE GaugeInc(Client) \/ GaugeDec(Client)
  <2> DEFINE l == [Job EXCEPT !.pc = "encode"]
  <2>1. UNCHANGED <<clusterVars, objs, registry>> /\ Job.pc \in {"inc", "dec"} /\ Job' = l
    BY <1>1, <1>2 DEF GaugeInc, GaugeDec, Goto, Job
  <2>2. l.pc = "encode" /\ l.op = Job.op /\ l.id = Job.id
    BY <1>1 DEF Thread
  <2> HIDE DEF l
  <2>3. Slide(Job, l) /\ Onward(Job, l)
    BY <2>1, <2>2 DEF Slide, Onward, Updating, DeletePC, SavePC
  <2> QED BY <2>1, <2>3, OnwardClock
<1>3. CASE Encode(Client)
  <2> DEFINE l == [Job EXCEPT !.pc = "get", !.data = Filed]
  <2>1. UNCHANGED <<clusterVars, objs, registry>> /\ Job.pc = "encode" /\ Job' = l
    BY <1>1, <1>3 DEF Encode, Filed, Job
  <2>2. l.pc = "get" /\ l.op = Job.op /\ l.id = Job.id
    BY <1>1 DEF Thread
  <2> HIDE DEF l
  <2>3. Slide(Job, l) /\ Onward(Job, l)
    BY <2>1, <2>2 DEF Slide, Onward, Updating, DeletePC, SavePC
  <2> QED BY <2>1, <2>3, OnwardClock
<1>4. CASE FlushGet(Client)
  <2>1. /\ UNCHANGED <<clusterVars, objs, registry>> /\ Job.pc = "get"
        /\ Job' = [Job EXCEPT !.pc = "cmUpdate"] \/ Job' = [Job EXCEPT !.pc = "cmCreate"]
    BY <1>1, <1>4 DEF FlushGet, Goto, Job
  <2>2. Job'.pc \in {"cmCreate", "cmUpdate"} /\ Job'.op = Job.op /\ Job'.id = Job.id
    BY <1>1, <2>1 DEF Thread
  <2>3. Slide(Job, Job') /\ Onward(Job, Job')
    BY <2>1, <2>2 DEF Slide, Onward, Updating, DeletePC, SavePC
  <2> QED BY <2>1, <2>3, OnwardClock
<1>5. CASE FlushPut(Client)
  <2>1. UNCHANGED <<clusterVars, objs, registry>> /\ Job.pc \in SavePC /\ Job' = AfterPersist(Job)
    BY <1>1, <1>5 DEF FlushPut, SavePC, Job
  <2>2. CASE Job.op = "delete"
    <3> DEFINE l == [Job EXCEPT !.pc = "reset", !.i = 1, !.data = {}]
    <3>1. Job' = l
      BY <2>1, <2>2 DEF AfterPersist
    <3>2. l.pc = "reset" /\ l.op = Job.op /\ l.id = Job.id /\ l.i = 1
      BY <1>1 DEF Thread
    <3> HIDE DEF l
    <3>3. Slide(Job, l) /\ Onward(Job, l)
      BY <2>1, <2>2, <3>2 DEF Slide, Onward, Updating, DeletePC, SavePC
    <3> QED BY <2>1, <3>1, <3>3, OnwardClock
  <2>3. CASE Job.op # "delete"
    <3>1. Job' = Idle
      BY <2>1, <2>3 DEF AfterPersist, ClockInv, DeleteInv
    <3>2. Slide(Job, Idle) /\ Fresher(Job, Idle)
      BY <2>1, <2>3 DEF Slide, Fresher, Updating, Idle, DeletePC, SavePC
    <3> QED BY <2>1, <3>1, <3>2, FreshClock
  <2> QED BY <2>2, <2>3
<1>6. ~FlushErr(Client)
  BY NoFault DEF FlushErr, StoreInv, Job
<1> QED
  BY <1>2, <1>3, <1>4, <1>5, <1>6 DEF Persist

\* A reset that finds nothing to do, and the end of a delete.
LEMMA ResetClock ==
    ASSUME OneClient, RegInv, StoreInv, PageInv, ClockInv, ResetErr(Client) \/ ResetDone(Client)
    PROVE  ClockInv'
<1>1. /\ Client \in Threads /\ thr \in [Threads -> Thread] /\ Job \in Thread /\ Job.i \in Nat
      /\ ThreadInv(Job, pages, Len(objs))
  BY OneJob DEF Thread
<1>2. CASE ResetErr(Client)
  <2> DEFINE l == [Job EXCEPT !.i = @ + 1]
  <2>1. UNCHANGED <<clusterVars, objs, registry>> /\ Job.pc = "reset" /\ Job' = l
    BY <1>1, <1>2 DEF ResetErr, AtReset, NextHandle, Job
  <2>2. l.pc = "reset" /\ l.op = Job.op /\ l.id = Job.id /\ l.i = Job.i + 1
    BY <1>1, <2>1 DEF Thread
  <2> HIDE DEF l
  <2>3. DeleteInv(l, registry, objs)
    BY <2>1, <2>2 DEF ClockInv, DeleteInv, DeletePC
  <2>4. ~(Known(CurReset(Client).h, CurReset(Client).c) /\ ProcessAlive(CurReset(Client).h))
    BY <1>2, NoFault DEF ResetErr
  <2>5. ASSUME NEW e, Owes(e, Job, objs)
        PROVE  Owes(e, l, objs) \/ ~(Known(e.h, e.c) /\ ProcessAlive(e.h))
    <3>1. PICK j \in 1 .. Len(objs[Job.id].handles) : j >= Job.i /\ e = objs[Job.id].handles[j]
      BY <2>1, <2>5 DEF Owes
    <3>2. CASE j = Job.i
      BY <2>4, <3>1, <3>2 DEF CurReset, Job
    <3>3. CASE j # Job.i
      <4>1. j >= l.i
        BY <1>1, <2>2, <3>1, <3>3
      <4> QED BY <2>2, <2>5, <3>1, <4>1 DEF Owes
    <3> QED BY <3>2, <3>3
  <2>6. Slide(Job, l)
    BY <2>1, <2>2 DEF Slide, Updating
  <2> QED BY <2>1, <2>3, <2>5, <2>6, SlideClock
<1>3. CASE ResetDone(Client)
  <2>1. /\ UNCHANGED <<clusterVars, objs, registry>> /\ Job.pc = "reset" /\ Job' = Idle
        /\ ~(Job.i <= Len(objs[Job.id].handles))
    BY <1>1, <1>3 DEF ResetDone, AtReset, Job, ClockInv, DeleteInv
  <2>2. ASSUME NEW e, Owes(e, Job, objs) PROVE FALSE
    <3>1. PICK j \in 1 .. Len(objs[Job.id].handles) : j >= Job.i
      BY <2>1, <2>2 DEF Owes
    <3>2. Job.op = "delete" /\ Job.id \in 0 .. Len(objs)
      BY <1>1, <2>2 DEF Owes, ThreadInv
    <3> QED BY <1>1, <2>1, <3>1
  <2>3. Slide(Job, Idle) /\ DeleteInv(Idle, registry, objs)
    BY <2>1 DEF Slide, Updating, Idle, DeleteInv
  <2> QED BY <2>1, <2>2, <2>3, SlideClock
<1> QED
  BY <1>2, <1>3

(***************************************************************************)
(* Steps that hand claims over.                                            *)
(***************************************************************************)
\* An update starts from the entries as they are.
LEMMA BeginClock ==
    ASSUME OneClient, RegInv, PageInv, ClockInv, UNCHANGED <<clusterVars, objs, registry>>,
           Job.pc \in {"idle", "lookup"}, Job'.pc = "settime", Job'.op \in {"update", "advance"},
           Job'.id \in registry, Job'.hs = objs[Job'.id].handles, Job'.i = 1, Job'.upd = {}
    PROVE  ClockInv'
<1>1. Job.op # "delete" /\ UpdateInv(Job, registry, objs) /\ ~Updating(Job)
  BY DEF ClockInv, DeleteInv, DeletePC, SavePC, Updating
<1>2. UpdateInv(Job', registry', objs') /\ DeleteInv(Job', registry', objs')
  BY DEF UpdateInv, DeleteInv
<1>3. ASSUME NEW id \in registry, NEW j \in 1 .. Len(objs[id].handles)
      PROVE  /\ EntryOf(id, j, Job', objs) = EntryOf(id, j, Job, objs)
             /\ ClockFor(id, j, Job', objs) = ClockFor(id, j, Job, objs)
  <2>1. objs[id].handles \in Seq(ContainerHandle)
    BY <1>1, EntryFacts
  <2>2. Refreshed(objs[id].handles, objs[id].handles, {})[j] = objs[id].handles[j]
    BY <2>1, RefreshedAt
  <2>3. ~(j < 1)
    BY <2>1, LenProperties
  <2> QED BY <1>1, <2>2, <2>3 DEF EntryOf, ClockFor
<1>4. \A e, k : Claims(e, k, Job', registry', objs') <=> Claims(e, k, Job, registry, objs)
  BY <1>3 DEF Claims
<1>5. \A e : Tracked(e, Job, registry, objs) => Tracked(e, Job', registry', objs')
  BY <1>1, <1>4 DEF Tracked, Owes
<1> QED
  BY <1>2, <1>4, <1>5, CalmClock

\* An update begins with the clocks the registry promises.
LEMMA UpdateStartClock ==
    ASSUME OneClient, RegInv, PageInv, ClockInv, NEW id \in registry, NEW k, UpdateStart(Client, id, k)
    PROVE  ClockInv'
<1>1. Client \in Threads /\ thr \in [Threads -> Thread]
  BY OneJob
<1>2. Job.pc = "idle" /\ UNCHANGED <<clusterVars, objs, registry>> /\ Job' = Snapshot(id, k)
  BY <1>1 DEF UpdateStart, Job
<1>3. /\ Job'.pc = "settime" /\ Job'.op = "update" /\ Job'.id = id /\ Job'.i = 1 /\ Job'.upd = {}
      /\ Job'.hs = objs[id].handles
  BY <1>2 DEF Snapshot, Idle
<1> QED
  BY <1>2, <1>3, BeginClock

\* So does the second half of an advance.
LEMMA AdvanceUpdateClock ==
    ASSUME OneClient, RegInv, PageInv, ClockInv, AdvanceUpdate(Client)
    PROVE  ClockInv'
<1> DEFINE l == [Snapshot(Job.id, Job.clock) EXCEPT !.op = "advance", !.cut = Job.cut]
<1>1. Client \in Threads /\ thr \in [Threads -> Thread]
  BY OneJob
<1>2. /\ Job.pc = "lookup" /\ UNCHANGED <<clusterVars, objs, registry>>
      /\ Job' = Idle \/ (Job' = l /\ Job.id \in registry)
  BY <1>1 DEF AdvanceUpdate, Job
<1>3. /\ l.pc = "settime" /\ l.op = "advance" /\ l.id = Job.id /\ l.i = 1 /\ l.upd = {}
      /\ l.hs = objs[Job.id].handles
  BY DEF Snapshot, Idle
<1> HIDE DEF l
<1>4. CASE Job' = Idle
  <2>1. Slide(Job, Idle) /\ Fresher(Job, Idle)
    BY <1>2 DEF Slide, Fresher, Updating, Idle, DeletePC, SavePC
  <2> QED BY <1>2, <1>4, <2>1, FreshClock
<1>5. CASE Job' = l /\ Job.id \in registry
  BY <1>2, <1>3, <1>5, BeginClock
<1> QED
  BY <1>2, <1>4, <1>5

\* The entry an update is at has its handle still.
LEMMA Here ==
    ASSUME OneClient, RegInv, UpdateInv(Job, registry, objs), Updating(Job), Job.i <= Len(Job.hs)
    PROVE  /\ Job.id \in registry /\ Job.hs = objs[Job.id].handles /\ Job.hs \in Seq(ContainerHandle)
           /\ Job.i \in 1 .. Len(Job.hs)
           /\ Job.hs[Job.i] \in ContainerHandle /\ IssuedFor(Job.hs[Job.i], pages)
           /\ EntryOf(Job.id, Job.i, Job, objs) = Job.hs[Job.i]
<1>1. /\ Job \in Thread /\ Job.hs \in Seq(ContainerHandle) /\ Job.i \in Nat /\ Job.i >= 1
      /\ AllIssued(Job.hs, pages) /\ Job.upd \subseteq [idx : Nat, new : Nat]
  BY OneJob DEF Thread, ThreadInv
<1>2. Job.i \in 1 .. Len(Job.hs) /\ Job.hs[Job.i] \in ContainerHandle
  BY <1>1, ElementOfSeq, LenProperties
<1>3. Job.id \in registry /\ Job.hs = objs[Job.id].handles /\ \A u \in Job.upd : u.idx < Job.i
  BY DEF UpdateInv
<1>4. \A u \in Job.upd : u.idx # Job.i
  BY <1>1, <1>3
<1>5. Refreshed(Job.hs, Job.hs, Job.upd)[Job.i] = Job.hs[Job.i]
  BY <1>1, <1>2, <1>4, RefreshedAt
<1> QED
  BY <1>1, <1>2, <1>3, <1>5 DEF AllIssued, EntryOf

\* SetTime is skipped for a process that is gone, or goes over to a re-injection.
LEMMA SkipClock ==
    ASSUME OneClient, RegInv, PageInv, ClockInv, UNCHANGED <<clusterVars, objs, registry>>,
           Updating(Job), Updating(Job'), Job.i <= Len(Job.hs),
           Job'.op = Job.op, Job'.id = Job.id, Job'.hs = Job.hs, Job'.clock = Job.clock, Job'.upd = Job.upd,
           Job'.i = Job.i \/ (Job'.i = Job.i + 1 /\ ~Alive(Job.hs[Job.i]))
    PROVE  ClockInv'
<1>1. Job.op # "delete" /\ UpdateInv(Job, registry, objs) /\ Job.pc \notin DeletePC
  BY DEF ClockInv, DeleteInv, DeletePC, SavePC, Updating
<1>2. /\ Job.i \in Nat /\ Job.upd \subseteq [idx : Nat, new : Nat]
      /\ EntryOf(Job.id, Job.i, Job, objs) = Job.hs[Job.i]
  BY <1>1, OneJob, Here DEF Thread
<1>3. UpdateInv(Job', registry', objs')
  <2>1. \A u \in Job.upd : u.idx \in Nat /\ u.idx < Job.i
    BY <1>1, <1>2 DEF UpdateInv
  <2> QED BY <1>1, <1>2, <2>1 DEF UpdateInv
<1>4. DeleteInv(Job', registry', objs')
  BY <1>1 DEF ClockInv, DeleteInv, Updating
<1>5. \A id, j : EntryOf(id, j, Job', objs) = EntryOf(id, j, Job, objs)
  BY DEF EntryOf
<1>6. ASSUME NEW id \in registry, NEW j \in 1 .. Len(objs[id].handles)
      PROVE  \/ ClockFor(id, j, Job', objs) = ClockFor(id, j, Job, objs)
             \/ ~Alive(EntryOf(id, j, Job, objs))
  <2>1. CASE id = Job.id /\ j = Job.i /\ Job'.i # Job.i
    BY <1>2, <2>1
  <2>2. CASE ~(id = Job.id /\ j = Job.i /\ Job'.i # Job.i)
    <3>1. j \in Int
      OBVIOUS
    <3> QED BY <1>2, <2>2, <3>1 DEF ClockFor
  <2> QED BY <2>1, <2>2
<1>7. ASSUME NEW e, NEW k, Claims(e, k, Job', registry', objs')
      PROVE  Claims(e, k, Job, registry, objs) \/ ~Alive(e)
  BY <1>5, <1>6, <1>7 DEF Claims, Updating
<1>8. ASSUME NEW e, Tracked(e, Job, registry, objs) PROVE Tracked(e, Job', registry', objs')
  <2>1. PICK k : Claims(e, k, Job, registry, objs)
    BY <1>1, <1>8 DEF Tracked, Owes
  <2>2. PICK id \in registry : \E j \in 1 .. Len(objs[id].handles) : e = EntryOf(id, j, Job, objs)
    BY <2>1 DEF Claims, Updating
  <2>4. PICK j \in 1 .. Len(objs[id].handles) : e = EntryOf(id, j, Job, objs)
    BY <2>2
  <2>3. Claims(e, ClockFor(id, j, Job', objs), Job', registry', objs')
    BY <1>5, <2>4 DEF Claims
  <2> QED BY <2>3 DEF Tracked
<1> QED
  BY <1>3, <1>4, <1>7, <1>8, CalmClock

\* An entry is skipped only when its process is gone.
LEMMA SetTimeSkipClock ==
    ASSUME OneClient, RegInv, StoreInv, PageInv, ClockInv,
           SetTimeErr(Client) \/ SetTimeNotFound(Client) \/ ReinjectErr(Client)
    PROVE  ClockInv'
<1>1. /\ Client \in Threads /\ thr \in [Threads -> Thread] /\ Job \in Thread /\ ThreadInv(Job, pages, Len(objs))
      /\ UpdateInv(Job, registry, objs)
  BY OneJob DEF ClockInv
<1>2. CASE SetTimeErr(Client)
  <2> DEFINE l == [Job EXCEPT !.i = @ + 1]
  <2>1. /\ UNCHANGED <<clusterVars, objs, registry>> /\ Job.pc = "settime" /\ Job' = l
        /\ Job.i <= Len(Job.hs) /\ ~ProcessAlive(Job.hs[Job.i].h)
    BY <1>1, <1>2, NoFault DEF SetTimeErr, AtHandle, CurHandle, NextHandle, Job
  <2>2. /\ l.pc = Job.pc /\ l.op = Job.op /\ l.id = Job.id /\ l.hs = Job.hs /\ l.clock = Job.clock
        /\ l.upd = Job.upd /\ l.i = Job.i + 1
    BY <1>1 DEF Thread
  <2> HIDE DEF l
  <2>3. ~Alive(Job.hs[Job.i])
    BY <1>1, <2>1, Here, AliveIssued DEF Updating
  <2> QED BY <2>1, <2>2, <2>3, SkipClock DEF Updating
<1>3. CASE SetTimeNotFound(Client)
  <2> DEFINE l == [Job EXCEPT !.pc = "reinject"]
  <2>1. /\ UNCHANGED <<clusterVars, objs, registry>> /\ Job.pc = "settime" /\ Job' = l
        /\ Job.i <= Len(Job.hs)
    BY <1>1, <1>3 DEF SetTimeNotFound, AtHandle, Goto, Job
  <2>2. /\ l.pc = "reinject" /\ l.op = Job.op /\ l.id = Job.id /\ l.hs = Job.hs /\ l.clock = Job.clock
        /\ l.upd = Job.upd /\ l.i = Job.i
    BY <1>1 DEF Thread
  <2> HIDE DEF l
  <2> QED BY <2>1, <2>2, SkipClock DEF Updating
<1>4. CASE ReinjectErr(Client)
  <2> DEFINE l == [Job EXCEPT !.pc = "settime", !.i = @ + 1]
  <2>1. /\ UNCHANGED <<clusterVars, objs, registry>> /\ Job.pc = "reinject" /\ Job' = l
        /\ ~Alive(Job.hs[Job.i])
    BY <1>1, <1>4, NoFault DEF ReinjectErr, CurContainerID, CurHandle, Alive, Job
  <2>2. /\ l.pc = "settime" /\ l.op = Job.op /\ l.id = Job.id /\ l.hs = Job.hs /\ l.clock = Job.clock
        /\ l.upd = Job.upd /\ l.i = Job.i + 1
    BY <1>1 DEF Thread
  <2> HIDE DEF l
  <2>3. Job.i <= Len(Job.hs)
    BY <1>1, <2>1 DEF ThreadInv
  <2> QED BY <2>1, <2>2, <2>3, SkipClock DEF Updating
<1> QED
  BY <1>2, <1>3, <1>4

\* The update files what the claims already say.
LEMMA UpdateApplyClock ==
    ASSUME OneClient, RegInv, PageInv, ClockInv, UpdateApply(Client)
    PROVE  ClockInv'
<1> DEFINE l == [Job EXCEPT !.pc = "encode", !.hs = <<>>, !.upd = {}]
<1>1. /\ Client \in Threads /\ thr \in [Threads -> Thread] /\ Job \in Thread /\ Job.i \in Nat
      /\ registry \subseteq 1 .. Len(objs)
  BY OneJob, Facts DEF Thread
<1>2. /\ UNCHANGED <<clusterVars, registry>> /\ Job.pc = "settime" /\ ~(Job.i <= Len(Job.hs)) /\ Job' = l
  BY <1>1 DEF UpdateApply, AtHandle, Job
<1>3. l.pc = "encode" /\ l.op = Job.op /\ l.id = Job.id /\ l.clock = Job.clock
  BY <1>1 DEF Thread
<1> HIDE DEF l
<1>4. /\ UpdateInv(Job, registry, objs) /\ Job.hs = objs[Job.id].handles
      /\ Job.op \notin {"delete", "sweep"}
  BY <1>2 DEF ClockInv, UpdateInv, DeleteInv, DeletePC, SavePC, Updating
<1>5. ASSUME NEW id \in registry
      PROVE  /\ Len(objs'[id].handles) = Len(objs[id].handles)
             /\ \A j \in 1 .. Len(objs[id].handles) :
                    /\ EntryOf(id, j, l, objs') = EntryOf(id, j, Job, objs)
                    /\ ClockFor(id, j, l, objs') = ClockFor(id, j, Job, objs)
  <2>1. CASE id = Job.id
    <3>1. id \in 1 .. Len(objs)
      BY <1>1
    <3>2. /\ objs'[id].handles = Refreshed(objs[id].handles, Job.hs, Job.upd)
          /\ objs'[id].clock = Job.clock
      BY <1>1, <2>1, <3>1, Applied DEF Job
    <3>3. ASSUME NEW j \in 1 .. Len(objs[id].handles)
          PROVE  /\ Len(objs'[id].handles) = Len(objs[id].handles)
                 /\ EntryOf(id, j, l, objs') = EntryOf(id, j, Job, objs)
                 /\ ClockFor(id, j, l, objs') = ClockFor(id, j, Job, objs)
      <4>1. objs[id].handles \in Seq(ContainerHandle)
        BY <1>4, EntryFacts
      <4>2. Len(objs'[id].handles) = Len(objs[id].handles)
        BY <3>2, <4>1, RefreshedEntries
      <4>3. j < Job.i
        BY <1>1, <1>2, <1>4, <2>1, <4>1, LenProperties
      <4> QED BY <1>2, <1>3, <2>1, <3>2, <4>2, <4>3 DEF EntryOf, ClockFor, Updating
    <3>4. Len(objs'[id].handles) = Len(objs[id].handles)
      <4>1. objs[id] \in Timeshift
        BY <1>1, <3>1, Facts, ElementOfSeq, OneJob
      <4> QED BY <3>2, <4>1, RefreshedEntries DEF Timeshift
    <3> QED BY <3>3, <3>4
  <2>2. CASE id # Job.id
    <3>1. objs'[id] = objs[id]
      BY <1>1, <2>2, Applied DEF Job
    <3> QED BY <1>3, <2>2, <3>1 DEF EntryOf, ClockFor, Updating
  <2> QED BY <2>1, <2>2
<1>6. \A e, k : Claims(e, k, l, registry, objs') <=> Claims(e, k, Job, registry, objs)
  BY <1>2, <1>3, <1>5 DEF Claims
<1>7. \A e : Tracked(e, Job, registry, objs) => Tracked(e, l, registry, objs')
  BY <1>4, <1>6 DEF Tracked, Owes
<1>8. UpdateInv(l, registry, objs') /\ DeleteInv(l, registry, objs')
  BY <1>3, <1>4 DEF UpdateInv, DeleteInv, Updating
<1> QED
  BY <1>2, <1>6, <1>7, <1>8, CalmClock

\* The handles that a create has collected become the entries of its timeshift.
LEMMA CreateRegisterClock ==
    ASSUME OneClient, RegInv, PageInv, ClockInv, CreateRegister(Client)
    PROVE  ClockInv'
<1> DEFINE n == Len(objs) + 1
           s == [id |-> n, sel |-> Job.sel, clock |-> Job.clock, ttl |-> Job.ttl, handles |-> Job.hs]
           l == [Job EXCEPT !.pc = "inc", !.id = n]
<1>1. /\ Client \in Threads /\ thr \in [Threads -> Thread] /\ Job \in Thread
      /\ registry \subseteq 1 .. Len(objs) /\ objs \in Seq(Timeshift) /\ Len(objs) \in Nat
  BY OneJob, Facts
<1>2. /\ UNCHANGED clusterVars /\ Job.pc = "inject" /\ Job.op = "create" /\ Job' = l
      /\ objs' = Append(objs, s) /\ registry' = registry \union {n}
  BY <1>1 DEF CreateRegister, Job
<1>3. l.pc = "inc" /\ l.op = Job.op /\ l.id = n
  BY <1>1 DEF Thread
<1>4. s.clock = Job.clock /\ s.handles = Job.hs
  OBVIOUS
<1> HIDE DEF l, s
<1>5. objs'[n] = s /\ n \notin registry /\ \A id \in registry : objs'[id] = objs[id]
  <2>1. objs'[n] = s /\ \A id \in 1 .. Len(objs) : objs'[id] = objs[id]
    BY <1>1, <1>2
  <2>2. n \notin registry
    BY <1>1
  <2> QED BY <1>1, <2>1, <2>2
<1> HIDE DEF n
<1>6. ~Updating(Job) /\ ~Updating(l)
  BY <1>2, <1>3 DEF Updating
<1>7. ASSUME NEW e, NEW k, Claims(e, k, l, registry', objs') PROVE Claims(e, k, Job, registry, objs)
  <2>1. PICK id \in registry' : \E j \in 1 .. Len(objs'[id].handles) : e = objs'[id].handles[j] /\ k = objs'[id].clock
    BY <1>3, <1>6, <1>7 DEF Claims, EntryOf, ClockFor
  <2>2. CASE id = n
    BY <1>2, <1>4, <1>5, <2>1, <2>2 DEF Claims
  <2>3. CASE id \in registry
    <3>1. \E j \in 1 .. Len(objs[id].handles) : e = objs[id].handles[j] /\ k = objs[id].clock
      BY <1>5, <2>1, <2>3
    <3> QED BY <1>6, <2>3, <3>1 DEF Claims, EntryOf, ClockFor
  <2> QED BY <1>2, <2>2, <2>3
<1>8. ASSUME NEW e, NEW k, Claims(e, k, Job, registry, objs) PROVE Claims(e, k, l, registry', objs')
  <2>1. CASE Job.pc = "inject" /\ k = Job.clock /\ \E j \in 1 .. Len(Job.hs) : e = Job.hs[j]
    <3>1. n \in registry' /\ \E j \in 1 .. Len(objs'[n].handles) : e = objs'[n].handles[j] /\ k = objs'[n].clock
      BY <1>2, <1>4, <1>5, <2>1
    <3> QED BY <1>6, <3>1 DEF Claims, EntryOf, ClockFor
  <2>2. ASSUME NEW id \in registry, NEW j \in 1 .. Len(objs[id].handles),
               e = objs[id].handles[j], k = objs[id].clock
        PROVE  Claims(e, k, l, registry', objs')
    <3>1. id \in registry' /\ j \in 1 .. Len(objs'[id].handles) /\ e = objs'[id].handles[j] /\ k = objs'[id].clock
      BY <1>2, <1>5, <2>2
    <3> QED BY <1>6, <3>1 DEF Claims, EntryOf, ClockFor
  <2> QED BY <1>6, <1>8, <2>1, <2>2 DEF Claims, EntryOf, ClockFor
<1>9. \A e : Tracked(e, Job, registry, objs) => Tracked(e, l, registry', objs')
  BY <1>2, <1>8 DEF Tracked, Owes
<1>10. UpdateInv(l, registry', objs') /\ DeleteInv(l, registry', objs')
  BY <1>2, <1>3, <1>6 DEF UpdateInv, DeleteInv
<1> QED
  BY <1>2, <1>7, <1>9, <1>10, CalmClock

\* A delete takes over the entries of its timeshift.
LEMMA DeleteRemoveClock ==
    ASSUME OneClient, RegInv, OverlapInv, PageInv, ClockInv, NEW id \in registry, DeleteRemove(Client, id)
    PROVE  ClockInv'
<1> DEFINE l == [Idle EXCEPT !.pc = "dec", !.op = "delete", !.id = id]
<1>1. Client \in Threads /\ thr \in [Threads -> Thread]
  BY OneJob
<1>2. UNCHANGED <<clusterVars, objs>> /\ Job.pc = "idle" /\ Job' = l /\ registry' = registry \ {id}
  BY <1>1 DEF DeleteRemove, Job
<1>3. l.pc = "dec" /\ l.op = "delete" /\ l.id = id
  BY DEF Idle
<1> HIDE DEF l
<1>4. ~Updating(Job) /\ ~Updating(l) /\ Job.op # "delete"
  BY <1>2, <1>3 DEF Updating, ClockInv, DeleteInv, DeletePC, SavePC
<1>5. UpdateInv(l, registry', objs')
  BY <1>4 DEF UpdateInv
<1>6. DeleteInv(l, registry', objs')
  <2>1. id \in 1 .. Len(objs) /\ \A a \in registry' : Apart(objs[a].handles, objs[id].handles)
    BY <1>1, <1>2, Facts, OneJob DEF OverlapInv
  <2> QED BY <1>2, <1>3, <2>1 DEF DeleteInv, DeletePC
<1>7. ASSUME NEW e, NEW k, Claims(e, k, l, registry', objs') PROVE Claims(e, k, Job, registry, objs)
  BY <1>2, <1>3, <1>4, <1>7 DEF Claims, EntryOf, ClockFor
<1>8. ASSUME NEW e, Tracked(e, Job, registry, objs) PROVE Tracked(e, l, registry', objs')
  <2>1. PICK k : Claims(e, k, Job, registry, objs)
    BY <1>4, <1>8 DEF Tracked, Owes
  <2>2. PICK a \in registry : \E j \in 1 .. Len(objs[a].handles) : e = objs[a].handles[j] /\ k = objs[a].clock
    BY <1>2, <1>4, <2>1 DEF Claims, EntryOf, ClockFor
  <2>3. CASE a = id
    BY <1>2, <1>3, <2>2, <2>3 DEF Tracked, Owes
  <2>4. CASE a # id
    <3>1. a \in registry'
      BY <1>2, <2>4
    <3>2. Claims(e, k, l, registry', objs')
      BY <1>2, <1>4, <2>2, <3>1 DEF Claims, EntryOf, ClockFor
    <3> QED BY <3>2 DEF Tracked
  <2> QED BY <2>3, <2>4
<1> QED
  BY <1>2, <1>5, <1>6, <1>7, <1>8, CalmClock

(***************************************************************************)
(* What happens to containers and agents by themselves.                    *)
(***************************************************************************)
LEMMA ClusterClock ==
    ASSUME OneClient, RegInv, PageInv, ClockInv, ClusterNext, UNCHANGED ctlVars
    PROVE  ClockInv'
<1>1. UNCHANGED <<objs, registry, Job>> /\ ClusterTypeOK
  BY DEF ctlVars, Job, RegInv, HandleInv, TypeOK
<1>2. UpdateInv(Job', registry', objs') /\ DeleteInv(Job', registry', objs')
  BY <1>1 DEF ClockInv
<1> SUFFICES
      /\ \A e, k : e \in ContainerHandle /\ IssuedFor(e, pages) /\ Shows(e, k) => Shows(e, k)'
      /\ \A c \in Containers : Faked(c)' => Faked(c) /\ hook'[c] = hook[c]
  <2>1. \A e, k : Claims(e, k, Job, registry, objs) => e \in ContainerHandle /\ IssuedFor(e, pages) /\ Shows(e, k)
    BY ClaimIssued DEF ClockInv, ShowInv
  <2>2. \A e, k : Claims(e, k, Job', registry', objs') <=> Claims(e, k, Job, registry, objs)
    BY <1>1
  <2>3. \A e : Tracked(e, Job', registry', objs') <=> Tracked(e, Job, registry, objs)
    BY <1>1
  <2> QED BY <1>2, <2>1, <2>2, <2>3, ClockNext DEF ClockInv, TrackInv
<1>3. \A e \in ContainerHandle : e.c \in Containers /\ NodeOf[e.c] \in Nodes
  BY TopologyAssumption DEF ContainerHandle
<1>4. ASSUME NEW d \in Containers, ContainerStop(d)
      PROVE  /\ \A e, k : e \in ContainerHandle /\ IssuedFor(e, pages) /\ Shows(e, k) => Shows(e, k)'
             /\ \A c \in Containers : Faked(c)' => Faked(c) /\ hook'[c] = hook[c]
  <2>1. /\ \A c \in Containers : /\ up'[c] = IF c = d THEN FALSE ELSE up[c]
                                 /\ hook'[c] = IF c = d THEN 0 ELSE hook[c]
        /\ UNCHANGED <<inc, pages, live>>
    BY <1>1, <1>4 DEF ContainerStop, ClusterTypeOK
  <2>2. ASSUME NEW e \in ContainerHandle, NEW k, Shows(e, k) PROVE Shows(e, k)'
    BY <1>3, <2>1, <2>2 DEF Shows, Alive, Running, Known
  <2>3. ASSUME NEW c \in Containers, Faked(c)' PROVE Faked(c) /\ hook'[c] = hook[c]
    BY <2>1, <2>3 DEF Faked, Known
  <2> QED BY <2>2, <2>3
<1>5. ASSUME NEW d \in Containers, ContainerStart(d)
      PROVE  /\ \A e, k : e \in ContainerHandle /\ IssuedFor(e, pages) /\ Shows(e, k) => Shows(e, k)'
             /\ \A c \in Containers : Faked(c)' => Faked(c) /\ hook'[c] = hook[c]
  <2>1. /\ \A c \in Containers : /\ up'[c] = IF c = d THEN TRUE ELSE up[c]
                                 /\ inc'[c] = IF c = d THEN inc[c] + 1 ELSE inc[c]
        /\ UNCHANGED <<hook, pages, live>>
    BY <1>1, <1>5 DEF ContainerStart, ClusterTypeOK
  <2>2. ASSUME NEW e \in ContainerHandle, IssuedFor(e, pages), NEW k, Shows(e, k) PROVE Shows(e, k)'
    <3>1. CASE e.c = d
      <4>1. e.inc \in Nat /\ inc[d] \in Nat /\ e.inc <= inc[d]
        BY <1>1, <2>2, <3>1 DEF ContainerHandle, ClusterTypeOK, IssuedFor, PageInv
      <4>2. inc'[d] = inc[d] + 1
        BY <2>1
      <4>3. inc'[d] # e.inc
        BY <4>1, <4>2
      <4> QED BY <3>1, <4>3 DEF Shows, Alive, Running
    <3>2. CASE e.c # d
      BY <1>3, <2>1, <2>2, <3>2 DEF Shows, Alive, Running, Known
    <3> QED BY <3>1, <3>2
  <2>3. ASSUME NEW c \in Containers, Faked(c)' PROVE Faked(c) /\ hook'[c] = hook[c]
    BY <2>1, <2>3 DEF Faked, Known
  <2> QED BY <2>2, <2>3
<1>6. ASSUME NEW n \in Nodes, AgentCrash(n)
      PROVE  /\ \A e, k : e \in ContainerHandle /\ IssuedFor(e, pages) /\ Shows(e, k) => Shows(e, k)'
             /\ \A c \in Containers : Faked(c)' => Faked(c) /\ hook'[c] = hook[c]
  <2>1. UNCHANGED <<up, inc, hook, pages>> /\ \A m \in Nodes : live'[m] \subseteq live[m]
    BY <1>1, <1>6 DEF AgentCrash, ClusterTypeOK
  <2>2. ASSUME NEW e \in ContainerHandle, NEW k, Shows(e, k) PROVE Shows(e, k)'
    BY <1>3, <2>1, <2>2 DEF Shows, Alive, Running, Known
  <2>3. ASSUME NEW c \in Containers, Faked(c)' PROVE Faked(c) /\ hook'[c] = hook[c]
    BY <2>1, <2>3, TopologyAssumption DEF Faked, Known
  <2> QED BY <2>2, <2>3
<1>7. ASSUME NEW n \in Nodes, AgentShutdown(n)
      PROVE  /\ \A e, k : e \in ContainerHandle /\ IssuedFor(e, pages) /\ Shows(e, k) => Shows(e, k)'
             /\ \A c \in Containers : Faked(c)' => Faked(c) /\ hook'[c] = hook[c]
  <2>1. /\ UNCHANGED <<up, inc, hook>>
        /\ \A m \in Nodes : live'[m] = IF m = n THEN {} ELSE live[m]
        /\ \A j \in 1 .. Len(pages) :
               pages'[j].clock = IF j \in live[n] /\ ProcessAlive(j) THEN Real ELSE pages[j].clock
    BY <1>1, <1>7, Drained
  <2>2. ASSUME NEW e \in ContainerHandle, IssuedFor(e, pages), NEW k, Shows(e, k) PROVE Shows(e, k)'
    <3>1. e.h \in 1 .. Len(pages) /\ pages[e.h].c = e.c
      BY <2>2 DEF IssuedFor
    <3>2. e.h \in live[n] => NodeOf[e.c] = n
      BY <3>1 DEF PageInv
    <3>3. e.h \notin live'[n] /\ (~Known(e.h, e.c) => ~Known(e.h, e.c)')
      BY <1>3, <2>1 DEF Known
    <3>4. pages'[e.h].clock = pages[e.h].clock \/ (pages'[e.h].clock = Real /\ ~Known(e.h, e.c)')
      BY <2>1, <3>1, <3>2, <3>3 DEF Known
    <3>5. Alive(e)' <=> Alive(e)
      BY <2>1 DEF Alive, Running
    <3> QED BY <2>1, <2>2, <3>3, <3>4, <3>5 DEF Shows
  <2>3. ASSUME NEW c \in Containers, Faked(c)' PROVE Faked(c) /\ hook'[c] = hook[c]
    <3>1. hook'[c] = hook[c] /\ hook[c] \in 1 .. Len(pages) /\ pages[hook[c]].c = c
      BY <2>1, <2>3 DEF Faked, PageInv
    <3>2. NodeOf[c] \in Nodes /\ hook[c] \in live'[NodeOf[c]]
      BY <2>3, <3>1, TopologyAssumption DEF Faked, Known
    <3>3. hook[c] \in live[NodeOf[c]] /\ NodeOf[c] # n
      BY <2>1, <3>2
    <3>4. hook[c] \notin live[n]
      BY <3>1, <3>3 DEF PageInv
    <3>5. pages'[hook[c]].clock = pages[hook[c]].clock
      BY <2>1, <3>1, <3>4
    <3> QED BY <2>3, <3>1, <3>3, <3>5 DEF Faked, Known
  <2> QED BY <2>2, <2>3
<1> QED
  BY <1>4, <1>5, <1>6, <1>7 DEF ClusterNext

(***************************************************************************)
(* Calls that reach an agent.                                              *)
(***************************************************************************)
\* An injection shows in the container it is for and in no other.
LEMMA InstallClock ==
    ASSUME ClusterTypeOK, PageInv, NEW cid \in ContainerID, NEW k \in Clock, Install(cid, k),
           NEW n, n.c = cid.c, n.h = NewHandle
    PROVE  /\ Shows(n, k)' /\ hook'[cid.c] = NewHandle
           /\ \A f \in ContainerHandle : \A m :
                  IssuedFor(f, pages) /\ f.c # cid.c /\ Shows(f, m) => Shows(f, m)'
           /\ \A c \in Containers : c # cid.c /\ Faked(c)' => Faked(c) /\ hook'[c] = hook[c]
<1>1. /\ hook'[cid.c] = NewHandle /\ pages'[NewHandle].clock = k /\ NewHandle \notin 1 .. Len(pages)
      /\ up' = up /\ inc' = inc /\ \A h \in 1 .. Len(pages) : pages'[h] = pages[h]
      /\ \A c \in Containers : c # cid.c => hook'[c] = hook[c]
  BY Installed
<1>2. \A d \in Nodes : \A h \in 1 .. Len(pages) : h \in live'[d] <=> h \in live[d]
  <2>1. \A d \in Nodes : live'[d] = live[d] \/ live'[d] = live[d] \union {NewHandle}
    BY Installed
  <2> QED BY <1>1, <2>1
<1>3. Shows(n, k)'
  BY <1>1 DEF Shows
<1>4. ASSUME NEW f \in ContainerHandle, NEW m, IssuedFor(f, pages), f.c # cid.c, Shows(f, m) PROVE Shows(f, m)'
  <2>1. f.c \in Containers /\ NodeOf[f.c] \in Nodes /\ f.h \in 1 .. Len(pages)
    BY <1>4, TopologyAssumption DEF ContainerHandle, IssuedFor
  <2>2. Known(f.h, f.c)' <=> Known(f.h, f.c)
    BY <1>2, <2>1 DEF Known
  <2>3. Alive(f)' <=> Alive(f)
    BY <1>1 DEF Alive, Running
  <2> QED BY <1>1, <1>4, <2>1, <2>2, <2>3 DEF Shows
<1>5. ASSUME NEW c \in Containers, c # cid.c, Faked(c)' PROVE Faked(c) /\ hook'[c] = hook[c]
  <2>1. hook'[c] = hook[c] /\ hook[c] \in 1 .. Len(pages) /\ NodeOf[c] \in Nodes
    BY <1>1, <1>5, TopologyAssumption DEF Faked, PageInv
  <2> QED BY <1>1, <1>2, <1>5, <2>1 DEF Faked, Known
<1> QED
  BY <1>1, <1>3, <1>4, <1>5

\* So does a write.
LEMMA WriteClock ==
    ASSUME ClusterTypeOK, PageInv, NEW h \in 1 .. Len(pages), NEW k \in Clock, WritePage(h, k)
    PROVE  /\ hook' = hook
           /\ \A f, m : IssuedFor(f, pages) /\ f.h # h /\ Shows(f, m) => Shows(f, m)'
           /\ \A f, m : f.h = h /\ Shows(f, m) => Shows(f, k)'
           /\ \A c \in Containers : Faked(c)' => /\ hook[c] = h => k # Real
                                                 /\ hook[c] # h => Faked(c)
<1>1. /\ up' = up /\ inc' = inc /\ hook' = hook /\ live' = live
      /\ \A j \in 1 .. Len(pages) : pages'[j].clock = IF j = h THEN k ELSE pages[j].clock
  BY Written
<1>2. ASSUME NEW f, NEW m, IssuedFor(f, pages), f.h # h, Shows(f, m) PROVE Shows(f, m)'
  <2>1. pages'[f.h].clock = pages[f.h].clock
    BY <1>1, <1>2 DEF IssuedFor
  <2> QED BY <1>1, <1>2, <2>1 DEF Shows, Alive, Running, Known
<1>3. ASSUME NEW f, NEW m, f.h = h, Shows(f, m) PROVE Shows(f, k)'
  <2>1. pages'[f.h].clock = k
    BY <1>1, <1>3
  <2> QED BY <1>1, <1>3, <2>1 DEF Shows, Alive, Running
<1>4. ASSUME NEW c \in Containers, Faked(c)' PROVE (hook[c] = h => k # Real) /\ (hook[c] # h => Faked(c))
  <2>1. hook[c] # 0 /\ hook[c] \in 1 .. Len(pages) /\ pages'[hook[c]].clock # Real
    BY <1>1, <1>4 DEF Faked, PageInv
  <2> QED BY <1>1, <1>4, <2>1 DEF Faked, Known
<1> QED
  BY <1>1, <1>2, <1>3, <1>4

\* A create claims the container it has injected.
LEMMA InjectOkClock ==
    ASSUME OneClient, RegInv, OverlapInv, PageInv, ClockInv, NEW cid \in thr[Client].todo, InjectOk(Client, cid)
    PROVE  ClockInv'
<1> DEFINE e == [c |-> cid.c, inc |-> cid.inc, h |-> NewHandle]
           l == [Job EXCEPT !.todo = @ \ {cid}, !.hs = Append(@, e)]
<1>1. /\ Client \in Threads /\ Client \in Workers /\ thr \in [Threads -> Thread] /\ Job \in Thread
      /\ Job.hs \in Seq(ContainerHandle) /\ cid \in Job.todo /\ cid \in ContainerID /\ Job.clock \in Clock
      /\ ClusterTypeOK
  BY OneJob, Facts DEF Thread, Job
<1>2. /\ UNCHANGED <<objs, registry>> /\ Job.pc = "inject" /\ Job' = l /\ Install(cid, Job.clock)
  BY <1>1 DEF InjectOk, Job
<1>3. e.c = cid.c /\ e.h = NewHandle
  OBVIOUS
<1> HIDE DEF e
<1>4. /\ l.pc = Job.pc /\ l.op = Job.op /\ l.id = Job.id /\ l.clock = Job.clock
      /\ l.hs = Append(Job.hs, e)
  BY <1>1 DEF Thread
<1> HIDE DEF l
<1>5. /\ \A f, m : f = e /\ m = Job.clock => Shows(f, m)'
      /\ hook'[cid.c] = NewHandle
      /\ \A f \in ContainerHandle : \A m : IssuedFor(f, pages) /\ f.c # cid.c /\ Shows(f, m) => Shows(f, m)'
      /\ \A c \in Containers : c # cid.c /\ Faked(c)' => Faked(c) /\ hook'[c] = hook[c]
  BY <1>1, <1>2, <1>3, InstallClock
<1>6. ~Updating(Job) /\ ~Updating(l) /\ Job.op # "delete" /\ UpdateInv(Job, registry, objs)
  BY <1>2, <1>4 DEF Updating, ClockInv, DeleteInv, DeletePC, SavePC
<1>7. UpdateInv(l, registry, objs) /\ DeleteInv(l, registry, objs)
  BY <1>2, <1>4, <1>6 DEF UpdateInv, ClockInv, DeleteInv
<1>8. /\ Len(Job.hs) \in Nat /\ Len(l.hs) = Len(Job.hs) + 1 /\ l.hs[Len(Job.hs) + 1] = e
      /\ \A j \in 1 .. Len(Job.hs) : l.hs[j] = Job.hs[j]
  BY <1>1, <1>4
<1>9. ASSUME NEW f, NEW m, Claims(f, m, l, registry, objs)
      PROVE  (f = e /\ m = Job.clock) \/ (Claims(f, m, Job, registry, objs) /\ f.c # cid.c)
  <2>1. ASSUME NEW id \in registry, NEW j \in 1 .. Len(objs[id].handles), f = objs[id].handles[j], m = objs[id].clock
        PROVE  Claims(f, m, Job, registry, objs) /\ f.c # cid.c
    <3>1. f.c # cid.c
      BY <1>1, <1>2, <2>1 DEF OverlapInv, FreeInv, Job
    <3> QED BY <1>6, <2>1, <3>1 DEF Claims, EntryOf, ClockFor
  <2>2. ASSUME m = l.clock, NEW j \in 1 .. Len(l.hs), f = l.hs[j]
        PROVE  (f = e /\ m = Job.clock) \/ (Claims(f, m, Job, registry, objs) /\ f.c # cid.c)
    <3>1. CASE j = Len(Job.hs) + 1
      BY <1>4, <1>8, <2>2, <3>1
    <3>2. CASE j # Len(Job.hs) + 1
      <4>1. j \in 1 .. Len(Job.hs) /\ f = Job.hs[j]
        BY <1>8, <2>2, <3>2
      <4>2. EntryInv(Job)
        BY <1>1 DEF RegInv, Job
      <4>3. f.c # cid.c
        BY <1>1, <1>2, <4>1, <4>2 DEF EntryInv, Collect
      <4> QED BY <1>2, <1>4, <2>2, <4>1, <4>3 DEF Claims
    <3> QED BY <3>1, <3>2
  <2> QED BY <1>6, <1>9, <2>1, <2>2 DEF Claims, EntryOf, ClockFor
<1>10. ASSUME NEW f, NEW m, Claims(f, m, l, registry, objs) PROVE Shows(f, m)'
  <2>1. CASE f = e /\ m = Job.clock
    BY <1>5, <2>1
  <2>2. CASE Claims(f, m, Job, registry, objs) /\ f.c # cid.c
    <3>1. f \in ContainerHandle /\ IssuedFor(f, pages) /\ Shows(f, m)
      BY <1>6, <2>2, ClaimIssued DEF ClockInv, ShowInv
    <3> QED BY <1>5, <2>2, <3>1
  <2> QED BY <1>9, <1>10, <2>1, <2>2
<1>11. ASSUME NEW f, NEW m, Claims(f, m, Job, registry, objs) PROVE Claims(f, m, l, registry, objs)
  <2>1. CASE \E id \in registry : \E j \in 1 .. Len(objs[id].handles) :
                 f = objs[id].handles[j] /\ m = objs[id].clock
    BY <1>6, <2>1 DEF Claims, EntryOf, ClockFor
  <2>2. CASE m = Job.clock /\ \E j \in 1 .. Len(Job.hs) : f = Job.hs[j]
    <3>1. PICK j \in 1 .. Len(Job.hs) : f = Job.hs[j]
      BY <2>2
    <3>2. j \in 1 .. Len(l.hs) /\ f = l.hs[j]
      BY <1>8, <3>1
    <3> QED BY <1>2, <1>4, <2>2, <3>2 DEF Claims
  <2> QED BY <1>6, <1>11, <2>1, <2>2 DEF Claims, EntryOf, ClockFor
<1>12. ASSUME NEW c \in Containers, Faked(c)'
       PROVE  \E f : f.c = c /\ f.h = hook'[c] /\ Tracked(f, l, registry, objs)
  <2>1. CASE c = cid.c
    <3>1. Len(l.hs) \in 1 .. Len(l.hs) /\ l.hs[Len(l.hs)] = e
      BY <1>8
    <3>2. Claims(e, Job.clock, l, registry, objs)
      BY <1>2, <1>4, <3>1 DEF Claims
    <3> QED BY <1>3, <1>5, <2>1, <3>2 DEF Tracked
  <2>2. CASE c # cid.c
    <3>1. Faked(c) /\ hook'[c] = hook[c]
      BY <1>5, <1>12, <2>2
    <3>2. PICK f : f.c = c /\ f.h = hook[c] /\ Tracked(f, Job, registry, objs)
      BY <3>1 DEF ClockInv, TrackInv
    <3>3. Tracked(f, l, registry, objs)
      BY <1>6, <1>11, <3>2 DEF Tracked, Owes
    <3> QED BY <3>1, <3>2, <3>3
  <2> QED BY <2>1, <2>2
<1> QED
  BY <1>2, <1>7, <1>10, <1>12, ClockNext

\* No other entry is for the container an update is at.
LEMMA Elsewhere ==
    ASSUME OneClient, RegInv, OverlapInv, UpdateInv(Job, registry, objs), Updating(Job), Job.i <= Len(Job.hs),
           NEW id \in registry, NEW j \in 1 .. Len(objs[id].handles), id # Job.id \/ j # Job.i
    PROVE  EntryOf(id, j, Job, objs).c # Job.hs[Job.i].c
<1>1. /\ Job.id \in registry /\ Job.hs = objs[Job.id].handles /\ Job.i \in 1 .. Len(Job.hs)
      /\ registry \subseteq 1 .. Len(objs)
  BY Here, OneJob, Facts
<1>2. EntryOf(id, j, Job, objs).c = objs[id].handles[j].c
  BY EntryFacts
<1>3. CASE id = Job.id
  <2>1. Distinct(objs[id].handles)
    BY <1>1 DEF RegInv
  <2> QED BY <1>1, <1>2, <1>3, <2>1 DEF Distinct
<1>4. CASE id # Job.id
  <2>1. Apart(objs[id].handles, objs[Job.id].handles)
    BY <1>1, <1>4 DEF OverlapInv
  <2> QED BY <1>1, <1>2, <2>1 DEF Apart
<1> QED
  BY <1>3, <1>4

\* A SetTime moves one process to the new clock, and no other entry is on its page.
LEMMA SetTimeOkClock ==
    ASSUME OneClient, RegInv, OverlapInv, PageInv, ClockInv, SetTimeOk(Client)
    PROVE  ClockInv'
<1> DEFINE e == Job.hs[Job.i]
           l == [Job EXCEPT !.i = @ + 1]
<1>1. /\ Client \in Threads /\ thr \in [Threads -> Thread] /\ Job \in Thread /\ Job.i \in Nat
      /\ Job.clock \in Clock /\ ClusterTypeOK /\ Job.upd \subseteq [idx : Nat, new : Nat]
  BY OneJob, Facts DEF Thread
<1>2. /\ UNCHANGED <<objs, registry>> /\ Job.pc = "settime" /\ Job.i <= Len(Job.hs) /\ Job' = l
      /\ WritePage(e.h, Job.clock)
  BY <1>1 DEF SetTimeOk, AtHandle, CurHandle, NextHandle, Job
<1>3. /\ l.pc = Job.pc /\ l.op = Job.op /\ l.id = Job.id /\ l.hs = Job.hs /\ l.clock = Job.clock
      /\ l.upd = Job.upd /\ l.i = Job.i + 1
  BY <1>1 DEF Thread
<1> HIDE DEF l
<1>4. Updating(Job) /\ Updating(l) /\ Job.op # "delete" /\ UpdateInv(Job, registry, objs) /\ Job.pc \notin DeletePC
  BY <1>2, <1>3 DEF Updating, ClockInv, DeleteInv, DeletePC, SavePC
<1>5. /\ Job.id \in registry /\ Job.hs = objs[Job.id].handles /\ Job.i \in 1 .. Len(Job.hs)
      /\ IssuedFor(e, pages) /\ EntryOf(Job.id, Job.i, Job, objs) = e
  BY <1>2, <1>4, Here
<1> HIDE DEF e
<1>6. e.h \in 1 .. Len(pages) /\ pages[e.h].c = e.c
  BY <1>5 DEF IssuedFor
<1>7. /\ hook' = hook
      /\ \A f, m : IssuedFor(f, pages) /\ f.h # e.h /\ Shows(f, m) => Shows(f, m)'
      /\ \A f, m, k : f.h = e.h /\ Shows(f, m) /\ k = Job.clock => Shows(f, k)'
      /\ \A c \in Containers : Faked(c)' /\ hook[c] # e.h => Faked(c)
  BY <1>1, <1>2, <1>6, WriteClock
<1>8. UpdateInv(l, registry, objs) /\ DeleteInv(l, registry, objs)
  <2>1. \A u \in Job.upd : u.idx \in Nat /\ u.idx < Job.i
    BY <1>1, <1>4 DEF UpdateInv
  <2> QED BY <1>1, <1>2, <1>3, <1>4, <2>1 DEF UpdateInv, ClockInv, DeleteInv
<1>9. \A id, j : EntryOf(id, j, l, objs) = EntryOf(id, j, Job, objs)
  BY <1>3, <1>4 DEF EntryOf
<1>10. ASSUME NEW id, NEW j \in Int
       PROVE  /\ ClockFor(id, j, Job, objs) = IF id = Job.id /\ j < Job.i THEN Job.clock ELSE objs[id].clock
              /\ ClockFor(id, j, l, objs) = IF id = Job.id /\ j < Job.i + 1 THEN Job.clock ELSE objs[id].clock
  BY <1>3, <1>4 DEF ClockFor
<1>11. ASSUME NEW f, NEW k, Claims(f, k, l, registry, objs) PROVE Shows(f, k)'
  <2>1. PICK id \in registry : \E j \in 1 .. Len(objs[id].handles) :
            f = EntryOf(id, j, Job, objs) /\ k = ClockFor(id, j, l, objs)
    BY <1>2, <1>3, <1>9, <1>11 DEF Claims
  <2>2. PICK j \in 1 .. Len(objs[id].handles) : f = EntryOf(id, j, Job, objs) /\ k = ClockFor(id, j, l, objs)
    BY <2>1
  <2>3. PICK m : m = ClockFor(id, j, Job, objs)
    OBVIOUS
  <2>4. Claims(f, m, Job, registry, objs)
    BY <2>2, <2>3 DEF Claims
  <2>5. IssuedFor(f, pages) /\ Shows(f, m)
    BY <1>4, <2>4, ClaimIssued DEF ClockInv, ShowInv
  <2>6. CASE id = Job.id /\ j = Job.i
    <3>1. k = Job.clock
      BY <1>1, <1>10, <2>2, <2>6
    <3>2. f.h = e.h
      BY <1>5, <2>2, <2>6
    <3> QED BY <1>7, <2>5, <3>1, <3>2
  <2>7. CASE id # Job.id \/ j # Job.i
    <3>1. f.c # e.c
      BY <1>2, <1>4, <2>2, <2>7, Elsewhere DEF e
    <3>2. f.h # e.h
      BY <1>6, <2>5, <3>1 DEF IssuedFor
    <3>3. k = m
      <4>1. j \in Int
        OBVIOUS
      <4>2. id = Job.id => (j < Job.i <=> j < Job.i + 1)
        BY <1>1, <2>7, <4>1
      <4> QED BY <1>10, <2>2, <2>3, <4>1, <4>2
    <3> QED BY <1>7, <2>5, <3>2, <3>3
  <2> QED BY <2>6, <2>7
<1>12. ASSUME NEW c \in Containers, Faked(c)'
       PROVE  \E f : f.c = c /\ f.h = hook'[c] /\ Tracked(f, l, registry, objs)
  <2>1. CASE hook[c] = e.h
    <3>1. e.c = c
      BY <1>6, <1>7, <1>12, <2>1 DEF Faked, PageInv
    <3>2. Claims(e, ClockFor(Job.id, Job.i, l, objs), l, registry, objs)
      BY <1>5, <1>9 DEF Claims
    <3> QED BY <1>7, <2>1, <3>1, <3>2 DEF Tracked
  <2>2. CASE hook[c] # e.h
    <3>1. Faked(c)
      BY <1>7, <1>12, <2>2
    <3>2. PICK f : f.c = c /\ f.h = hook[c] /\ Tracked(f, Job, registry, objs)
      BY <3>1 DEF ClockInv, TrackInv
    <3>3. PICK id \in registry : \E j \in 1 .. Len(objs[id].handles) : f = EntryOf(id, j, Job, objs)
      BY <1>2, <1>4, <3>2 DEF Tracked, Owes, Claims
    <3>4. PICK j \in 1 .. Len(objs[id].handles) : f = EntryOf(id, j, Job, objs)
      BY <3>3
    <3>5. Claims(f, ClockFor(id, j, l, objs), l, registry, objs)
      BY <1>9, <3>4 DEF Claims
    <3> QED BY <1>7, <3>2, <3>5 DEF Tracked
  <2> QED BY <2>1, <2>2
<1> QED
  BY <1>2, <1>8, <1>11, <1>12, ClockNext

\* A re-injected container is claimed through its new handle.
LEMMA ReinjectOkClock ==
    ASSUME OneClient, RegInv, OverlapInv, PageInv, ClockInv, ReinjectOk(Client)
    PROVE  ClockInv'
<1> DEFINE e == Job.hs[Job.i]
           cid == CurContainerID(Client)
           n == [e EXCEPT !.h = NewHandle]
           v == [idx |-> Job.i, new |-> NewHandle]
           l == [Job EXCEPT !.pc = "settime", !.i = @ + 1, !.upd = @ \union {v}]
<1>1. /\ Client \in Threads /\ thr \in [Threads -> Thread] /\ Job \in Thread /\ Job.i \in Nat
      /\ Job.clock \in Clock /\ ClusterTypeOK /\ Job.upd \subseteq [idx : Nat, new : Nat]
  BY OneJob, Facts DEF Thread
<1>2. /\ UNCHANGED <<objs, registry>> /\ Job.pc = "reinject" /\ Job' = l
      /\ Install(cid, Job.clock) /\ cid \in ContainerID /\ cid.c = e.c
  <2>1. Job.pc = "reinject" /\ cid.c = e.c
    BY DEF ReinjectOk, CurContainerID, CurHandle, Job
  <2>2. cid \in ContainerID
    BY <1>1, <2>1, OneJob, CurContainerOK DEF Job
  <2> QED BY <1>1, <2>1, <2>2 DEF ReinjectOk, Job
<1> HIDE DEF cid
<1>3. /\ l.pc = "settime" /\ l.op = Job.op /\ l.id = Job.id /\ l.hs = Job.hs /\ l.clock = Job.clock
      /\ l.upd = Job.upd \union {v} /\ l.i = Job.i + 1 /\ v.idx = Job.i /\ v.new = NewHandle
  BY <1>1 DEF Thread
<1> HIDE DEF l, v
<1>4. /\ Updating(Job) /\ Updating(l) /\ Job.op # "delete" /\ UpdateInv(Job, registry, objs)
      /\ Job.pc \notin DeletePC /\ Job.i <= Len(Job.hs)
  BY <1>2, <1>3, OneJob DEF Updating, ClockInv, DeleteInv, DeletePC, SavePC, ThreadInv
<1>5. /\ Job.id \in registry /\ Job.hs = objs[Job.id].handles /\ Job.i \in 1 .. Len(Job.hs)
      /\ Job.hs \in Seq(ContainerHandle)
      /\ e \in ContainerHandle /\ IssuedFor(e, pages) /\ EntryOf(Job.id, Job.i, Job, objs) = e
  BY <1>4, Here
<1>6. n.c = cid.c /\ n.h = NewHandle
  BY <1>2, <1>5 DEF ContainerHandle
<1>7. /\ \A f, k : f = n /\ k = Job.clock => Shows(f, k)'
      /\ hook'[cid.c] = NewHandle
      /\ \A f \in ContainerHandle : \A m : IssuedFor(f, pages) /\ f.c # cid.c /\ Shows(f, m) => Shows(f, m)'
      /\ \A c \in Containers : c # cid.c /\ Faked(c)' => Faked(c) /\ hook'[c] = hook[c]
  <2> HIDE DEF n
  <2> QED BY <1>1, <1>2, <1>6, InstallClock
<1>8. \A u \in Job.upd : u.idx \in Nat /\ u.idx < Job.i /\ u.idx # Job.i
  BY <1>1, <1>4 DEF UpdateInv
<1>9. UpdateInv(l, registry, objs) /\ DeleteInv(l, registry, objs)
  <2>1. \A u \in l.upd : u.idx < l.i
    BY <1>1, <1>3, <1>8
  <2>2. \A u, w \in l.upd : u.idx = w.idx => u = w
    BY <1>3, <1>4, <1>8 DEF UpdateInv
  <2> QED BY <1>3, <1>4, <1>5, <2>1, <2>2 DEF UpdateInv, ClockInv, DeleteInv, Updating
<1>10. EntryOf(Job.id, Job.i, l, objs) = n
  <2>1. v \in l.upd /\ \A w \in l.upd : w.idx = Job.i => w = v
    BY <1>3, <1>8
  <2>2. Refreshed(Job.hs, Job.hs, l.upd)[Job.i] = [Job.hs[Job.i] EXCEPT !.h = v.new]
    BY <1>3, <1>5, <2>1, RefreshedAt
  <2> QED BY <1>3, <1>4, <1>5, <2>2 DEF EntryOf
<1> HIDE DEF n
<1>11. ASSUME NEW id \in registry, NEW j \in 1 .. Len(objs[id].handles), id # Job.id \/ j # Job.i
       PROVE  EntryOf(id, j, l, objs) = EntryOf(id, j, Job, objs)
  <2>1. CASE id # Job.id
    BY <1>3, <2>1 DEF EntryOf
  <2>2. CASE id = Job.id /\ j # Job.i
    <3>1. j \in 1 .. Len(Job.hs)
      BY <1>5, <2>2
    <3>2. CASE \E u \in Job.upd : u.idx = j
      <4>1. PICK u \in Job.upd : u.idx = j
        BY <3>2
      <4>2. /\ u \in l.upd /\ \A w \in Job.upd : w.idx = j => w = u
            /\ \A w \in l.upd : w.idx = j => w = u
        BY <1>3, <1>4, <2>2, <4>1 DEF UpdateInv
      <4>3. Refreshed(Job.hs, Job.hs, Job.upd)[j] = [Job.hs[j] EXCEPT !.h = u.new]
        BY <1>5, <3>1, <4>1, <4>2, RefreshedAt
      <4>4. Refreshed(Job.hs, Job.hs, l.upd)[j] = [Job.hs[j] EXCEPT !.h = u.new]
        BY <1>5, <3>1, <4>1, <4>2, RefreshedAt
      <4> QED BY <1>3, <1>4, <1>5, <2>2, <4>3, <4>4 DEF EntryOf
    <3>3. CASE \A u \in Job.upd : u.idx # j
      <4>1. \A u \in l.upd : u.idx # j
        BY <1>3, <2>2, <3>3
      <4>2. Refreshed(Job.hs, Job.hs, l.upd)[j] = Refreshed(Job.hs, Job.hs, Job.upd)[j]
        BY <1>5, <3>1, <3>3, <4>1, RefreshedAt
      <4> QED BY <1>3, <1>4, <1>5, <2>2, <4>2 DEF EntryOf
    <3> QED BY <3>2, <3>3
  <2> QED BY <1>11, <2>1, <2>2
<1>12. ASSUME NEW id, NEW j \in Int
       PROVE  /\ ClockFor(id, j, Job, objs) = IF id = Job.id /\ j < Job.i THEN Job.clock ELSE objs[id].clock
              /\ ClockFor(id, j, l, objs) = IF id = Job.id /\ j < Job.i + 1 THEN Job.clock ELSE objs[id].clock
  BY <1>3, <1>4 DEF ClockFor
<1>13. ASSUME NEW f, NEW k, Claims(f, k, l, registry, objs) PROVE Shows(f, k)'
  <2>1. PICK id \in registry : \E j \in 1 .. Len(objs[id].handles) :
            f = EntryOf(id, j, l, objs) /\ k = ClockFor(id, j, l, objs)
    BY <1>3, <1>13 DEF Claims
  <2>2. PICK j \in 1 .. Len(objs[id].handles) : f = EntryOf(id, j, l, objs) /\ k = ClockFor(id, j, l, objs)
    BY <2>1
  <2>3. CASE id = Job.id /\ j = Job.i
    <3>1. k = Job.clock
      BY <1>1, <1>12, <2>2, <2>3
    <3>2. f = n
      BY <1>10, <2>2, <2>3
    <3> QED BY <1>7, <3>1, <3>2
  <2>4. CASE id # Job.id \/ j # Job.i
    <3>1. f = EntryOf(id, j, Job, objs)
      BY <1>11, <2>2, <2>4
    <3>2. f.c # cid.c
      BY <1>2, <1>4, <2>4, <3>1, Elsewhere
    <3>3. k = ClockFor(id, j, Job, objs)
      <4>1. j \in Int
        OBVIOUS
      <4>2. id = Job.id => (j < Job.i <=> j < Job.i + 1)
        BY <1>1, <2>4, <4>1
      <4> QED BY <1>12, <2>2, <4>1, <4>2
    <3>4. Claims(f, k, Job, registry, objs)
      BY <3>1, <3>3 DEF Claims
    <3>5. f \in ContainerHandle /\ IssuedFor(f, pages) /\ Shows(f, k)
      BY <1>4, <3>4, ClaimIssued DEF ClockInv, ShowInv
    <3> QED BY <1>7, <3>2, <3>5
  <2> QED BY <2>3, <2>4
<1>14. ASSUME NEW c \in Containers, Faked(c)'
       PROVE  \E f : f.c = c /\ f.h = hook'[c] /\ Tracked(f, l, registry, objs)
  <2>1. CASE c = cid.c
    <3>1. Claims(n, ClockFor(Job.id, Job.i, l, objs), l, registry, objs)
      BY <1>5, <1>10 DEF Claims
    <3> QED BY <1>6, <1>7, <2>1, <3>1 DEF Tracked
  <2>2. CASE c # cid.c
    <3>1. Faked(c) /\ hook'[c] = hook[c]
      BY <1>7, <1>14, <2>2
    <3>2. PICK f : f.c = c /\ f.h = hook[c] /\ Tracked(f, Job, registry, objs)
      BY <3>1 DEF ClockInv, TrackInv
    <3>3. PICK id \in registry : \E j \in 1 .. Len(objs[id].handles) : f = EntryOf(id, j, Job, objs)
      BY <1>2, <1>4, <3>2 DEF Tracked, Owes, Claims
    <3>4. PICK j \in 1 .. Len(objs[id].handles) : f = EntryOf(id, j, Job, objs)
      BY <3>3
    <3>5. id # Job.id \/ j # Job.i
      BY <1>2, <1>5, <2>2, <3>2, <3>4
    <3>6. Claims(f, ClockFor(id, j, l, objs), l, registry, objs)
      BY <1>11, <3>4, <3>5 DEF Claims
    <3> QED BY <3>1, <3>2, <3>6 DEF Tracked
  <2> QED BY <2>1, <2>2
<1> QED
  BY <1>2, <1>9, <1>13, <1>14, ClockNext

\* A reset clears a container that only the deleted timeshift had.
LEMMA ResetOkClock ==
    ASSUME OneClient, RegInv, OverlapInv, PageInv, ClockInv, ResetOk(Client)
    PROVE  ClockInv'
<1> DEFINE handles == objs[Job.id].handles
           e == handles[Job.i]
           l == [Job EXCEPT !.i = @ + 1]
<1>1. /\ Client \in Threads /\ thr \in [Threads -> Thread] /\ Job \in Thread /\ Job.i \in Nat /\ Job.i >= 1
      /\ HandleInv /\ ClusterTypeOK /\ objs \in Seq(Timeshift) /\ Real \in Clock
  <2>1. Client \in Threads /\ thr \in [Threads -> Thread] /\ Job \in Thread /\ HandleInv /\ Job.i >= 1
    BY OneJob DEF ThreadInv
  <2>2. Job.i \in Nat
    BY <2>1 DEF Thread
  <2> QED BY <2>1, <2>2, Facts DEF Real, Clock
<1>2. /\ UNCHANGED <<objs, registry>> /\ Job.pc = "reset" /\ Job.i <= Len(handles) /\ Job' = l
      /\ WritePage(e.h, Real)
  BY <1>1 DEF ResetOk, AtReset, CurReset, NextHandle, Job
<1>3. l.pc = Job.pc /\ l.op = Job.op /\ l.id = Job.id /\ l.i = Job.i + 1
  BY <1>1 DEF Thread
<1> HIDE DEF l
<1>4. /\ Job.op = "delete" /\ Job.id \in 1 .. Len(objs)
      /\ \A id \in registry : Apart(objs[id].handles, handles)
      /\ UpdateInv(Job, registry, objs) /\ ~Updating(Job) /\ ~Updating(l)
  BY <1>2, <1>3 DEF ClockInv, DeleteInv, Updating
<1>5. Job.i \in 1 .. Len(handles) /\ IssuedFor(e, pages)
  <2>1. objs[Job.id] \in Timeshift /\ AllIssued(handles, pages)
    BY <1>1, <1>4, ElementOfSeq DEF HandleInv
  <2>2. Len(handles) \in Nat
    BY <2>1, LenProperties DEF Timeshift
  <2> QED BY <1>1, <1>2, <2>1, <2>2 DEF AllIssued
<1> HIDE DEF e
<1>6. e.h \in 1 .. Len(pages) /\ pages[e.h].c = e.c
  BY <1>5 DEF IssuedFor
<1>7. /\ hook' = hook
      /\ \A f, m : IssuedFor(f, pages) /\ f.h # e.h /\ Shows(f, m) => Shows(f, m)'
      /\ \A c \in Containers : Faked(c)' => hook[c] # e.h /\ Faked(c)
  BY <1>1, <1>2, <1>6, WriteClock
<1>8. UpdateInv(l, registry, objs) /\ DeleteInv(l, registry, objs)
  BY <1>2, <1>3, <1>4 DEF UpdateInv, ClockInv, DeleteInv
<1>9. \A f, m : Claims(f, m, l, registry, objs) <=> Claims(f, m, Job, registry, objs)
  <2>1. Slide(Job, l)
    BY <1>2, <1>3, <1>4 DEF Slide
  <2> QED BY <2>1, SlideClaims
<1>10. ASSUME NEW f, NEW m, Claims(f, m, l, registry, objs) PROVE Shows(f, m)'
  <2>1. Claims(f, m, Job, registry, objs)
    BY <1>9, <1>10
  <2>2. IssuedFor(f, pages) /\ Shows(f, m)
    BY <1>4, <2>1, ClaimIssued DEF ClockInv, ShowInv
  <2>3. PICK id \in registry : \E j \in 1 .. Len(objs[id].handles) : f = objs[id].handles[j]
    BY <1>2, <1>4, <2>1 DEF Claims, EntryOf
  <2>4. f.c # e.c
    BY <1>4, <1>5, <2>3 DEF Apart, e
  <2>5. f.h # e.h
    BY <1>6, <2>2, <2>4 DEF IssuedFor
  <2> QED BY <1>7, <2>2, <2>5
<1>11. ASSUME NEW c \in Containers, Faked(c)'
       PROVE  \E f : f.c = c /\ f.h = hook'[c] /\ Tracked(f, l, registry, objs)
  <2>1. Faked(c) /\ hook[c] # e.h /\ hook' = hook
    BY <1>7, <1>11
  <2>2. PICK f : f.c = c /\ f.h = hook[c] /\ Tracked(f, Job, registry, objs)
    BY <2>1 DEF ClockInv, TrackInv
  <2>3. CASE Owes(f, Job, objs)
    <3>1. PICK j \in 1 .. Len(handles) : j >= Job.i /\ f = handles[j]
      BY <1>2, <2>3 DEF Owes
    <3>2. j # Job.i
      BY <2>1, <2>2, <3>1 DEF e
    <3>3. j >= l.i
      BY <1>1, <1>3, <3>1, <3>2
    <3>4. Owes(f, l, objs)
      BY <1>3, <1>4, <3>1, <3>3 DEF Owes
    <3> QED BY <2>1, <2>2, <3>4 DEF Tracked
  <2>4. CASE \E k : Claims(f, k, Job, registry, objs)
    BY <1>9, <2>1, <2>2, <2>4 DEF Tracked
  <2> QED BY <2>2, <2>3, <2>4 DEF Tracked
<1> QED
  BY <1>2, <1>8, <1>10, <1>11, ClockNext

(***************************************************************************)
(* Every step.                                                             *)
(***************************************************************************)
\* Only a restart counts as one.
LEMMA CrashCount ==
    ASSUME OneClient, RegInv, CalmInv, StoreInv, [Next]_vars
    PROVE  IF CrashRestore THEN used'.crashes # 0 ELSE used'.crashes = used.crashes
<1>1. Workers = {Client} /\ ~(used.faults < MaxFaults) /\ used \in UsedType /\ ~CallFails(Client)
  BY OneJob, NoFault, Facts
<1>2. ASSUME CrashRestore PROVE used'.crashes # 0
  BY <1>1, <1>2 DEF CrashRestore, UsedType
<1>3. ASSUME NewRequest(Client) PROVE used'.crashes = used.crashes
  <2>1. \A op : Request(op) => used'.crashes = used.crashes
    BY <1>1 DEF Request, UsedType
  <2> QED BY <1>3, <2>1 DEF NewRequest, CreateStart, UpdateStart, AdvanceRead, DeleteRemove
<1>4. ASSUME WorkerStep(Client) PROVE used'.crashes = used.crashes
  <2>1. ASSUME InjectPod(Client) PROVE used' = used
    BY <1>1, <2>1 DEF InjectPod, InjectOk, InjectErr, InjectLost
  <2>2. ASSUME Persist(Client) \/ ResetHandles(Client) PROVE used' = used
    BY <1>1, <2>2 DEF Persist, Encode, FlushGet, FlushPut, FlushErr, ResetHandles, ResetOk, ResetErr, ResetDone
  <2>3. ASSUME \/ CreateCheck(Client) \/ CreateNone(Client) \/ CreateRegister(Client) \/ GaugeInc(Client)
               \/ AdvanceUpdate(Client) \/ UpdateApply(Client) \/ GaugeDec(Client)
        PROVE  used' = used
    BY <2>3 DEF CreateCheck, CreateNone, CreateRegister, GaugeInc, AdvanceUpdate, UpdateApply, GaugeDec
  <2>4. ASSUME \/ SetTimeOk(Client) \/ SetTimeErr(Client) \/ SetTimeLost(Client) \/ SetTimeNotFound(Client)
               \/ ReinjectOk(Client) \/ ReinjectErr(Client) \/ ReinjectLost(Client)
        PROVE  used' = used
    BY <1>1, <2>4 DEF SetTimeOk, SetTimeErr, SetTimeLost, SetTimeNotFound, ReinjectOk, ReinjectErr, ReinjectLost
  <2> QED BY <1>4, <2>1, <2>2, <2>3, <2>4 DEF WorkerStep
<1>5. ASSUME Environment, ~CrashRestore PROVE used' = used
  BY <1>1, <1>5 DEF OneClient, Environment, ctlVars, ClientGone, Expire, CrashEmpty
<1>6. CASE UNCHANGED vars
  <2>1. used' = used
    BY <1>6 DEF vars, ctlVars
  <2> QED BY <1>2, <2>1
<1>7. CASE \/ \E t \in Sweepers : SweeperStep(t)
           \/ \E t \in Watchers : WatcherStep(t) \/ \E p \in Pods : WatchReceive(t, p)
  <2>1. used' = used
    BY <1>7, OthersRest
  <2> QED BY <1>2, <2>1
<1> QED
  BY <1>1, <1>2, <1>3, <1>4, <1>5, <1>6, <1>7 DEF Next

\* Every step but a restart keeps the clocks in order.
LEMMA NextClock ==
    ASSUME OneClient, RegInv, CalmInv, OverlapInv, StoreInv, PageInv, ClockInv, [Next]_vars, ~CrashRestore
    PROVE  ClockInv'
<1>1. Workers = {Client} /\ ~(used.faults < MaxFaults)
  BY OneJob, NoFault
<1>2. ASSUME UNCHANGED <<clusterVars, objs, registry, Job>> PROVE ClockInv'
  <2>1. UNCHANGED <<clusterVars, objs, registry, Job>>
    BY <1>2
  <2>2. UpdateInv(Job', registry', objs') /\ DeleteInv(Job', registry', objs')
    BY <2>1 DEF ClockInv
  <2>3. \A e : Tracked(e, Job, registry, objs) => Tracked(e, Job', registry', objs')
    BY <2>1
  <2>4. \A e, k : Claims(e, k, Job', registry', objs') => Claims(e, k, Job, registry, objs)
    BY <2>1
  <2> QED BY <2>1, <2>2, <2>3, <2>4, CalmClock
<1>3. CASE NewRequest(Client)
  BY <1>3, StartClock, UpdateStartClock, DeleteRemoveClock DEF NewRequest
<1>4. CASE WorkerStep(Client)
  <2>1. ~SetTimeLost(Client) /\ ~ReinjectLost(Client) /\ \A cid : ~InjectLost(Client, cid)
    BY <1>1 DEF SetTimeLost, ReinjectLost, InjectLost
  <2>2. ASSUME InjectPod(Client) PROVE ClockInv'
    BY <2>1, <2>2, InjectOkClock, CreateClock DEF InjectPod
  <2>3. ASSUME ResetHandles(Client) PROVE ClockInv'
    BY <2>3, ResetOkClock, ResetClock DEF ResetHandles
  <2> QED BY <1>4, <2>1, <2>2, <2>3, CreateClock, CreateRegisterClock, PersistClock, AdvanceUpdateClock,
             SetTimeOkClock, SetTimeSkipClock, ReinjectOkClock, UpdateApplyClock DEF WorkerStep
<1>5. CASE Environment
  <2>1. ~CrashEmpty /\ \A t \in Workers : ~ClientGone(t)
    BY <1>1 DEF CrashEmpty, ClientGone, OneClient
  <2>2. ASSUME NEW id, Expire(id) PROVE ClockInv'
    BY <1>2, <2>2 DEF Expire, Job
  <2> QED BY <1>5, <2>1, <2>2, ClusterClock DEF Environment
<1>6. CASE UNCHANGED vars
  BY <1>2, <1>6 DEF vars, ctlVars, Job
<1>7. CASE \/ \E t \in Sweepers : SweeperStep(t)
           \/ \E t \in Watchers : WatcherStep(t) \/ \E p \in Pods : WatchReceive(t, p)
  BY <1>2, <1>7, OthersRest
<1> QED
  BY <1>1, <1>3, <1>4, <1>5, <1>6, <1>7 DEF Next

\* What holds of one client whose calls do not fail, up to the first restart.
SerialInv == CalmInv /\ OverlapInv /\ StoreInv /\ PageInv /\ (used.crashes = 0 => ClockInv)

\* Initially nobody runs on a fake clock.
LEMMA InitClock ==
    ASSUME OneClient, Init
    PROVE  ClockInv
<1>1. Client \in Threads
  BY DEF OneClient, Client, Threads
<1>2. Job = Idle /\ registry = {} /\ \A c \in Containers : hook[c] = 0
  BY <1>1 DEF Init, ClusterInit, Job
<1> QED
  BY <1>2 DEF ClockInv, UpdateInv, DeleteInv, ShowInv, TrackInv, Claims, Faked, Updating, Idle

\* The five invariants together.
LEMMA SerialInvariance ==
    ASSUME OneClient
    PROVE  Spec => [](RegInv /\ SerialInv)
<1>1. Init => SerialInv
  <2> SUFFICES ASSUME Init PROVE SerialInv
    OBVIOUS
  <2>1. OverlapInv
    BY DEF Init, OverlapInv, ApartData, FreeInv, Idle, Threads
  <2>2. PageInv
    BY DEF Init, ClusterInit, PageInv
  <2>3. CalmInv
    BY DEF Init, ClusterInit, CalmInv, CalmLocal, AtRest, Idle, Collect, Threads
  <2> QED BY <2>1, <2>2, <2>3, InitStore, InitClock DEF SerialInv
<1>2. RegInv /\ SerialInv /\ [Next]_vars => SerialInv'
  <2> SUFFICES ASSUME RegInv, SerialInv, [Next]_vars PROVE SerialInv'
    OBVIOUS
  <2>1. CalmInv /\ OverlapInv /\ StoreInv /\ PageInv
    BY DEF SerialInv
  <2>0. WatchersRest /\ OneHandler
    BY DEF OneClient, OneHandler, WatchersRest, Steady
  <2>6. CalmInv'
    BY <2>0, <2>1, NextCalm
  <2>2. OverlapInv'
    BY <2>0, <2>1, NextOverlap
  <2>3. StoreInv'
    BY <2>1, NextStore
  <2>4. PageInv'
    <3>1. HandleInv /\ ClusterTypeOK
      BY DEF RegInv, HandleInv, TypeOK
    <3> QED BY <2>1, <3>1, NextCluster, PageNext
  <2>5. used'.crashes = 0 => ClockInv'
    BY <2>1, CrashCount, NextClock DEF SerialInv
  <2> QED BY <2>2, <2>3, <2>4, <2>5, <2>6 DEF SerialInv
<1> QED
  BY <1>1, <1>2, RegInvariance, PTL DEF Spec

\* What GET shows is what the process runs on: for one client whose calls do not
\* fail, every entry of an idle controller's timeshift that names a running process
\* has the page that process reads, and that page holds the timeshift's clock, or
\* the real one where the agent drained its handles; whatever the agents did in the
\* meantime, and the containers too where no watcher runs.  Beside the sweeper it
\* asks that timeshifts have no TTL.
THEOREM ClockAgreesHolds ==
    ASSUME OneClient
    PROVE  Spec => []ClockAgrees
<1>1. RegInv /\ SerialInv => ClockAgrees
  <2> SUFFICES ASSUME RegInv, SerialInv, Quiet, used.crashes = 0,
                      NEW id \in registry, NEW j \in DOMAIN objs[id].handles, Alive(objs[id].handles[j])
               PROVE  LET e == objs[id].handles[j]
                      IN  ClockOf(e.c) = objs[id].clock \/ (ClockOf(e.c) = Real /\ ~Known(e.h, e.c))
    BY DEF ClockAgrees, Entries, Alive
  <2> DEFINE e == objs[id].handles[j]
  <2>1. ClockInv /\ Job.pc = "idle"
    BY OneJob DEF SerialInv, Quiet, Job
  <2>2. objs[id] \in Timeshift
    BY OneJob, Facts, ElementOfSeq
  <2>3. j \in 1 .. Len(objs[id].handles)
    BY <2>2, LenProperties DEF Timeshift
  <2>4. Claims(e, objs[id].clock, Job, registry, objs)
    BY <2>1, <2>3 DEF Claims, EntryOf, ClockFor, Updating
  <2>5. Shows(e, objs[id].clock) /\ IssuedFor(e, pages)
    BY <2>1, <2>4, ClaimIssued DEF ClockInv, ShowInv
  <2>6. hook[e.c] = e.h /\ e.h # 0
    BY <2>5 DEF Shows, IssuedFor
  <2> QED BY <2>5, <2>6 DEF Shows, ClockOf
<1> QED
  BY <1>1, SerialInvariance, PTL

\* For one client whose calls do not fail, a process that runs on a fake clock its
\* agent can still reset is in the registry, under the handle it runs on: no request
\* leaves a clock behind that no delete can restore.  The conditions on sweeper and
\* watcher are those of ClockAgreesHolds.
THEOREM FakedIsTrackedHolds ==
    ASSUME OneClient
    PROVE  Spec => []FakedIsTracked
<1>1. RegInv /\ SerialInv => FakedIsTracked
  <2> SUFFICES ASSUME RegInv, SerialInv, Quiet, used.crashes = 0, NEW c \in LeftBehind, Known(hook[c], c)
               PROVE  FALSE
    BY DEF FakedIsTracked
  <2>1. ClockInv /\ Job.pc = "idle"
    BY OneJob DEF SerialInv, Quiet, Job
  <2>2. c \in Containers /\ Faked(c)
    BY DEF LeftBehind, ClockOf, Faked
  <2>3. PICK e : e.c = c /\ e.h = hook[c] /\ Tracked(e, Job, registry, objs)
    BY <2>1, <2>2 DEF ClockInv, TrackInv
  <2>4. PICK id \in registry : \E j \in 1 .. Len(objs[id].handles) : e = objs[id].handles[j]
    BY <2>1, <2>3 DEF Tracked, Owes, Claims, EntryOf, Updating, ClockInv, DeleteInv, DeletePC, SavePC
  <2>5. objs[id] \in Timeshift
    BY OneJob, Facts, ElementOfSeq
  <2>6. e \in Entries(objs[id].handles)
    BY <2>4, <2>5, LenProperties DEF Timeshift, Entries
  <2> QED BY <2>3, <2>6 DEF LeftBehind
<1> QED
  BY <1>1, SerialInvariance, PTL
=============================================================================
