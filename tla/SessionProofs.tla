--------------------------- MODULE SessionProofs ---------------------------
(***************************************************************************)
(* Theorems about Session.tla, for any processes, filters, goroutines,     *)
(* clocks and bounds: what Start, Attach, SetTime, Freeze, Advance, Reset, *)
(* Prune and Close of src/pkg/faketime/faketime.go keep however they       *)
(* interleave between two holds of s.mu.                                   *)
(***************************************************************************)
EXTENDS Session, TLAPS

(***************************************************************************)
(* The inductive invariants.                                               *)
(***************************************************************************)
Adding(t)   == call[t].pc \in {"inject", "append"}
UsesClock(t) == call[t].pc \in {"inject", "append", "read", "apply", "commit"}

\* One call adds a process, which is not in the session until it has; a
\* process that a call found dead never runs again.
AddInv ==
    /\ LiveStay
    /\ handles \subseteq added
    /\ \A p \in added : proc[p].st # "none"
    /\ \A t \in Callers :
          /\ Adding(t) => call[t].pid \notin added
          /\ \A u \in Callers : Adding(t) /\ Adding(u) /\ t # u => call[t].pid # call[u].pid
          /\ call[t].pc = "append" => proc[call[t].pid].st # "none"
          /\ call[t].pc = "apply" => call[t].todo \subseteq added
          /\ \A p \in call[t].dead : proc[p].st \in {"zombie", "gone"}

\* A tracker is in s.trackers, or in the list of the one Prune that took it
\* out, or closed; Close empties its list when nobody else runs.
CloseInv ==
    /\ ClosedOnce
    /\ trackers \subseteq added /\ closed \subseteq added
    /\ Closing \/ \A p \in trackers : p \notin closed
    /\ \A t \in Callers :
          /\ call[t].pc = "prune" =>
                \A p \in call[t].todo :
                   /\ p \in added /\ p \notin trackers /\ p \notin closed
                   /\ \A u \in Callers \ {t} : call[u].pc = "prune" => p \notin call[u].todo
          /\ call[t].pc = "close" => \A p \in call[t].todo : p \in added /\ p \notin closed
          /\ call[t].pc \in {"close", "done"} => \A u \in Callers : u = t \/ call[u].pc = "idle"

Follow(k, ps) == \A p \in ps : proc[p].st = "run" => proc[p].clock = k

\* Without overlaps one call at a time uses the clock, and what the processes
\* see is told by how far that call is.
ClockInv ==
    ~raced =>
      /\ \A t, u \in Callers : UsesClock(t) /\ UsesClock(u) => t = u
      /\ \A t \in Callers :
            /\ call[t].pc = "inject" => call[t].clock = target
            /\ call[t].pc = "append" => Follow(target, {call[t].pid})
            /\ call[t].pc = "apply" /\ ~call[t].err => Follow(call[t].clock, handles \ call[t].todo)
            /\ call[t].pc = "commit" => Follow(call[t].clock, handles)
      /\ partial \/ (\E t \in Callers : call[t].pc \in {"apply", "commit"}) \/ Follow(target, handles)

(***************************************************************************)
(* Types.                                                                  *)
(***************************************************************************)

\* The state a call begins in and returns to is a caller's state.
LEMMA IdleType == Idle \in Caller
  BY FilterAssumption DEF Idle, Caller, Real, Clock

\* Whether two calls that use the clock have overlapped is a Boolean.
LEMMA OverlapsType == raced \in BOOLEAN /\ Overlaps => raced' \in BOOLEAN
  BY DEF Overlaps

\* Every step of the session keeps the types of its fields.
LEMMA TypeStep == TypeOK /\ [Next]_vars => TypeOK'
<1> SUFFICES ASSUME TypeOK, [Next]_vars PROVE TypeOK'
  OBVIOUS
<1> USE DEF TypeOK
<1>1. ASSUME NEW p \in Pids, Exit(p) PROVE TypeOK'
  BY <1>1 DEF Exit, Process
<1>2. ASSUME NEW p \in Pids, Reap(p) PROVE TypeOK'
  BY <1>2 DEF Reap, Process
<1>3. ASSUME NEW t \in Callers, NEW p \in Pids, Add(t, p) PROVE TypeOK'
  <2>1. raced' \in BOOLEAN
    BY <1>3, OverlapsType DEF Add
  <2>2. proc' \in [Pids -> Process]
    BY <1>3 DEF Add, Process
  <2>3. [Idle EXCEPT !.pc = "inject", !.pid = p, !.clock = target] \in Caller
    BY IdleType DEF Caller
  <2>4. call' \in [Callers -> Caller]
    BY <1>3, <2>3 DEF Add
  <2> QED
    BY <1>3, <2>1, <2>2, <2>4 DEF Add
<1>4. ASSUME NEW t \in Callers, InjectOk(t) PROVE TypeOK'
  <2>1. call[t].pid \in Pids /\ call[t].clock \in Clock
    BY DEF Caller
  <2>2. proc' \in [Pids -> Process]
    BY <1>4, <2>1 DEF InjectOk, Process
  <2>3. call' \in [Callers -> Caller]
    BY <1>4 DEF InjectOk, Caller
  <2> QED
    BY <1>4, <2>2, <2>3 DEF InjectOk
<1>5. ASSUME NEW t \in Callers, InjectErr(t) PROVE TypeOK'
  BY <1>5, IdleType DEF InjectErr, Fault, Process, Caller
<1>6. ASSUME NEW t \in Callers, AddHandle(t) PROVE TypeOK'
  BY <1>6, IdleType DEF AddHandle, Caller
<1>7. ASSUME NEW t \in Callers, NEW k \in Clocks, SetTime(t, k) PROVE TypeOK'
  <2>1. raced' \in BOOLEAN
    BY <1>7, OverlapsType DEF SetTime
  <2>2. k \in Clock
    BY CallAssumption
  <2>3. Apply(k) \in Caller
    BY <2>2, IdleType DEF Apply, Caller
  <2> QED
    BY <1>7, <2>1, <2>3 DEF SetTime, Request
<1>8. ASSUME NEW t \in Callers, NEW d \in Deltas, Advance(t, d) PROVE TypeOK'
  <2>1. raced' \in BOOLEAN
    BY <1>8, OverlapsType DEF Advance
  <2>2. [target EXCEPT !.at = @ + d] \in Clock
    BY CallAssumption DEF Clock
  <2>3. [Idle EXCEPT !.pc = "read", !.clock = [target EXCEPT !.at = @ + d]] \in Caller
    BY <2>2, IdleType DEF Caller
  <2> QED
    BY <1>8, <2>1, <2>3 DEF Advance, Request
<1>9. ASSUME NEW t \in Callers, Snapshot(t) PROVE TypeOK'
  BY <1>9, IdleType DEF Snapshot, Apply, Caller
<1>10. ASSUME NEW t \in Callers, NEW p \in call[t].todo, WriteOk(t, p) PROVE TypeOK'
  <2>1. call[t].clock \in Clock /\ p \in Pids
    BY DEF Caller
  <2>2. proc' \in [Pids -> Process]
    BY <1>10, <2>1 DEF WriteOk, Process
  <2>3. call' \in [Callers -> Caller]
    BY <1>10 DEF WriteOk, Caller
  <2> QED
    BY <1>10, <2>2, <2>3 DEF WriteOk
<1>11. ASSUME NEW t \in Callers, NEW p \in call[t].todo, WriteErr(t, p) PROVE TypeOK'
  BY <1>11 DEF WriteErr, Fault, Caller
<1>12. ASSUME NEW t \in Callers, DropDead(t) PROVE TypeOK'
  BY <1>12, IdleType DEF DropDead, Caller
<1>13. ASSUME NEW t \in Callers, Commit(t) PROVE TypeOK'
  BY <1>13, IdleType DEF Commit, Caller
<1>14. ASSUME NEW t \in Callers, Prune(t) PROVE TypeOK'
  <2>1. [Idle EXCEPT !.pc = "prune", !.todo = trackers \ trackers'] \in Caller
    BY <1>14, IdleType DEF Prune, Caller
  <2> QED
    BY <1>14, <2>1 DEF Prune, Request
<1>15. ASSUME NEW t \in Callers, Close(t) PROVE TypeOK'
  <2>1. [Idle EXCEPT !.pc = "close", !.todo = trackers] \in Caller
    BY IdleType DEF Caller
  <2> QED
    BY <1>15, <2>1 DEF Close, Request
<1>16. ASSUME NEW t \in Callers, NEW p \in call[t].todo, CloseTracker(t, p) PROVE TypeOK'
  BY <1>16 DEF CloseTracker, Caller
<1>17. ASSUME NEW t \in Callers, CloseDone(t) PROVE TypeOK'
  BY <1>17, IdleType DEF CloseDone, Caller
<1>18. CASE UNCHANGED vars
  BY <1>18 DEF vars
<1> QED
  BY <1>1, <1>2, <1>3, <1>4, <1>5, <1>6, <1>7, <1>8, <1>9, <1>10, <1>11, <1>12, <1>13,
     <1>14, <1>15, <1>16, <1>17, <1>18 DEF Next, Proceed, Begin

\* A new session's fields have their types.
LEMMA InitType == Init => TypeOK
<1> SUFFICES ASSUME Init PROVE TypeOK
  OBVIOUS
<1>1. target \in Clock
  BY CallAssumption DEF Init
<1>2. Real \in Clock
  BY DEF Real, Clock
<1>3. proc \in [Pids -> Process]
  BY <1>2 DEF Init, Process
<1> QED
  BY <1>1, <1>3, IdleType DEF Init, TypeOK

\* The session's fields have their types in every reachable state.
THEOREM TypeCorrect == Spec => []TypeOK
<1> QED
  BY InitType, TypeStep, PTL DEF Spec

\* What the state between two calls says to the invariants below.
LEMMA IdleFacts ==
    /\ Idle.pc = "idle" /\ Idle.todo = {} /\ Idle.dead = {} /\ Idle.err = FALSE
    /\ Idle \in Caller
  BY IdleType DEF Idle

\* How Start and Attach begin, with the target read under s.mu.
LEMMA AddFacts ==
    ASSUME TypeOK, NEW t \in Callers, NEW p \in Pids, Add(t, p), p \in FakeTimeFilter
    PROVE  /\ call'[t].pc = "inject" /\ call'[t].pid = p /\ call'[t].clock = target
           /\ call'[t].todo = {} /\ call'[t].dead = {} /\ call'[t].err = FALSE
           /\ \A u \in Callers \ {t} : call'[u] = call[u]
           /\ proc' = proc
<1> DEFINE c == [Idle EXCEPT !.pc = "inject", !.pid = p, !.clock = target]
<1>1. /\ c.pc = "inject" /\ c.pid = p /\ c.clock = target
      /\ c.todo = {} /\ c.dead = {} /\ c.err = FALSE
  BY IdleFacts DEF Caller
<1>2. call' = [call EXCEPT ![t] = c] /\ proc' = proc
  BY DEF Add
<1> HIDE DEF c
<1> QED
  BY <1>1, <1>2 DEF TypeOK

(***************************************************************************)
(* A process that was added and runs stays in the session.                 *)
(***************************************************************************)

\* No step takes a running process out of the session, and no process is
\* added twice.
LEMMA AddStep == TypeOK /\ AddInv /\ [Next]_vars => AddInv'
<1> SUFFICES ASSUME TypeOK, AddInv, [Next]_vars PROVE AddInv'
  OBVIOUS
<1> USE IdleFacts DEF TypeOK, AddInv, LiveStay, Adding, Process, Caller
<1>1. ASSUME NEW p \in Pids, Exit(p) PROVE AddInv'
  BY <1>1 DEF Exit
<1>2. ASSUME NEW p \in Pids, Reap(p) PROVE AddInv'
  BY <1>2 DEF Reap
<1>3. ASSUME NEW t \in Callers, NEW p \in Pids, Add(t, p) PROVE AddInv'
  <2>1. CASE p \in FakeTimeFilter
    <3>1. /\ call'[t].pc = "inject" /\ call'[t].pid = p /\ call'[t].dead = {}
          /\ \A u \in Callers \ {t} : call'[u] = call[u]
          /\ proc' = proc
      BY <1>3, <2>1, AddFacts
    <3>2. /\ p \notin added /\ \A u \in Callers : Adding(u) => call[u].pid # p
          /\ handles' = handles /\ added' = added
      BY <1>3 DEF Add
    <3>3. \A u \in Callers : Adding(u)' => call'[u].pid \notin added
      BY <3>1, <3>2
    <3>4. \A u, v \in Callers : Adding(u)' /\ Adding(v)' /\ u # v => call'[u].pid # call'[v].pid
      BY <3>1, <3>2
    <3>5. \A u \in Callers : call'[u].pc = "append" => proc[call'[u].pid].st # "none"
      BY <3>1, <3>2
    <3>6. \A u \in Callers : call'[u].pc = "apply" => call'[u].todo \subseteq added
      BY <3>1, <3>2
    <3>7. \A u \in Callers : \A q \in call'[u].dead : proc[q].st \in {"zombie", "gone"}
      BY <3>1, <3>2
    <3> QED
      BY <3>1, <3>2, <3>3, <3>4, <3>5, <3>6, <3>7
  <2>2. CASE p \notin FakeTimeFilter
    <3>1. /\ \A q \in Pids \ {p} : proc'[q] = proc[q]
          /\ proc'[p].st = "run" /\ proc[p].st \in {"none", "run"} /\ p \notin added
          /\ \A u \in Callers : Adding(u) => call[u].pid # p
          /\ call' = call /\ handles' = handles /\ added' = added
      BY <1>3, <2>2 DEF Add
    <3>2. \A q \in added : proc'[q] = proc[q]
      BY <3>1
    <3>3. \A u \in Callers : Adding(u) => proc'[call[u].pid] = proc[call[u].pid]
      BY <3>1
    <3>4. \A u \in Callers : \A q \in call[u].dead : proc'[q].st \in {"zombie", "gone"}
      BY <3>1
    <3> QED
      BY <3>1, <3>2, <3>3, <3>4
  <2> QED
    BY <2>1, <2>2
<1>4. ASSUME NEW t \in Callers, InjectOk(t) PROVE AddInv'
  BY <1>4 DEF InjectOk
<1>5. ASSUME NEW t \in Callers, InjectErr(t) PROVE AddInv'
  BY <1>5 DEF InjectErr
<1>6. ASSUME NEW t \in Callers, AddHandle(t) PROVE AddInv'
  BY <1>6 DEF AddHandle
<1>7. ASSUME NEW t \in Callers, NEW k \in Clocks, SetTime(t, k) PROVE AddInv'
  BY <1>7 DEF SetTime, Request, Apply
<1>8. ASSUME NEW t \in Callers, NEW d \in Deltas, Advance(t, d) PROVE AddInv'
  BY <1>8 DEF Advance, Request
<1>9. ASSUME NEW t \in Callers, Snapshot(t) PROVE AddInv'
  BY <1>9 DEF Snapshot, Apply
<1>10. ASSUME NEW t \in Callers, NEW p \in call[t].todo, WriteOk(t, p) PROVE AddInv'
  BY <1>10 DEF WriteOk
<1>11. ASSUME NEW t \in Callers, NEW p \in call[t].todo, WriteErr(t, p) PROVE AddInv'
  <2>1. \A u \in Callers : /\ call'[u].pc = call[u].pc /\ call'[u].pid = call[u].pid
                           /\ call'[u].todo \subseteq call[u].todo
                           /\ call'[u].dead \subseteq call[u].dead \union {p}
                           /\ proc[p].st = "run" => call'[u].dead = call[u].dead
    BY <1>11 DEF WriteErr
  <2>2. p \in added /\ p \in Pids
    BY <1>11 DEF WriteErr
  <2>3. proc[p].st \in {"run", "zombie", "gone"}
    BY <2>2
  <2>4. proc' = proc /\ handles' = handles /\ added' = added
    BY <1>11 DEF WriteErr
  <2> QED
    BY <2>1, <2>2, <2>3, <2>4
<1>12. ASSUME NEW t \in Callers, DropDead(t) PROVE AddInv'
  BY <1>12 DEF DropDead
<1>13. ASSUME NEW t \in Callers, Commit(t) PROVE AddInv'
  BY <1>13 DEF Commit
<1>14. ASSUME NEW t \in Callers, Prune(t) PROVE AddInv'
  BY <1>14 DEF Prune, Request, IsAlive
<1>15. ASSUME NEW t \in Callers, Close(t) PROVE AddInv'
  BY <1>15 DEF Close, Request
<1>16. ASSUME NEW t \in Callers, NEW p \in call[t].todo, CloseTracker(t, p) PROVE AddInv'
  BY <1>16 DEF CloseTracker
<1>17. ASSUME NEW t \in Callers, CloseDone(t) PROVE AddInv'
  BY <1>17 DEF CloseDone
<1>18. CASE UNCHANGED vars
  BY <1>18 DEF vars
<1> QED
  BY <1>1, <1>2, <1>3, <1>4, <1>5, <1>6, <1>7, <1>8, <1>9, <1>10, <1>11, <1>12, <1>13, <1>14, <1>15, <1>16, <1>17, <1>18 DEF Next, Proceed, Begin

(***************************************************************************)
(* The done channel of a tracker is closed once.                           *)
(***************************************************************************)

\* A tracker is handed to one Prune or to the last Close, and closed by it.
LEMMA CloseStep ==
    ASSUME CloseLast
    PROVE  TypeOK /\ AddInv /\ CloseInv /\ [Next]_vars => CloseInv'
<1> SUFFICES ASSUME TypeOK, AddInv, CloseInv, [Next]_vars PROVE CloseInv'
  OBVIOUS
<1> USE IdleFacts DEF TypeOK, AddInv, CloseInv, ClosedOnce, Closing, Adding, Caller
<1>1. ASSUME NEW p \in Pids, Exit(p) PROVE CloseInv'
  BY <1>1 DEF Exit
<1>2. ASSUME NEW p \in Pids, Reap(p) PROVE CloseInv'
  BY <1>2 DEF Reap
<1>3. ASSUME NEW t \in Callers, NEW p \in Pids, ~Closing, Add(t, p) PROVE CloseInv'
  <2>1. /\ call'[t].pc \in {"idle", "inject"} /\ call[t].pc = "idle"
        /\ \A u \in Callers \ {t} : call'[u] = call[u]
    BY <1>3, AddFacts DEF Add
  <2>2. UNCHANGED <<trackers, closed, panicked, added>>
    BY <1>3 DEF Add
  <2> QED
    BY <1>3, <2>1, <2>2
<1>4. ASSUME NEW t \in Callers, InjectOk(t) PROVE CloseInv'
  BY <1>4 DEF InjectOk
<1>5. ASSUME NEW t \in Callers, InjectErr(t) PROVE CloseInv'
  BY <1>5 DEF InjectErr
<1>6. ASSUME NEW t \in Callers, AddHandle(t) PROVE CloseInv'
  BY <1>6 DEF AddHandle
<1>7. ASSUME NEW t \in Callers, NEW k \in Clocks, ~Closing, SetTime(t, k) PROVE CloseInv'
  BY <1>7 DEF SetTime, Request, Apply
<1>8. ASSUME NEW t \in Callers, NEW d \in Deltas, ~Closing, Advance(t, d) PROVE CloseInv'
  BY <1>8 DEF Advance, Request
<1>9. ASSUME NEW t \in Callers, Snapshot(t) PROVE CloseInv'
  BY <1>9 DEF Snapshot, Apply
<1>10. ASSUME NEW t \in Callers, NEW p \in call[t].todo, WriteOk(t, p) PROVE CloseInv'
  BY <1>10 DEF WriteOk
<1>11. ASSUME NEW t \in Callers, NEW p \in call[t].todo, WriteErr(t, p) PROVE CloseInv'
  <2>1. \A u \in Callers : /\ call'[u].pc = call[u].pc
                           /\ u # t => call'[u].todo = call[u].todo
    BY <1>11 DEF WriteErr
  <2> QED
    BY <1>11, <2>1 DEF WriteErr
<1>12. ASSUME NEW t \in Callers, DropDead(t) PROVE CloseInv'
  BY <1>12 DEF DropDead
<1>13. ASSUME NEW t \in Callers, Commit(t) PROVE CloseInv'
  BY <1>13 DEF Commit
<1>14. ASSUME NEW t \in Callers, ~Closing, Prune(t) PROVE CloseInv'
  <2>1. /\ call'[t].pc = "prune" /\ call'[t].todo = trackers \ trackers'
        /\ \A u \in Callers \ {t} : call'[u] = call[u]
        /\ trackers' \subseteq trackers
    BY <1>14 DEF Prune, Request
  <2> QED
    BY <1>14, <2>1 DEF Prune, Request
<1>15. ASSUME NEW t \in Callers, Close(t) PROVE CloseInv'
  BY <1>15 DEF Close, Request
<1>16. ASSUME NEW t \in Callers, NEW p \in call[t].todo, CloseTracker(t, p) PROVE CloseInv'
  <2>1. \A u \in Callers : /\ call'[u].pc = call[u].pc
                           /\ call'[u].todo = IF u = t THEN call[u].todo \ {p} ELSE call[u].todo
    BY <1>16 DEF CloseTracker
  <2>2. p \notin closed /\ call[t].pc \in {"prune", "close"}
    BY <1>16 DEF CloseTracker
  <2>3. p \in added
    BY <1>16 DEF CloseTracker
  <2>4. panicked' = panicked /\ closed' = closed \union {p} /\ UNCHANGED <<trackers, added>>
    BY <1>16, <2>2 DEF CloseTracker
  <2>5. Closing' = Closing
    BY <2>1
  <2>6. Closing' \/ \A q \in trackers' : q \notin closed'
    BY <2>2, <2>4, <2>5
  <2> HIDE DEF TypeOK, AddInv, Caller
  <2>7. ASSUME NEW u \in Callers, call'[u].pc = "prune", NEW q \in call'[u].todo
        PROVE  /\ q \in added' /\ q \notin trackers' /\ q \notin closed'
               /\ \A v \in Callers \ {u} : call'[v].pc = "prune" => q \notin call'[v].todo
    <3>1. call[t].pc = "prune" /\ q \in call[u].todo
      BY <2>1, <2>2, <2>7
    <3>2. q # p
      <4>1. CASE u = t
        <5>1. q \in call[t].todo \ {p}
          BY <2>1, <2>7, <4>1
        <5> QED
          BY <5>1
      <4>2. CASE u # t
        BY <2>1, <2>7, <3>1, <4>2
      <4> QED
        BY <4>1, <4>2
    <3> QED
      BY <2>1, <2>4, <2>7, <3>1, <3>2
  <2>8. ASSUME NEW u \in Callers, call'[u].pc = "close"
        PROVE  \A q \in call'[u].todo : q \in added' /\ q \notin closed'
    BY <2>1, <2>2, <2>4, <2>8
  <2> QED
    BY <2>1, <2>3, <2>4, <2>6, <2>7, <2>8
<1>17. ASSUME NEW t \in Callers, CloseDone(t) PROVE CloseInv'
  BY <1>17 DEF CloseDone
<1>18. CASE UNCHANGED vars
  BY <1>18 DEF vars
<1> QED
  BY <1>1, <1>2, <1>3, <1>4, <1>5, <1>6, <1>7, <1>8, <1>9, <1>10, <1>11, <1>12, <1>13, <1>14, <1>15, <1>16, <1>17, <1>18 DEF Next, Proceed, Begin

(***************************************************************************)
(* Without overlaps, the processes see the session's clock.                *)
(***************************************************************************)

\* What the processes see follows the call that uses the clock.
LEMMA ClockStep == TypeOK /\ AddInv /\ ClockInv /\ [Next]_vars => ClockInv'
<1> SUFFICES ASSUME TypeOK, AddInv, ClockInv, [Next]_vars PROVE ClockInv'
  OBVIOUS
<1> USE IdleFacts DEF TypeOK, AddInv, LiveStay, ClockInv, Adding, UsesClock, Follow, Process, Caller
<1>1. ASSUME NEW p \in Pids, Exit(p) PROVE ClockInv'
  BY <1>1 DEF Exit
<1>2. ASSUME NEW p \in Pids, Reap(p) PROVE ClockInv'
  BY <1>2 DEF Reap
<1>3. ASSUME NEW t \in Callers, NEW p \in Pids, Add(t, p) PROVE ClockInv'
  <2>1. ~raced' => ~raced /\ \A u \in Callers : ~UsesClock(u)
    BY <1>3 DEF Add, Overlaps
  <2>2. UNCHANGED <<target, handles, partial>>
    BY <1>3 DEF Add
  <2>3. CASE p \in FakeTimeFilter
    <3>1. /\ call'[t].pc = "inject" /\ call'[t].clock = target
          /\ \A u \in Callers \ {t} : call'[u] = call[u]
          /\ proc' = proc
      BY <1>3, <2>3, AddFacts
    <3>2. ~raced' => \A u \in Callers \ {t} : ~UsesClock(u)'
      BY <2>1, <3>1
    <3>3. ~raced' => partial \/ Follow(target, handles)
      BY <2>1
    <3> QED
      BY <2>2, <3>1, <3>2, <3>3
  <2>4. CASE p \notin FakeTimeFilter
    <3>1. \A q \in handles : proc'[q] = proc[q]
      BY <1>3, <2>4 DEF Add
    <3>2. call' = call
      BY <1>3, <2>4 DEF Add
    <3> QED
      BY <2>1, <2>2, <3>1, <3>2
  <2> QED
    BY <2>3, <2>4
<1>4. ASSUME NEW t \in Callers, InjectOk(t) PROVE ClockInv'
  BY <1>4 DEF InjectOk
<1>5. ASSUME NEW t \in Callers, InjectErr(t) PROVE ClockInv'
  BY <1>5 DEF InjectErr
<1>6. ASSUME NEW t \in Callers, AddHandle(t) PROVE ClockInv'
  BY <1>6 DEF AddHandle
<1>7. ASSUME NEW t \in Callers, NEW k \in Clocks, SetTime(t, k) PROVE ClockInv'
  <2>1. ~raced' => ~raced /\ \A u \in Callers : ~UsesClock(u)
    BY <1>7 DEF SetTime, Overlaps
  <2>2. /\ call'[t].pc = "apply" /\ call'[t].todo = handles
        /\ \A u \in Callers \ {t} : call'[u] = call[u]
    BY <1>7 DEF SetTime, Request, Apply
  <2>3. UNCHANGED <<target, handles, partial, proc>>
    BY <1>7 DEF SetTime
  <2> QED
    BY <2>1, <2>2, <2>3
<1>8. ASSUME NEW t \in Callers, NEW d \in Deltas, Advance(t, d) PROVE ClockInv'
  <2>1. ~raced' => ~raced /\ \A u \in Callers : ~UsesClock(u)
    BY <1>8 DEF Advance, Overlaps
  <2>2. /\ call'[t].pc = "read"
        /\ \A u \in Callers \ {t} : call'[u] = call[u]
    BY <1>8 DEF Advance, Request
  <2>3. UNCHANGED <<target, handles, partial, proc>>
    BY <1>8 DEF Advance
  <2>4. ~raced' => \A u \in Callers \ {t} : ~UsesClock(u)'
    BY <2>1, <2>2
  <2>5. ~raced' => partial \/ Follow(target, handles)
    BY <2>1
  <2> QED
    BY <2>2, <2>3, <2>4, <2>5
<1>9. ASSUME NEW t \in Callers, Snapshot(t) PROVE ClockInv'
  BY <1>9 DEF Snapshot, Apply
<1>10. ASSUME NEW t \in Callers, NEW p \in call[t].todo, WriteOk(t, p) PROVE ClockInv'
  BY <1>10 DEF WriteOk
<1>11. ASSUME NEW t \in Callers, NEW p \in call[t].todo, WriteErr(t, p) PROVE ClockInv'
  <2>1. \A u \in Callers : /\ call'[u].pc = call[u].pc /\ call'[u].pid = call[u].pid
                           /\ call'[u].clock = call[u].clock
                           /\ u # t => call'[u] = call[u]
    BY <1>11 DEF WriteErr
  <2>2. \/ call'[t].err
        \/ proc[p].st # "run" /\ call'[t].err = call[t].err /\ call'[t].todo = call[t].todo \ {p}
    BY <1>11 DEF WriteErr
  <2>3. UNCHANGED <<target, handles, partial, proc, raced>>
    BY <1>11 DEF WriteErr
  <2>4. ASSUME ~raced, call'[t].pc = "apply", ~call'[t].err
        PROVE  Follow(call'[t].clock, handles \ call'[t].todo)
    BY <2>1, <2>2, <2>4
  <2>5. ~raced => \A u, v \in Callers : UsesClock(u)' /\ UsesClock(v)' => u = v
    BY <2>1
  <2>6. ASSUME ~raced, NEW u \in Callers
        PROVE  /\ call'[u].pc = "inject" => call'[u].clock = target
               /\ call'[u].pc = "append" => Follow(target, {call'[u].pid})
               /\ call'[u].pc = "apply" /\ ~call'[u].err => Follow(call'[u].clock, handles \ call'[u].todo)
               /\ call'[u].pc = "commit" => Follow(call'[u].clock, handles)
    BY <2>1, <2>4, <2>6
  <2>7. call'[t].pc = "apply"
    BY <1>11, <2>1 DEF WriteErr
  <2> QED
    BY <2>3, <2>5, <2>6, <2>7
<1>12. ASSUME NEW t \in Callers, DropDead(t) PROVE ClockInv'
  BY <1>12 DEF DropDead
<1>13. ASSUME NEW t \in Callers, Commit(t) PROVE ClockInv'
  BY <1>13 DEF Commit
<1>14. ASSUME NEW t \in Callers, Prune(t) PROVE ClockInv'
  BY <1>14 DEF Prune, Request, IsAlive
<1>15. ASSUME NEW t \in Callers, Close(t) PROVE ClockInv'
  BY <1>15 DEF Close, Request
<1>16. ASSUME NEW t \in Callers, NEW p \in call[t].todo, CloseTracker(t, p) PROVE ClockInv'
  BY <1>16 DEF CloseTracker
<1>17. ASSUME NEW t \in Callers, CloseDone(t) PROVE ClockInv'
  BY <1>17 DEF CloseDone
<1>18. CASE UNCHANGED vars
  BY <1>18 DEF vars
<1> QED
  BY <1>1, <1>2, <1>3, <1>4, <1>5, <1>6, <1>7, <1>8, <1>9, <1>10, <1>11, <1>12, <1>13, <1>14, <1>15, <1>16, <1>17, <1>18 DEF Next, Proceed, Begin

(***************************************************************************)
(* The theorems.                                                           *)
(***************************************************************************)

\* NewSession makes a session with no process, no tracker and no call.
LEMMA InitInv == Init => TypeOK /\ AddInv /\ CloseInv /\ ClockInv
<1> SUFFICES ASSUME Init PROVE TypeOK /\ AddInv /\ CloseInv /\ ClockInv
  OBVIOUS
<1>1. TypeOK
  BY InitType
<1>2. \A t \in Callers : call[t].pc = "idle" /\ call[t].todo = {} /\ call[t].dead = {}
  BY IdleFacts DEF Init
<1>3. AddInv
  BY <1>2 DEF Init, AddInv, LiveStay, Adding
<1>4. CloseInv
  BY <1>2 DEF Init, CloseInv, ClosedOnce, Closing
<1>5. ClockInv
  BY <1>2 DEF Init, ClockInv, UsesClock, Follow
<1> QED
  BY <1>1, <1>3, <1>4, <1>5

\* However Start, Attach, updates and Prune overlap, a process that was added
\* and still runs is in s.handles: neither the handles that an update found
\* dead nor those Prune drops include it, although both are applied to a list
\* that has changed since it was read.
THEOREM LiveStayHolds == Spec => []LiveStay
<1>1. TypeOK /\ AddInv /\ [Next]_vars => (TypeOK /\ AddInv)'
  BY TypeStep, AddStep
<1>2. AddInv => LiveStay
  BY DEF AddInv
<1> QED
  BY InitInv, <1>1, <1>2, PTL DEF Spec

\* When Close is the last call, ChildTracker.Close is called once for every
\* tracker, so no done channel is closed twice: Prune hands a tracker to one
\* caller, and Close finds only those no Prune took.
THEOREM ClosedOnceHolds == ASSUME CloseLast PROVE Spec => []ClosedOnce
<1>1. TypeOK /\ AddInv /\ CloseInv /\ [Next]_vars => (TypeOK /\ AddInv /\ CloseInv)'
  BY TypeStep, AddStep, CloseStep
<1>2. CloseInv => ClosedOnce
  BY DEF CloseInv
<1> QED
  BY InitInv, <1>1, <1>2, PTL DEF Spec

\* When no Start, Attach or update has overlapped another and the last update
\* reported no error, every running process of an idle session sees the clock
\* that EffectiveTime reports, whatever Prune, exits and failed updates came
\* before.
THEOREM SessionAgreesHolds == Spec => []SessionAgrees
<1>1. TypeOK /\ AddInv /\ ClockInv /\ [Next]_vars => (TypeOK /\ AddInv /\ ClockInv)'
  BY TypeStep, AddStep, ClockStep
<1>2. ClockInv => SessionAgrees
  BY DEF ClockInv, SessionAgrees, Quiet, Follow
<1> QED
  BY InitInv, <1>1, <1>2, PTL DEF Spec
============================================================================
