----------------------------- MODULE Trampoline -----------------------------
(***************************************************************************)
(* The injected page: the state struct that inject.Handle rewrites with    *)
(* process_vm_writev while the target runs, and the three stubs of         *)
(* trampoline.asm that the patched vDSO entries jump to.  The writer       *)
(* stores the struct word by word and a stub reads it with plain loads, so *)
(* a read and a write may overlap in any order.                            *)
(*                                                                         *)
(* Times are integers, in nanoseconds.  NsPerSec and NsPerUsec keep the    *)
(* code's 1e9 and 1000 symbolic so that TLC can use a short second.  Bit 0 *)
(* of enabledMask is set by every state ever written, so the mask is its   *)
(* bit 1: frozen.                                                          *)
(***************************************************************************)
EXTENDS Integers

CONSTANTS
    NsPerSec,      \* 1000000000
    NsPerUsec,     \* 1000
    MaxDuration,   \* time.Duration saturates here: 2^63 - 1 ns, about 292 years
    Readers,       \* threads of the target process
    Fns,           \* the hooked functions they call
    Modes,         \* values of frozen that are written
    Targets,       \* target times that are written
    MaxNow,        \* bound: the real clock
    MaxWrites      \* bound: SetTime and Freeze calls

ASSUME UnitAssumption ==
    /\ NsPerSec \in Nat \ {0} /\ NsPerUsec \in Nat \ {0}
    /\ NsPerSec % NsPerUsec = 0
    /\ MaxDuration \in Nat

ASSUME CallAssumption ==
    /\ Fns \subseteq {"clock_gettime", "gettimeofday", "time"}
    /\ Modes \subseteq BOOLEAN
    /\ Targets \subseteq Nat
    /\ MaxNow \in Nat

VARIABLES
    now,      \* the real clock
    words,    \* the state struct in the page
    next,     \* the struct a writeState call is storing
    pend,     \* the words of next that it has not stored yet
    cur,      \* the setting last stored completely, and the one being stored
    writes,   \* SetTime and Freeze calls so far
    rd        \* the stub each reader is in

vars == <<now, words, next, pend, cur, writes, rd>>

\* The stored nanoseconds are a remainder: below one second either way.
Words == [sec : Int, nsec : 1 - NsPerSec .. NsPerSec - 1, frozen : BOOLEAN]

\* What a SetTime or Freeze at time base asks for.
Setting == [frozen : BOOLEAN, target : Int, base : Int]

(***************************************************************************)
(* The Go side: conversion of a target to the words of the struct.         *)
(***************************************************************************)
\* x86 idiv and Go's / truncate toward zero.
TruncDiv(a, b) == IF a >= 0 THEN a \div b ELSE -((-a) \div b)

\* target.Sub(base) saturates.
Sub(a, b) == IF a - b > MaxDuration THEN MaxDuration
             ELSE IF a - b < -MaxDuration THEN -MaxDuration ELSE a - b

\* SetTime: diffSecNsec, / and % of the duration, both truncating.
AdvancingWords(target, base) ==
    LET d == Sub(target, base)
        s == TruncDiv(d, NsPerSec)
    IN  [sec |-> s, nsec |-> d - s * NsPerSec, frozen |-> FALSE]

\* Freeze: Unix() and Nanosecond().
FrozenWords(target) ==
    [sec |-> target \div NsPerSec, nsec |-> target % NsPerSec, frozen |-> TRUE]

WordsOf(s) == IF s.frozen THEN FrozenWords(s.target) ELSE AdvancingWords(s.target, s.base)

(***************************************************************************)
(* The stubs' arithmetic.  A result is seconds and a fraction, in          *)
(* nanoseconds for clock_gettime, in microseconds for gettimeofday and     *)
(* dropped by time.                                                        *)
(***************************************************************************)
\* Mutant of Normalise: a negative fraction is not borrowed for.
NormaliseNoBorrow(sec, frac, unit) ==
    IF frac >= unit THEN [sec |-> sec + 1, frac |-> frac - unit] ELSE [sec |-> sec, frac |-> frac]

\* Mutant of Normalise: a fraction of a second or more is not carried.
NormaliseNoCarry(sec, frac, unit) ==
    IF frac < 0 THEN [sec |-> sec - 1, frac |-> frac + unit] ELSE [sec |-> sec, frac |-> frac]

\* One correction step brings frac into 0 .. unit - 1.
Normalise(sec, frac, unit) ==
    IF frac >= unit THEN [sec |-> sec + 1, frac |-> frac - unit]
    ELSE IF frac < 0 THEN [sec |-> sec - 1, frac |-> frac + unit]
    ELSE [sec |-> sec, frac |-> frac]

UsecPerSec == NsPerSec \div NsPerUsec

\* time: the nanoseconds serve the carry and the borrow only.
AddTime(realSec, realNs, sec, nsec) ==
    [sec |-> Normalise(realSec + sec, realNs + nsec, NsPerSec).sec, frac |-> 0]

\* Advancing mode: the syscall's answer for the real time plus the stored offset.
AddOffset(fn, real, sec, nsec) ==
    LET realSec == real \div NsPerSec
        realNs  == real % NsPerSec
    IN  CASE fn = "gettimeofday" ->
                 Normalise(realSec + sec, realNs \div NsPerUsec + TruncDiv(nsec, NsPerUsec), UsecPerSec)
          [] fn = "time" -> AddTime(realSec, realNs, sec, nsec)
          [] OTHER -> Normalise(realSec + sec, realNs + nsec, NsPerSec)

\* Freeze mode: the stored instant.
Stored(fn, sec, nsec) ==
    CASE fn = "gettimeofday" -> [sec |-> sec, frac |-> TruncDiv(nsec, NsPerUsec)]
      [] fn = "time"         -> [sec |-> sec, frac |-> 0]
      [] OTHER               -> [sec |-> sec, frac |-> nsec]

(***************************************************************************)
(* The state machine.                                                      *)
(***************************************************************************)
Result == [sec : Int, frac : Int]
NoResult == [sec |-> 0, frac |-> 0]

Reader == [pc : {"idle", "mask", "syscall", "sec", "nsec", "done"},
           fn : {"clock_gettime", "gettimeofday", "time"},
           frozen : BOOLEAN,       \* the mode the stub branched on
           real : Int,             \* what the real syscall returned
           sec : Int,              \* the first word, once loaded
           result : Result,
           seen : SUBSET Setting,  \* history: the settings current during the call
           t0 : Int, t1 : Int]     \* history: when the call began and returned

IdleReader == [pc |-> "idle", fn |-> "time", frozen |-> FALSE, real |-> 0, sec |-> 0,
               result |-> NoResult, seen |-> {}, t0 |-> 0, t1 |-> 0]

TypeOK ==
    /\ now \in Nat
    /\ words \in Words
    /\ next \in Words
    /\ pend \subseteq {"sec", "nsec", "frozen"}
    /\ cur \in [done : Setting, inflight : SUBSET Setting]
    /\ writes \in Nat
    /\ rd \in [Readers -> Reader]

\* Injection wrote the page before the vDSO was patched to reach it.
Init ==
    /\ now = 0
    /\ \E s \in [frozen : Modes, target : Targets, base : {0}] :
           /\ words = WordsOf(s)
           /\ cur = [done |-> s, inflight |-> {}]
    /\ next = words
    /\ pend = {}
    /\ writes = 0
    /\ rd = [r \in Readers |-> IdleReader]

Tick ==
    /\ now < MaxNow
    /\ now' = now + 1
    /\ UNCHANGED <<words, next, pend, cur, writes, rd>>

\* handle.SetTime or handle.Freeze: the words are computed, then stored.
StartWrite(s) ==
    /\ pend = {} /\ writes < MaxWrites
    /\ next' = WordsOf(s)
    /\ pend' = {"sec", "nsec", "frozen"}
    /\ cur' = [cur EXCEPT !.inflight = {s}]
    /\ writes' = writes + 1
    /\ rd' = [r \in Readers |->
                 IF rd[r].pc \in {"idle", "done"} THEN rd[r] ELSE [rd[r] EXCEPT !.seen = @ \union {s}]]
    /\ UNCHANGED <<now, words>>

\* The kernel's copy stores the words in an order of its own.
WriteWord(w) ==
    /\ w \in pend
    /\ words' = CASE w = "sec"  -> [words EXCEPT !.sec = next.sec]
                  [] w = "nsec" -> [words EXCEPT !.nsec = next.nsec]
                  [] OTHER      -> [words EXCEPT !.frozen = next.frozen]
    /\ pend' = pend \ {w}
    /\ cur' = IF pend = {w}
              THEN [done |-> CHOOSE s \in cur.inflight : TRUE, inflight |-> {}]
              ELSE cur
    /\ UNCHANGED <<now, next, writes, rd>>

Call(r, fn) ==
    /\ rd[r].pc = "idle"
    /\ rd' = [rd EXCEPT ![r] = [IdleReader EXCEPT !.pc = "mask", !.fn = fn, !.t0 = now,
                                                  !.seen = {cur.done} \union cur.inflight]]
    /\ UNCHANGED <<now, words, next, pend, cur, writes>>

\* test byte [r11 + 16], 2
TestMask(r) ==
    /\ rd[r].pc = "mask"
    /\ rd' = [rd EXCEPT ![r].frozen = words.frozen,
                        ![r].pc = IF words.frozen THEN "sec" ELSE "syscall"]
    /\ UNCHANGED <<now, words, next, pend, cur, writes>>

RealSyscall(r) ==
    /\ rd[r].pc = "syscall"
    /\ rd' = [rd EXCEPT ![r].real = now, ![r].pc = "sec"]
    /\ UNCHANGED <<now, words, next, pend, cur, writes>>

LoadSec(r) ==
    /\ rd[r].pc = "sec"
    /\ rd' = [rd EXCEPT ![r].sec = words.sec, ![r].pc = "nsec"]
    /\ UNCHANGED <<now, words, next, pend, cur, writes>>

\* The second load, the addition and the return.
LoadNsec(r) ==
    /\ rd[r].pc = "nsec"
    /\ rd' = [rd EXCEPT ![r].pc = "done", ![r].t1 = now,
                 ![r].result = IF rd[r].frozen
                               THEN Stored(rd[r].fn, rd[r].sec, words.nsec)
                               ELSE AddOffset(rd[r].fn, rd[r].real, rd[r].sec, words.nsec)]
    /\ UNCHANGED <<now, words, next, pend, cur, writes>>

Return(r) ==
    /\ rd[r].pc = "done"
    /\ rd' = [rd EXCEPT ![r] = IdleReader]
    /\ UNCHANGED <<now, words, next, pend, cur, writes>>

Next ==
    \/ Tick
    \/ \E m \in Modes, target \in Targets : StartWrite([frozen |-> m, target |-> target, base |-> now])
    \/ \E w \in {"sec", "nsec", "frozen"} : WriteWord(w)
    \/ \E r \in Readers :
           \/ \E fn \in Fns : Call(r, fn)
           \/ TestMask(r) \/ RealSyscall(r) \/ LoadSec(r) \/ LoadNsec(r) \/ Return(r)

Spec == Init /\ [][Next]_vars

(***************************************************************************)
(* Properties.                                                             *)
(***************************************************************************)
Unit(fn) == IF fn = "gettimeofday" THEN NsPerUsec ELSE 1

\* The instant a result names, in nanoseconds.
Instant(r) == rd[r].result.sec * NsPerSec + rd[r].result.frac * Unit(rd[r].fn)

\* The fake time that setting s promises at the real time t.
Promised(s, t) == IF s.frozen THEN s.target ELSE s.target + (t - s.base)

Overlapped(r) == \E s1, s2 \in rd[r].seen : s1 # s2

Done(r) == rd[r].pc = "done"

\* A call that no write overlaps returns what SetTime or Freeze promised:
\* clock_gettime to the nanosecond, time the second of that instant, and
\* gettimeofday an instant less than two microseconds early and less than one
\* late (it truncates the real time and the offset separately); a fraction
\* is never negative and always below one second.
StableExact ==
    \A r \in Readers : Done(r) /\ ~Overlapped(r) =>
        \A s \in rd[r].seen :
            LET p == Promised(s, rd[r].real)
            IN  CASE rd[r].fn = "clock_gettime" ->
                         Instant(r) = p /\ rd[r].result.frac \in 0 .. NsPerSec - 1
                  [] rd[r].fn = "gettimeofday" ->
                         /\ Instant(r) - p \in -2 * (NsPerUsec - 1) .. NsPerUsec - 1
                         /\ rd[r].result.frac \in 0 .. UsecPerSec - 1
                  [] OTHER -> rd[r].result.sec = p \div NsPerSec

\* A torn read may leave the range between the old and the new time (see
\* TornBetween); this bounds how far.  While the target stays in advancing mode
\* it is normalised, one correction step being enough, and less than a second
\* outside that range, because the two words of an offset never differ in sign.
TornWithinASecond ==
    \A r \in Readers : Done(r) /\ rd[r].fn = "clock_gettime" /\ (\A s \in rd[r].seen : ~s.frozen) =>
        /\ rd[r].result.frac \in 0 .. NsPerSec - 1
        /\ \E s \in rd[r].seen : Instant(r) > Promised(s, rd[r].t0) - NsPerSec
        /\ \E s \in rd[r].seen : Instant(r) < Promised(s, rd[r].t1) + NsPerSec

\* "A SetTime racing with a concurrent clock_gettime may observe a torn state and
\* return a time between the old and new offsets": no call answers a time
\* before all of the settings current during it, or after all of them.  The
\* code does, in advancing mode too: the seconds of one offset and the
\* nanoseconds of another can add up to more than either.
TornBetween ==
    \A r \in Readers : Done(r) /\ rd[r].fn = "clock_gettime" =>
        /\ \E s \in rd[r].seen : Instant(r) >= Promised(s, rd[r].t0)
        /\ \E s \in rd[r].seen : Instant(r) <= Promised(s, rd[r].t1)
=============================================================================
