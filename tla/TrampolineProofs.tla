--------------------------- MODULE TrampolineProofs ---------------------------
(***************************************************************************)
(* Theorems about Trampoline.tla: the arithmetic of the stubs and of the   *)
(* words written, for a second and a microsecond of any length, and from   *)
(* it what a call may answer while the struct is rewritten.                *)
(***************************************************************************)
EXTENDS Trampoline, TLAPS

(***************************************************************************)
(* Division.                                                               *)
(***************************************************************************)
\* Division by a positive number.
LEMMA DivFacts ==
    ASSUME NEW a \in Int, NEW b \in Nat \ {0}
    PROVE  /\ a \div b \in Int /\ a % b \in 0 .. b - 1
           /\ a = b * (a \div b) + (a % b)
<1>1. a \div b \in Int /\ a % b \in Int
  OBVIOUS
<1>2. 0 <= a % b /\ a % b < b
  OBVIOUS
<1>3. a = b * (a \div b) + (a % b)
  OBVIOUS
<1> QED
  BY <1>1, <1>2, <1>3

\* A multiple of b strictly between -b and b is zero.
LEMMA SmallMultiple ==
    ASSUME NEW q \in Int, NEW b \in Nat \ {0}, q * b < b, q * b > -b
    PROVE  q = 0
<1>1. CASE q >= 1
  BY <1>1
<1>2. CASE q <= -1
  BY <1>2
<1> QED
  BY <1>1, <1>2

\* Quotient and remainder are unique.
LEMMA DivUnique ==
    ASSUME NEW a \in Int, NEW b \in Nat \ {0}, NEW q \in Int, NEW f \in 0 .. b - 1, a = q * b + f
    PROVE  a \div b = q
<1> DEFINE d == a \div b
           r == a % b
<1>1. d \in Int /\ r \in 0 .. b - 1 /\ a = b * d + r
  BY DivFacts
<1> HIDE DEF d, r
<1>2. (q - d) * b = r - f
  BY <1>1
<1>3. (q - d) * b < b /\ (q - d) * b > -b
  BY <1>1, <1>2
<1>4. q - d = 0
  BY <1>1, <1>3, SmallMultiple
<1>5. d = q
  BY <1>1, <1>4
<1> QED
  BY <1>5 DEF d

\* A remainder of the truncating division has the sign of what is divided.
Rest(a, b) == a - TruncDiv(a, b) * b

\* Truncating division.
LEMMA TruncFacts ==
    ASSUME NEW a \in Int, NEW b \in Nat \ {0}
    PROVE  /\ TruncDiv(a, b) \in Int /\ Rest(a, b) \in 1 - b .. b - 1
           /\ a = TruncDiv(a, b) * b + Rest(a, b)
           /\ a >= 0 => TruncDiv(a, b) >= 0 /\ Rest(a, b) >= 0
           /\ a <= 0 => TruncDiv(a, b) <= 0 /\ Rest(a, b) <= 0
           /\ TruncDiv(a, b) > 0 => Rest(a, b) >= 0
           /\ TruncDiv(a, b) < 0 => Rest(a, b) <= 0
<1> DEFINE q == TruncDiv(a, b)
           r == Rest(a, b)
<1>1. CASE a >= 0
  <2> DEFINE d == a \div b
             m == a % b
  <2>1. d \in Int /\ m \in 0 .. b - 1 /\ a = b * d + m
    BY DivFacts
  <2>2. q = d
    BY <1>1 DEF TruncDiv
  <2> HIDE DEF d, m, q
  <2>3. r = a - q * b
    BY DEF Rest, q
  <2>4. r = m
    BY <2>1, <2>2, <2>3
  <2>5. q >= 0
    <3> SUFFICES ASSUME q <= -1 PROVE FALSE
      BY <2>1, <2>2
    <3>1. b * q <= -b
      BY <2>1, <2>2
    <3> QED BY <1>1, <2>1, <2>2, <3>1
  <2>6. a = 0 => q = 0
    <3> SUFFICES ASSUME a = 0 PROVE q = 0
      OBVIOUS
    <3>1. q * b = -m
      BY <2>1, <2>2
    <3>2. q * b < b /\ q * b > -b
      BY <2>1, <3>1
    <3> QED BY <2>1, <2>2, <3>2, SmallMultiple
  <2> HIDE DEF r
  <2>7. a = 0 => r = 0
    BY <2>1, <2>3, <2>6
  <2>8. q \in Int /\ r \in 1 - b .. b - 1 /\ a = q * b + r /\ r >= 0
    BY <2>1, <2>2, <2>3, <2>4
  <2> QED BY <1>1, <2>5, <2>6, <2>7, <2>8 DEF q, r
<1>2. CASE a < 0
  <2> DEFINE d == (-a) \div b
             m == (-a) % b
  <2>0. -a \in Int
    OBVIOUS
  <2>1. d \in Int /\ m \in 0 .. b - 1 /\ -a = b * d + m
    BY <2>0, DivFacts
  <2>2. q = -d
    BY <1>2 DEF TruncDiv
  <2> HIDE DEF d, m, q
  <2>3. r = a - q * b
    BY DEF Rest, q
  <2>4. r = -m
    BY <2>1, <2>2, <2>3
  <2>5. d >= 0
    <3> SUFFICES ASSUME d <= -1 PROVE FALSE
      BY <2>1
    <3>1. b * d <= -b
      BY <2>1
    <3> QED BY <1>2, <2>1, <3>1
  <2> HIDE DEF r
  <2>6. q \in Int /\ r \in 1 - b .. b - 1 /\ a = q * b + r /\ r <= 0 /\ q <= 0
    BY <2>1, <2>2, <2>3, <2>4, <2>5
  <2> QED BY <1>2, <2>6 DEF q, r
<1> QED
  BY <1>1, <1>2

(***************************************************************************)
(* The words of the struct.                                                *)
(***************************************************************************)
\* No target is so far from the real clock that a time.Duration saturates.
InRange == \A target \in Targets, base \in 0 .. MaxNow : target - base \in -MaxDuration .. MaxDuration

\* The settings that SetTime and Freeze are called with.
Settings == [frozen : Modes, target : Targets, base : 0 .. MaxNow]

\* What a setting adds to the real time, or where it holds the clock.
Offset(s) == IF s.frozen THEN s.target ELSE s.target - s.base

\* The words of a setting name its offset.
LEMMA WordsNameOffset ==
    ASSUME InRange, NEW s \in Settings
    PROVE  /\ WordsOf(s) \in Words /\ WordsOf(s).frozen = s.frozen
           /\ Offset(s) \in Int
           /\ WordsOf(s).sec * NsPerSec + WordsOf(s).nsec = Offset(s)
           /\ s.frozen => WordsOf(s).nsec >= 0
           /\ WordsOf(s).sec > 0 => WordsOf(s).nsec >= 0
           /\ ~s.frozen /\ WordsOf(s).sec < 0 => WordsOf(s).nsec <= 0
<1>1. /\ s.frozen \in BOOLEAN /\ s.target \in Targets /\ s.base \in 0 .. MaxNow
      /\ s.target \in Int /\ s.base \in Int /\ NsPerSec \in Nat \ {0} /\ MaxDuration \in Nat
  <2>1. s.frozen \in Modes /\ s.target \in Targets /\ s.base \in 0 .. MaxNow
    BY DEF Settings
  <2>2. s.frozen \in BOOLEAN
    BY <2>1, CallAssumption, Zenon
  <2>3. s.target \in Nat
    BY <2>1, CallAssumption, Zenon
  <2>4. s.base \in Int
    BY <2>1
  <2> QED BY <2>1, <2>2, <2>3, <2>4, UnitAssumption
<1>2. CASE s.frozen
  <2> DEFINE q == s.target \div NsPerSec
             r == s.target % NsPerSec
  <2>1. q \in Int /\ r \in 0 .. NsPerSec - 1 /\ s.target = NsPerSec * q + r
    BY <1>1, DivFacts
  <2>2. WordsOf(s) = [sec |-> q, nsec |-> r, frozen |-> TRUE]
    BY <1>2 DEF WordsOf, FrozenWords
  <2> HIDE DEF q, r
  <2>3. WordsOf(s).sec = q /\ WordsOf(s).nsec = r /\ WordsOf(s).frozen = TRUE /\ Offset(s) = s.target
    BY <1>2, <2>2 DEF Offset
  <2>4. r \in 1 - NsPerSec .. NsPerSec - 1 /\ r >= 0
    BY <1>1, <2>1
  <2>5. q * NsPerSec + r = s.target
    BY <1>1, <2>1
  <2>6. WordsOf(s) \in Words
    BY <2>1, <2>2, <2>4 DEF Words
  <2>7. WordsOf(s).frozen = s.frozen
    BY <1>1, <1>2, <2>3
  <2> QED BY <1>1, <1>2, <2>3, <2>4, <2>5, <2>6, <2>7
<1>3. CASE ~s.frozen
  <2> DEFINE d == s.target - s.base
             q == TruncDiv(d, NsPerSec)
             r == Rest(d, NsPerSec)
  <2>1. d \in Int /\ d \in -MaxDuration .. MaxDuration
    BY <1>1 DEF InRange
  <2>2. Sub(s.target, s.base) = d
    BY <1>1, <2>1 DEF Sub
  <2>3. /\ q \in Int /\ r \in 1 - NsPerSec .. NsPerSec - 1 /\ d = q * NsPerSec + r
        /\ q > 0 => r >= 0
        /\ q < 0 => r <= 0
    BY <1>1, <2>1, TruncFacts
  <2>4. WordsOf(s) = [sec |-> q, nsec |-> r, frozen |-> FALSE]
    BY <1>3, <2>2 DEF WordsOf, AdvancingWords, Rest
  <2> HIDE DEF q, r
  <2>5. WordsOf(s).sec = q /\ WordsOf(s).nsec = r /\ WordsOf(s).frozen = FALSE /\ Offset(s) = d
    BY <1>3, <2>4 DEF Offset
  <2>6. WordsOf(s) \in Words
    BY <2>3, <2>4 DEF Words
  <2> HIDE DEF d
  <2> QED BY <1>1, <1>3, <2>1, <2>3, <2>5, <2>6
<1> QED
  BY <1>1, <1>2, <1>3

(***************************************************************************)
(* The stubs' arithmetic.                                                  *)
(***************************************************************************)
\* A corrected result names the same instant.
LEMMA NormaliseFacts ==
    ASSUME NEW unit \in Nat \ {0}, NEW sec \in Int, NEW frac \in -unit .. 2 * unit - 1
    PROVE  LET n == Normalise(sec, frac, unit)
           IN  /\ n \in Result /\ n.frac \in 0 .. unit - 1
               /\ n.sec * unit + n.frac = sec * unit + frac
<1> DEFINE n == Normalise(sec, frac, unit)
<1>1. CASE frac >= unit
  <2>1. n = [sec |-> sec + 1, frac |-> frac - unit]
    BY <1>1 DEF Normalise
  <2> HIDE DEF n
  <2>2. (sec + 1) * unit + (frac - unit) = sec * unit + frac
    OBVIOUS
  <2> QED BY <1>1, <2>1, <2>2 DEF Result, n
<1>2. CASE frac < 0
  <2>1. n = [sec |-> sec - 1, frac |-> frac + unit]
    BY <1>2 DEF Normalise
  <2> HIDE DEF n
  <2>2. (sec - 1) * unit + (frac + unit) = sec * unit + frac
    OBVIOUS
  <2> QED BY <1>2, <2>1, <2>2 DEF Result, n
<1>3. CASE frac \in 0 .. unit - 1
  BY <1>3 DEF Normalise, Result
<1> QED
  BY <1>1, <1>2, <1>3

\* clock_gettime in advancing mode adds exactly.
LEMMA AddedClock ==
    ASSUME NEW real \in Int, NEW sec \in Int, NEW nsec \in 1 - NsPerSec .. NsPerSec - 1
    PROVE  LET n == AddOffset("clock_gettime", real, sec, nsec)
           IN  /\ n \in Result /\ n.frac \in 0 .. NsPerSec - 1
               /\ n.sec * NsPerSec + n.frac = real + (sec * NsPerSec + nsec)
<1> DEFINE q == real \div NsPerSec
           r == real % NsPerSec
           n == Normalise(q + sec, r + nsec, NsPerSec)
<1>1. NsPerSec \in Nat \ {0}
  BY UnitAssumption
<1>2. q \in Int /\ r \in 0 .. NsPerSec - 1 /\ real = NsPerSec * q + r
  BY <1>1, DivFacts
<1>3. AddOffset("clock_gettime", real, sec, nsec) = n
  BY DEF AddOffset
<1> HIDE DEF q, r
<1>4. q + sec \in Int /\ r + nsec \in -NsPerSec .. 2 * NsPerSec - 1
  BY <1>1, <1>2
<1>5. /\ n \in Result /\ n.frac \in 0 .. NsPerSec - 1
      /\ n.sec * NsPerSec + n.frac = (q + sec) * NsPerSec + (r + nsec)
  BY <1>1, <1>4, NormaliseFacts
<1>6. (q + sec) * NsPerSec + (r + nsec) = real + (sec * NsPerSec + nsec)
  BY <1>1, <1>2
<1> HIDE DEF n
<1> QED
  BY <1>3, <1>5, <1>6

\* time in advancing mode gives the second.
LEMMA AddedTime ==
    ASSUME NEW real \in Int, NEW sec \in Int, NEW nsec \in 1 - NsPerSec .. NsPerSec - 1
    PROVE  LET n == AddOffset("time", real, sec, nsec)
           IN  n \in Result /\ n.sec = (real + (sec * NsPerSec + nsec)) \div NsPerSec
<1> DEFINE q == real \div NsPerSec
           r == real % NsPerSec
           n == Normalise(q + sec, r + nsec, NsPerSec)
           a == real + (sec * NsPerSec + nsec)
<1>1. NsPerSec \in Nat \ {0}
  BY UnitAssumption
<1>2. q \in Int /\ r \in 0 .. NsPerSec - 1 /\ real = NsPerSec * q + r
  BY <1>1, DivFacts
<1>3. AddOffset("time", real, sec, nsec) = [sec |-> n.sec, frac |-> 0]
  BY DEF AddOffset, AddTime
<1> HIDE DEF q, r
<1>4. q + sec \in Int /\ r + nsec \in -NsPerSec .. 2 * NsPerSec - 1
  BY <1>1, <1>2
<1>5. /\ n \in Result /\ n.frac \in 0 .. NsPerSec - 1
      /\ n.sec * NsPerSec + n.frac = (q + sec) * NsPerSec + (r + nsec)
  BY <1>1, <1>4, NormaliseFacts
<1>6. (q + sec) * NsPerSec + (r + nsec) = a /\ a \in Int
  BY <1>1, <1>2
<1> HIDE DEF n
<1>7. n.sec \in Int
  BY <1>5 DEF Result
<1> HIDE DEF a
<1>8. a \div NsPerSec = n.sec
  BY <1>1, <1>5, <1>6, <1>7, DivUnique
<1>9. [sec |-> n.sec, frac |-> 0] \in Result
  BY <1>7 DEF Result
<1> QED
  BY <1>3, <1>8, <1>9 DEF a

\* Microseconds divide a second.
LEMMA UsecFacts ==
    /\ NsPerSec \in Nat \ {0} /\ NsPerUsec \in Nat \ {0}
    /\ UsecPerSec \in Nat \ {0} /\ UsecPerSec * NsPerUsec = NsPerSec
<1> DEFINE q == NsPerSec \div NsPerUsec
           r == NsPerSec % NsPerUsec
<1>1. NsPerSec \in Nat \ {0} /\ NsPerUsec \in Nat \ {0} /\ r = 0
  BY UnitAssumption
<1>2. q \in Int /\ NsPerSec = NsPerUsec * q + r
  BY <1>1, DivFacts
<1>3. q = UsecPerSec
  BY DEF UsecPerSec
<1> HIDE DEF q, r
<1>4. q * NsPerUsec = NsPerSec
  BY <1>1, <1>2
<1>5. q >= 1
  <2> SUFFICES ASSUME q <= 0 PROVE FALSE
    BY <1>2
  <2>1. q * NsPerUsec <= 0
    BY <1>1, <1>2
  <2> QED BY <1>1, <1>4, <2>1
<1> QED
  BY <1>1, <1>2, <1>3, <1>4, <1>5

\* Nanoseconds below a second are microseconds below a second.
LEMMA UsecOf ==
    ASSUME NEW nsec \in 1 - NsPerSec .. NsPerSec - 1
    PROVE  /\ TruncDiv(nsec, NsPerUsec) \in 1 - UsecPerSec .. UsecPerSec - 1
           /\ Rest(nsec, NsPerUsec) \in 1 - NsPerUsec .. NsPerUsec - 1
           /\ nsec = TruncDiv(nsec, NsPerUsec) * NsPerUsec + Rest(nsec, NsPerUsec)
           /\ nsec >= 0 => /\ TruncDiv(nsec, NsPerUsec) \in 0 .. UsecPerSec - 1
                           /\ Rest(nsec, NsPerUsec) >= 0
                           /\ TruncDiv(nsec, NsPerUsec) = nsec \div NsPerUsec
<1> DEFINE q == TruncDiv(nsec, NsPerUsec)
           r == Rest(nsec, NsPerUsec)
<1>1. /\ NsPerSec \in Nat \ {0} /\ NsPerUsec \in Nat \ {0}
      /\ UsecPerSec \in Nat \ {0} /\ UsecPerSec * NsPerUsec = NsPerSec
  BY UsecFacts
<1>2. nsec \in Int
  BY <1>1
<1>3. /\ q \in Int /\ r \in 1 - NsPerUsec .. NsPerUsec - 1
      /\ nsec = q * NsPerUsec + r
      /\ nsec >= 0 => q >= 0 /\ r >= 0
      /\ q > 0 => r >= 0
      /\ q < 0 => r <= 0
  BY <1>1, <1>2, TruncFacts
<1>4. nsec >= 0 => q = nsec \div NsPerUsec
  BY DEF TruncDiv
<1> HIDE DEF q, r
<1>5. q <= UsecPerSec - 1
  <2> SUFFICES ASSUME q >= UsecPerSec PROVE FALSE
    BY <1>1, <1>3
  <2>1. (q - UsecPerSec) * NsPerUsec >= 0
    BY <1>1, <1>3
  <2>2. q * NsPerUsec >= NsPerSec /\ r >= 0
    BY <1>1, <1>3, <2>1
  <2> QED BY <1>1, <1>3, <2>2
<1>6. q >= 1 - UsecPerSec
  <2> SUFFICES ASSUME q <= -UsecPerSec PROVE FALSE
    BY <1>1, <1>3
  <2>1. (q + UsecPerSec) * NsPerUsec <= 0
    BY <1>1, <1>3
  <2>2. q * NsPerUsec <= -NsPerSec /\ r <= 0
    BY <1>1, <1>3, <2>1
  <2> QED BY <1>1, <1>3, <2>2
<1> QED
  BY <1>1, <1>3, <1>4, <1>5, <1>6 DEF q, r

\* gettimeofday in advancing mode: two truncations.
LEMMA AddedUsec ==
    ASSUME NEW real \in Int, NEW sec \in Int, NEW nsec \in 1 - NsPerSec .. NsPerSec - 1
    PROVE  LET n == AddOffset("gettimeofday", real, sec, nsec)
           IN  /\ n \in Result /\ n.frac \in 0 .. UsecPerSec - 1
               /\ (n.sec * NsPerSec + n.frac * NsPerUsec) - (real + (sec * NsPerSec + nsec))
                      \in -2 * (NsPerUsec - 1) .. NsPerUsec - 1
<1> DEFINE q == real \div NsPerSec
           r == real % NsPerSec
           a == r \div NsPerUsec
           x == Rest(r, NsPerUsec)
           b == TruncDiv(nsec, NsPerUsec)
           y == Rest(nsec, NsPerUsec)
           n == Normalise(q + sec, a + b, UsecPerSec)
<1>1. /\ NsPerSec \in Nat \ {0} /\ NsPerUsec \in Nat \ {0}
      /\ UsecPerSec \in Nat \ {0} /\ UsecPerSec * NsPerUsec = NsPerSec
  BY UsecFacts
<1>2. q \in Int /\ r \in 0 .. NsPerSec - 1 /\ real = NsPerSec * q + r
  BY <1>1, DivFacts
<1>3. AddOffset("gettimeofday", real, sec, nsec) = n
  BY DEF AddOffset
<1> HIDE DEF q, r
<1>4. r \in 1 - NsPerSec .. NsPerSec - 1 /\ r >= 0
  BY <1>1, <1>2
<1>5. /\ a \in 0 .. UsecPerSec - 1 /\ x \in 0 .. NsPerUsec - 1 /\ r = a * NsPerUsec + x
  <2> DEFINE c == TruncDiv(r, NsPerUsec)
  <2>1. /\ c \in 0 .. UsecPerSec - 1 /\ c = a /\ x \in 1 - NsPerUsec .. NsPerUsec - 1 /\ x >= 0
        /\ r = c * NsPerUsec + x
    BY <1>4, UsecOf
  <2> HIDE DEF a, x, c
  <2> QED BY <1>1, <2>1
<1>6. /\ b \in 1 - UsecPerSec .. UsecPerSec - 1 /\ y \in 1 - NsPerUsec .. NsPerUsec - 1
      /\ nsec = b * NsPerUsec + y
  BY UsecOf
<1> HIDE DEF a, b, x, y
<1>7. q + sec \in Int /\ a + b \in -UsecPerSec .. 2 * UsecPerSec - 1
  BY <1>1, <1>2, <1>5, <1>6
<1>8. /\ n \in Result /\ n.frac \in 0 .. UsecPerSec - 1
      /\ n.sec * UsecPerSec + n.frac = (q + sec) * UsecPerSec + (a + b)
  BY <1>1, <1>7, NormaliseFacts
<1> HIDE DEF n
<1>9. n.sec \in Int /\ n.frac \in Int
  BY <1>8 DEF Result
<1>10. n.sec * NsPerSec + n.frac * NsPerUsec = (q + sec) * NsPerSec + (a + b) * NsPerUsec
  <2>1. (n.sec * UsecPerSec + n.frac) * NsPerUsec = ((q + sec) * UsecPerSec + (a + b)) * NsPerUsec
    BY <1>8
  <2> DEFINE s == n.sec
             f == n.frac
             g == q + sec
             h == a + b
  <2>2. s \in Int /\ f \in Int /\ g \in Int /\ h \in Int
    BY <1>1, <1>5, <1>6, <1>7, <1>9
  <2>3. (s * UsecPerSec + f) * NsPerUsec = (g * UsecPerSec + h) * NsPerUsec
    BY <2>1
  <2> HIDE DEF s, f, g, h
  <2>4. (s * UsecPerSec + f) * NsPerUsec = s * (UsecPerSec * NsPerUsec) + f * NsPerUsec
    BY <1>1, <2>2
  <2>5. (g * UsecPerSec + h) * NsPerUsec = g * (UsecPerSec * NsPerUsec) + h * NsPerUsec
    BY <1>1, <2>2
  <2>6. s * NsPerSec + f * NsPerUsec = g * NsPerSec + h * NsPerUsec
    BY <1>1, <2>3, <2>4, <2>5
  <2> QED BY <2>6 DEF s, f, g, h
<1>11. ((q + sec) * NsPerSec + (a + b) * NsPerUsec) - (real + (sec * NsPerSec + nsec)) = -(x + y)
  <2>1. a \in Int /\ b \in Int /\ x \in Int /\ y \in Int
    BY <1>1, <1>5, <1>6
  <2>2. (q + sec) * NsPerSec = q * NsPerSec + sec * NsPerSec
    BY <1>1, <1>2
  <2>3. (a + b) * NsPerUsec = a * NsPerUsec + b * NsPerUsec
    BY <1>1, <2>1
  <2> QED BY <1>1, <1>2, <1>5, <1>6, <2>1, <2>2, <2>3
<1>12. -(x + y) \in -2 * (NsPerUsec - 1) .. NsPerUsec - 1
  BY <1>1, <1>5, <1>6
<1>13. (n.sec * NsPerSec + n.frac * NsPerUsec) - (real + (sec * NsPerSec + nsec)) = -(x + y)
  <2> DEFINE got == n.sec * NsPerSec + n.frac * NsPerUsec
             all == (q + sec) * NsPerSec + (a + b) * NsPerUsec
             p   == real + (sec * NsPerSec + nsec)
             z   == -(x + y)
  <2>1. got = all
    BY <1>10
  <2>2. all - p = z
    BY <1>11
  <2> HIDE DEF got, all, p, z
  <2>3. got - p = z
    BY <2>1, <2>2
  <2> QED BY <2>3 DEF got, p, z
<1>14. (n.sec * NsPerSec + n.frac * NsPerUsec) - (real + (sec * NsPerSec + nsec))
           \in -2 * (NsPerUsec - 1) .. NsPerUsec - 1
  BY ONLY <1>12, <1>13
<1> QED
  BY <1>3, <1>8, <1>14

(***************************************************************************)
(* The inductive invariant.                                                *)
(***************************************************************************)
\* The settings of which a word may be in the struct.
Current == {cur.done} \union cur.inflight

\* A word is that of the last complete write until the write under way has
\* stored its own.
StructInv ==
    /\ now \in 0 .. MaxNow
    /\ cur.done \in Settings /\ cur.inflight \subseteq Settings
    /\ pend = {} => cur.inflight = {}
    /\ pend # {} => \E s \in cur.inflight : cur.inflight = {s} /\ next = WordsOf(s)
    /\ words.sec = IF "sec" \in pend \/ pend = {} THEN WordsOf(cur.done).sec ELSE next.sec
    /\ words.nsec = IF "nsec" \in pend \/ pend = {} THEN WordsOf(cur.done).nsec ELSE next.nsec
    /\ words.frozen = IF "frozen" \in pend \/ pend = {} THEN WordsOf(cur.done).frozen ELSE next.frozen

\* What a stub returns from the two words it has loaded.
Answer(l, sec, nsec) == IF l.frozen THEN Stored(l.fn, sec, nsec) ELSE AddOffset(l.fn, l.real, sec, nsec)

InStub(l) == l.pc \in {"mask", "syscall", "sec", "nsec"}

\* A stub in the state l, at the time t, when c is Current: everything it has
\* loaded comes from the settings current during the call.
ReadInv(l, c, t) ==
    /\ l.pc # "idle" => l.seen \subseteq Settings
    /\ InStub(l) => c \subseteq l.seen /\ l.t0 <= t
    /\ l.pc = "syscall" => ~l.frozen
    /\ l.pc \in {"syscall", "sec", "nsec", "done"} => \E s \in l.seen : l.frozen = s.frozen
    /\ l.pc \in {"sec", "nsec"} /\ ~l.frozen => l.t0 <= l.real /\ l.real <= t
    /\ l.pc = "nsec" => \E s \in l.seen : l.sec = WordsOf(s).sec
    /\ l.pc = "done" => /\ \E s1, s2 \in l.seen : l.result = Answer(l, WordsOf(s1).sec, WordsOf(s2).nsec)
                        /\ ~l.frozen => l.t0 <= l.real /\ l.real <= l.t1

Inv == TypeOK /\ StructInv /\ \A r \in Readers : ReadInv(rd[r], Current, now)

\* The words of any setting have their type.
LEMMA WordsTyped ==
    ASSUME NEW s \in Setting
    PROVE  WordsOf(s) \in Words /\ WordsOf(s).frozen = s.frozen
<1>1. s.frozen \in BOOLEAN /\ s.target \in Int /\ s.base \in Int
  BY DEF Setting
<1>2. NsPerSec \in Nat \ {0} /\ MaxDuration \in Nat
  BY UnitAssumption
<1>3. CASE s.frozen
  <2> DEFINE q == s.target \div NsPerSec
             r == s.target % NsPerSec
  <2>1. q \in Int /\ r \in 0 .. NsPerSec - 1
    BY <1>1, <1>2, DivFacts
  <2>2. WordsOf(s) = [sec |-> q, nsec |-> r, frozen |-> TRUE]
    BY <1>3 DEF WordsOf, FrozenWords
  <2> HIDE DEF q, r
  <2>3. r \in 1 - NsPerSec .. NsPerSec - 1
    BY <1>2, <2>1
  <2> QED BY <1>1, <1>3, <2>1, <2>2, <2>3 DEF Words
<1>4. CASE ~s.frozen
  <2> DEFINE d == Sub(s.target, s.base)
             q == TruncDiv(d, NsPerSec)
             r == Rest(d, NsPerSec)
  <2>1. d \in Int
    BY <1>1, <1>2 DEF Sub
  <2>2. WordsOf(s) = [sec |-> q, nsec |-> r, frozen |-> FALSE]
    BY <1>4 DEF WordsOf, AdvancingWords, Rest
  <2> HIDE DEF d
  <2>3. q \in Int /\ r \in 1 - NsPerSec .. NsPerSec - 1
    BY <1>2, <2>1, TruncFacts
  <2> HIDE DEF q, r
  <2>4. WordsOf(s) \in Words
    BY <2>2, <2>3 DEF Words
  <2>5. WordsOf(s).frozen = FALSE
    BY <2>2
  <2>6. s.frozen = FALSE
    BY <1>1, <1>4
  <2> QED BY <2>4, <2>5, <2>6
<1> QED
  BY <1>1, <1>3, <1>4

\* The settings written are settings.
LEMMA SettingsTyped ==
    Settings \subseteq Setting
<1> SUFFICES ASSUME NEW s \in Settings PROVE s \in Setting
  OBVIOUS
<1>1. s \in [frozen : Modes, target : Targets, base : 0 .. MaxNow]
  BY DEF Settings
<1>2. Modes \subseteq BOOLEAN /\ Targets \subseteq Int /\ 0 .. MaxNow \subseteq Int
  BY CallAssumption
<1> QED
  BY <1>1, <1>2 DEF Setting

\* The answer of a stub has its type.
LEMMA AnswerTyped ==
    ASSUME NEW l \in Reader, NEW sec \in Int, NEW nsec \in 1 - NsPerSec .. NsPerSec - 1
    PROVE  Answer(l, sec, nsec) \in Result
<1>1. l.real \in Int /\ l.fn \in {"clock_gettime", "gettimeofday", "time"}
  BY DEF Reader
<1>2. AddOffset(l.fn, l.real, sec, nsec) \in Result
  BY <1>1, AddedClock, AddedTime, AddedUsec
<1>3. Stored(l.fn, sec, nsec) \in Result
  <2>1. nsec \in Int
    BY UnitAssumption
  <2>2. TruncDiv(nsec, NsPerUsec) \in Int
    BY <2>1, UnitAssumption, TruncFacts
  <2> QED BY <1>1, <2>1, <2>2 DEF Stored, Result
<1> QED
  BY <1>2, <1>3 DEF Answer

\* Every word in the struct comes from a current setting.
LEMMA WordsCurrent ==
    ASSUME TypeOK, StructInv
    PROVE  /\ \E s \in Current : words.sec = WordsOf(s).sec
           /\ \E s \in Current : words.nsec = WordsOf(s).nsec
           /\ \E s \in Current : words.frozen = s.frozen
<1>1. \A s \in Current : WordsOf(s).frozen = s.frozen
  <2>1. Current \subseteq Settings
    BY DEF StructInv, Current
  <2> QED BY <2>1, SettingsTyped, WordsTyped
<1>2. CASE pend = {}
  <2>1. cur.done \in Current
    BY DEF Current
  <2> QED BY <1>1, <1>2, <2>1 DEF StructInv
<1>3. CASE pend # {}
  <2>1. PICK s \in cur.inflight : next = WordsOf(s)
    BY <1>3 DEF StructInv
  <2>2. s \in Current /\ cur.done \in Current
    BY DEF Current
  <2>3. \E u \in Current : words.sec = WordsOf(u).sec
    BY <1>3, <2>1, <2>2 DEF StructInv
  <2>4. \E u \in Current : words.nsec = WordsOf(u).nsec
    BY <1>3, <2>1, <2>2 DEF StructInv
  <2>5. \E u \in Current : words.frozen = WordsOf(u).frozen
    BY <1>3, <2>1, <2>2 DEF StructInv
  <2> QED BY <1>1, <2>3, <2>4, <2>5
<1> QED
  BY <1>2, <1>3

\* The invariant holds at the start.
LEMMA InitInv == Init => Inv
<1> SUFFICES ASSUME Init PROVE Inv
  OBVIOUS
<1>1. PICK s \in [frozen : Modes, target : Targets, base : {0}] :
          words = WordsOf(s) /\ cur = [done |-> s, inflight |-> {}]
  BY DEF Init
<1>2. s \in Settings
  BY <1>1, CallAssumption DEF Settings
<1>3. s \in Setting /\ WordsOf(s) \in Words
  BY <1>2, SettingsTyped, WordsTyped
<1>4. now = 0 /\ next = words /\ pend = {} /\ writes = 0 /\ rd = [r \in Readers |-> IdleReader]
  BY DEF Init
<1>5. IdleReader \in Reader /\ IdleReader.pc = "idle"
  BY DEF IdleReader, Reader, NoResult, Result
<1>6. TypeOK
  BY <1>1, <1>3, <1>4, <1>5 DEF TypeOK
<1>7. StructInv
  BY <1>1, <1>2, <1>4, CallAssumption DEF StructInv
<1>8. \A r \in Readers : ReadInv(rd[r], Current, now)
  BY <1>4, <1>5 DEF ReadInv, InStub
<1> QED
  BY <1>6, <1>7, <1>8 DEF Inv

(***************************************************************************)
(* The steps of the writer and of the clock.                               *)
(***************************************************************************)
\* Time passes.
LEMMA TickStep ==
    ASSUME Inv, Tick
    PROVE  Inv'
<1>1. now \in Nat /\ MaxNow \in Nat /\ now' = now + 1 /\ now < MaxNow
      /\ UNCHANGED <<words, next, pend, cur, writes, rd>>
  BY CallAssumption DEF Inv, TypeOK, Tick
<1>2. TypeOK'
  BY <1>1 DEF Inv, TypeOK
<1>3. StructInv'
  <2>1. now' \in 0 .. MaxNow
    BY <1>1
  <2> QED BY <1>1, <2>1 DEF Inv, StructInv
<1>4. ASSUME NEW r \in Readers PROVE ReadInv(rd[r], Current, now)'
  <2>1. rd[r] \in Reader /\ ReadInv(rd[r], Current, now)
    BY DEF Inv, TypeOK
  <2>2. rd[r].t0 \in Int /\ rd[r].real \in Int
    BY <2>1 DEF Reader
  <2>3. Current' = Current /\ rd' = rd
    BY <1>1 DEF Current
  <2>4. ReadInv(rd[r], Current, now + 1)
    BY <1>1, <2>1, <2>2 DEF ReadInv
  <2> QED BY <1>1, <2>3, <2>4
<1> QED
  BY <1>2, <1>3, <1>4 DEF Inv

\* SetTime or Freeze starts a write: every stub under way may see it.
LEMMA StartWriteStep ==
    ASSUME Inv, NEW m \in Modes, NEW target \in Targets,
           StartWrite([frozen |-> m, target |-> target, base |-> now])
    PROVE  Inv'
<1> DEFINE s == [frozen |-> m, target |-> target, base |-> now]
<1>1. s \in Settings
  BY DEF Settings, Inv, StructInv
<1> HIDE DEF s
<1>2. s \in Setting /\ WordsOf(s) \in Words
  BY <1>1, SettingsTyped, WordsTyped
<1>3. /\ pend = {} /\ next' = WordsOf(s) /\ pend' = {"sec", "nsec", "frozen"}
      /\ cur' = [cur EXCEPT !.inflight = {s}] /\ writes' = writes + 1
      /\ rd' = [r \in Readers |->
                   IF rd[r].pc \in {"idle", "done"} THEN rd[r] ELSE [rd[r] EXCEPT !.seen = @ \union {s}]]
      /\ now' = now /\ words' = words
  BY DEF StartWrite, s
<1>4. cur'.done = cur.done /\ cur'.inflight = {s} /\ cur.inflight = {} /\ cur' \in [done : Setting, inflight : SUBSET Setting]
  BY <1>2, <1>3 DEF Inv, TypeOK, StructInv
<1>5. Current' = Current \union {s}
  BY <1>4 DEF Current
<1>6. ASSUME NEW r \in Readers PROVE rd'[r] \in Reader /\ ReadInv(rd'[r], Current', now')
  <2>1. rd[r] \in Reader /\ ReadInv(rd[r], Current, now)
    BY DEF Inv, TypeOK
  <2>2. CASE rd[r].pc \in {"idle", "done"}
    <3>1. rd'[r] = rd[r]
      BY <1>3, <2>2
    <3> QED BY <1>3, <2>1, <2>2, <3>1 DEF ReadInv, InStub
  <2>3. CASE rd[r].pc \notin {"idle", "done"}
    <3> DEFINE l == [rd[r] EXCEPT !.seen = @ \union {s}]
    <3>1. rd'[r] = l
      BY <1>3, <2>3
    <3>2. l \in Reader
      BY <1>2, <2>1 DEF Reader
    <3>3. /\ l.pc = rd[r].pc /\ l.frozen = rd[r].frozen /\ l.real = rd[r].real /\ l.sec = rd[r].sec
          /\ l.seen = rd[r].seen \union {s} /\ l.t0 = rd[r].t0
      BY <2>1 DEF Reader
    <3> HIDE DEF l
    <3>4. ReadInv(l, Current', now)
      BY <1>1, <1>5, <2>1, <2>3, <3>3 DEF ReadInv, InStub
    <3> QED BY <1>3, <3>1, <3>2, <3>4
  <2> QED BY <2>2, <2>3
<1>7. TypeOK'
  <2>1. rd' \in [Readers -> Reader]
    BY <1>3, <1>6
  <2> QED BY <1>2, <1>3, <1>4, <2>1 DEF Inv, TypeOK
<1>8. StructInv'
  BY <1>1, <1>3, <1>4 DEF Inv, StructInv
<1>9. \A r \in Readers : ReadInv(rd[r], Current, now)'
  BY <1>6
<1> QED
  BY <1>7, <1>8, <1>9 DEF Inv

\* The kernel stores one word.
LEMMA WriteWordStep ==
    ASSUME Inv, NEW w \in {"sec", "nsec", "frozen"}, WriteWord(w)
    PROVE  Inv'
<1>1. /\ w \in pend /\ pend' = pend \ {w}
      /\ words' = CASE w = "sec"  -> [words EXCEPT !.sec = next.sec]
                    [] w = "nsec" -> [words EXCEPT !.nsec = next.nsec]
                    [] OTHER      -> [words EXCEPT !.frozen = next.frozen]
      /\ cur' = IF pend = {w}
                THEN [done |-> CHOOSE s \in cur.inflight : TRUE, inflight |-> {}]
                ELSE cur
      /\ UNCHANGED <<now, next, writes, rd>>
  BY DEF WriteWord
<1>2. /\ words \in Words /\ next \in Words /\ pend \subseteq {"sec", "nsec", "frozen"}
      /\ cur \in [done : Setting, inflight : SUBSET Setting]
  BY DEF Inv, TypeOK
<1>3. PICK s \in cur.inflight : cur.inflight = {s} /\ next = WordsOf(s)
  BY <1>1 DEF Inv, StructInv
<1>4. cur' = IF pend = {w} THEN [done |-> s, inflight |-> {}] ELSE cur
  BY <1>1, <1>3
<1>5. /\ words'.sec = IF w = "sec" THEN next.sec ELSE words.sec
      /\ words'.nsec = IF w = "nsec" THEN next.nsec ELSE words.nsec
      /\ words'.frozen = IF w = "frozen" THEN next.frozen ELSE words.frozen
      /\ words' \in Words
  BY <1>1, <1>2 DEF Words
<1>6. s \in Setting /\ s \in Settings
  BY <1>2, <1>3, SettingsTyped DEF Inv, StructInv
<1>7. TypeOK'
  <2>1. cur' \in [done : Setting, inflight : SUBSET Setting]
    BY <1>2, <1>4, <1>6
  <2> QED BY <1>1, <1>2, <1>5, <2>1 DEF Inv, TypeOK
<1>8. StructInv'
  <2>1. CASE pend = {w}
    <3>1. cur'.done = s /\ cur'.inflight = {} /\ pend' = {}
      BY <1>1, <1>4, <2>1
    <3>2. words'.sec = next.sec /\ words'.nsec = next.nsec /\ words'.frozen = next.frozen
      BY <1>1, <1>5, <2>1 DEF Inv, StructInv
    <3> QED BY <1>1, <1>3, <1>6, <3>1, <3>2 DEF Inv, StructInv
  <2>2. CASE pend # {w}
    <3>1. cur' = cur /\ pend' # {} /\ pend # {}
      BY <1>1, <1>4, <2>2
    <3> QED BY <1>1, <1>3, <1>5, <3>1 DEF Inv, StructInv
  <2> QED BY <2>1, <2>2
<1>9. Current' \subseteq Current
  BY <1>3, <1>4 DEF Current
<1>10. ASSUME NEW r \in Readers PROVE ReadInv(rd[r], Current, now)'
  <2>1. ReadInv(rd[r], Current, now)
    BY DEF Inv
  <2>2. ReadInv(rd[r], Current', now)
    BY <1>9, <2>1 DEF ReadInv
  <2> QED BY <1>1, <2>2
<1> QED
  BY <1>7, <1>8, <1>10 DEF Inv

(***************************************************************************)
(* The steps of the stubs.                                                 *)
(***************************************************************************)
\* One stub takes a step.
LEMMA ReaderStep ==
    ASSUME Inv, NEW r \in Readers, NEW l \in Reader, rd' = [rd EXCEPT ![r] = l],
           UNCHANGED <<now, words, next, pend, cur, writes>>, ReadInv(l, Current, now)
    PROVE  Inv'
<1>1. TypeOK'
  BY DEF Inv, TypeOK
<1>2. StructInv'
  BY DEF Inv, StructInv
<1>3. \A u \in Readers : rd'[u] = IF u = r THEN l ELSE rd[u]
  BY DEF Inv, TypeOK
<1>4. ASSUME NEW u \in Readers PROVE ReadInv(rd[u], Current, now)'
  <2>1. Current' = Current /\ now' = now
    BY DEF Current
  <2>2. ReadInv(rd'[u], Current, now)
    BY <1>3 DEF Inv
  <2> QED BY <2>1, <2>2
<1> QED
  BY <1>1, <1>2, <1>4 DEF Inv

\* What the invariant says of one stub.
LEMMA ReaderFacts ==
    ASSUME Inv, NEW r \in Readers
    PROVE  /\ rd \in [Readers -> Reader] /\ rd[r] \in Reader /\ ReadInv(rd[r], Current, now)
           /\ words \in Words /\ now \in Int /\ Current \subseteq Settings
           /\ \E s \in Current : words.sec = WordsOf(s).sec
           /\ \E s \in Current : words.nsec = WordsOf(s).nsec
           /\ \E s \in Current : words.frozen = s.frozen
<1>1. /\ rd \in [Readers -> Reader] /\ rd[r] \in Reader /\ ReadInv(rd[r], Current, now)
      /\ words \in Words /\ now \in Int /\ Current \subseteq Settings
  BY DEF Inv, TypeOK, StructInv, Current
<1> QED
  BY <1>1, WordsCurrent DEF Inv

\* The program calls a hooked function.
LEMMA CallStep ==
    ASSUME Inv, NEW r \in Readers, NEW fn \in Fns, Call(r, fn)
    PROVE  Inv'
<1> DEFINE l == [IdleReader EXCEPT !.pc = "mask", !.fn = fn, !.t0 = now, !.seen = Current]
<1>1. fn \in {"clock_gettime", "gettimeofday", "time"}
  BY CallAssumption
<1>2. now \in Int /\ Current \subseteq Settings /\ Current \subseteq Setting
  BY ReaderFacts, SettingsTyped
<1>3. rd' = [rd EXCEPT ![r] = l] /\ UNCHANGED <<now, words, next, pend, cur, writes>>
  BY DEF Call, Current
<1> DEFINE c == Current
<1>4. l \in Reader /\ l.pc = "mask" /\ l.seen = Current /\ l.t0 = now
  <2> DEFINE i == IdleReader
  <2>1. i \in Reader
    BY DEF IdleReader, Reader, NoResult, Result
  <2>2. c \in SUBSET Setting
    BY <1>2
  <2>3. l = [i EXCEPT !.pc = "mask", !.fn = fn, !.t0 = now, !.seen = c]
    OBVIOUS
  <2> HIDE DEF c, i, l
  <2>4. l \in Reader
    BY <1>1, <1>2, <2>1, <2>2, <2>3 DEF Reader
  <2>5. l.pc = "mask" /\ l.seen = c /\ l.t0 = now
    BY <2>1, <2>3 DEF Reader
  <2> QED BY <2>4, <2>5 DEF c
<1> HIDE DEF l
<1>5. ReadInv(l, Current, now)
  BY <1>2, <1>4 DEF ReadInv
<1> QED
  BY <1>3, <1>4, <1>5, ReaderStep

\* The stub branches on the mask.
LEMMA TestMaskStep ==
    ASSUME Inv, NEW r \in Readers, TestMask(r)
    PROVE  Inv'
<1> DEFINE l == [rd[r] EXCEPT !.frozen = words.frozen, !.pc = IF words.frozen THEN "sec" ELSE "syscall"]
<1>1. /\ rd[r] \in Reader /\ rd \in [Readers -> Reader] /\ ReadInv(rd[r], Current, now)
      /\ rd[r].pc = "mask" /\ words \in Words
  BY ReaderFacts DEF TestMask
<1>2. rd' = [rd EXCEPT ![r] = l] /\ UNCHANGED <<now, words, next, pend, cur, writes>>
  BY <1>1 DEF TestMask
<1>3. words.frozen \in BOOLEAN
  BY <1>1 DEF Words
<1>4. /\ l \in Reader /\ l.pc = IF words.frozen THEN "sec" ELSE "syscall"
      /\ l.frozen = words.frozen /\ l.seen = rd[r].seen /\ l.t0 = rd[r].t0
  BY <1>1, <1>3 DEF Reader
<1> HIDE DEF l
<1>5. \E s \in l.seen : l.frozen = s.frozen
  <2>1. PICK s \in Current : words.frozen = s.frozen
    BY ReaderFacts
  <2>2. s \in l.seen
    BY <1>1, <1>4 DEF ReadInv, InStub
  <2> QED BY <1>4, <2>1, <2>2
<1>6. ReadInv(l, Current, now)
  BY <1>1, <1>4, <1>5 DEF ReadInv, InStub
<1> QED
  BY <1>2, <1>4, <1>6, ReaderStep

\* The real syscall.
LEMMA RealSyscallStep ==
    ASSUME Inv, NEW r \in Readers, RealSyscall(r)
    PROVE  Inv'
<1> DEFINE l == [rd[r] EXCEPT !.real = now, !.pc = "sec"]
<1>1. /\ rd[r] \in Reader /\ rd \in [Readers -> Reader] /\ ReadInv(rd[r], Current, now)
      /\ rd[r].pc = "syscall" /\ now \in Int
  BY ReaderFacts DEF RealSyscall
<1>2. rd' = [rd EXCEPT ![r] = l] /\ UNCHANGED <<now, words, next, pend, cur, writes>>
  BY <1>1 DEF RealSyscall
<1>3. /\ l \in Reader /\ l.pc = "sec" /\ l.real = now
      /\ l.frozen = rd[r].frozen /\ l.seen = rd[r].seen /\ l.t0 = rd[r].t0
  BY <1>1 DEF Reader
<1> HIDE DEF l
<1>4. ReadInv(l, Current, now)
  BY <1>1, <1>3 DEF ReadInv, InStub
<1> QED
  BY <1>2, <1>3, <1>4, ReaderStep

\* The first load.
LEMMA LoadSecStep ==
    ASSUME Inv, NEW r \in Readers, LoadSec(r)
    PROVE  Inv'
<1> DEFINE l == [rd[r] EXCEPT !.sec = words.sec, !.pc = "nsec"]
<1>1. /\ rd[r] \in Reader /\ rd \in [Readers -> Reader] /\ ReadInv(rd[r], Current, now)
      /\ rd[r].pc = "sec" /\ words \in Words
  BY ReaderFacts DEF LoadSec
<1>2. rd' = [rd EXCEPT ![r] = l] /\ UNCHANGED <<now, words, next, pend, cur, writes>>
  BY <1>1 DEF LoadSec
<1>3. /\ l \in Reader /\ l.pc = "nsec" /\ l.sec = words.sec /\ l.real = rd[r].real
      /\ l.frozen = rd[r].frozen /\ l.seen = rd[r].seen /\ l.t0 = rd[r].t0
  BY <1>1 DEF Reader, Words
<1> HIDE DEF l
<1>4. \E s \in l.seen : l.sec = WordsOf(s).sec
  <2>1. PICK s \in Current : words.sec = WordsOf(s).sec
    BY ReaderFacts
  <2>2. s \in l.seen
    BY <1>1, <1>3 DEF ReadInv, InStub
  <2> QED BY <1>3, <2>1, <2>2
<1>5. ReadInv(l, Current, now)
  BY <1>1, <1>3, <1>4 DEF ReadInv, InStub
<1> QED
  BY <1>2, <1>3, <1>5, ReaderStep

\* The second load and the result.
LEMMA LoadNsecStep ==
    ASSUME Inv, NEW r \in Readers, LoadNsec(r)
    PROVE  Inv'
<1> DEFINE a == Answer(rd[r], rd[r].sec, words.nsec)
           l == [rd[r] EXCEPT !.pc = "done", !.t1 = now, !.result = a]
<1>1. /\ rd[r] \in Reader /\ rd \in [Readers -> Reader] /\ ReadInv(rd[r], Current, now)
      /\ rd[r].pc = "nsec" /\ words \in Words /\ now \in Int /\ Current \subseteq Settings
  BY ReaderFacts DEF LoadNsec
<1>2. rd' = [rd EXCEPT ![r] = l] /\ UNCHANGED <<now, words, next, pend, cur, writes>>
  BY <1>1 DEF LoadNsec, Answer
<1>3. rd[r].sec \in Int /\ words.nsec \in 1 - NsPerSec .. NsPerSec - 1
  BY <1>1 DEF Reader, Words
<1>4. a \in Result
  BY <1>1, <1>3, AnswerTyped
<1>5. PICK s1 \in rd[r].seen : rd[r].sec = WordsOf(s1).sec
  BY <1>1 DEF ReadInv
<1>6. PICK s2 \in rd[r].seen : words.nsec = WordsOf(s2).nsec
  <2>1. PICK s \in Current : words.nsec = WordsOf(s).nsec
    BY ReaderFacts
  <2>2. s \in rd[r].seen
    BY <1>1 DEF ReadInv, InStub
  <2> QED BY <2>1, <2>2
<1>7. a = Answer(rd[r], WordsOf(s1).sec, WordsOf(s2).nsec)
  BY <1>5, <1>6
<1> HIDE DEF a
<1>8. /\ l \in Reader /\ l.pc = "done" /\ l.result = a /\ l.t1 = now /\ l.t0 = rd[r].t0 /\ l.real = rd[r].real
      /\ l.frozen = rd[r].frozen /\ l.seen = rd[r].seen /\ l.fn = rd[r].fn
  BY <1>1, <1>4 DEF Reader
<1> HIDE DEF l
<1>9. l.result = Answer(l, WordsOf(s1).sec, WordsOf(s2).nsec)
  BY <1>7, <1>8 DEF Answer
<1>10. ReadInv(l, Current, now)
  BY <1>1, <1>5, <1>6, <1>8, <1>9 DEF ReadInv, InStub
<1> QED
  BY <1>2, <1>8, <1>10, ReaderStep

\* The call is over.
LEMMA ReturnStep ==
    ASSUME Inv, NEW r \in Readers, Return(r)
    PROVE  Inv'
<1>1. rd' = [rd EXCEPT ![r] = IdleReader] /\ UNCHANGED <<now, words, next, pend, cur, writes>>
  BY DEF Return
<1>2. IdleReader \in Reader /\ IdleReader.pc = "idle"
  BY DEF IdleReader, Reader, NoResult, Result
<1>3. ReadInv(IdleReader, Current, now)
  BY <1>2 DEF ReadInv, InStub
<1> QED
  BY <1>1, <1>2, <1>3, ReaderStep

\* Every step keeps the invariant.
LEMMA NextStep ==
    ASSUME Inv, [Next]_vars
    PROVE  Inv'
<1>1. CASE UNCHANGED vars
  <2>1. Current' = Current
    BY <1>1 DEF vars, Current
  <2>2. TypeOK' /\ StructInv'
    BY <1>1 DEF vars, Inv, TypeOK, StructInv
  <2>3. \A r \in Readers : ReadInv(rd[r], Current, now)'
    BY <1>1, <2>1 DEF vars, Inv
  <2> QED BY <2>2, <2>3 DEF Inv
<1> QED
  BY <1>1, TickStep, StartWriteStep, WriteWordStep, CallStep, TestMaskStep, RealSyscallStep,
     LoadSecStep, LoadNsecStep, ReturnStep DEF Next

\* The invariant holds in every reachable state.
LEMMA Invariance == Spec => []Inv
BY InitInv, NextStep, PTL DEF Spec

(***************************************************************************)
(* The theorems.                                                           *)
(***************************************************************************)
\* Page, writer and stubs keep their types (no assumption on the targets).
THEOREM TypeCorrect == Spec => []TypeOK
<1>1. Inv => TypeOK
  BY DEF Inv
<1> QED
  BY <1>1, Invariance, PTL

\* A setting promises the real time plus its offset, or its target.
LEMMA PromisedOffset ==
    ASSUME NEW s \in Settings, NEW t \in Int
    PROVE  Promised(s, t) = (IF s.frozen THEN Offset(s) ELSE t + Offset(s)) /\ Promised(s, t) \in Int
<1>1. s.target \in Int /\ s.base \in Int /\ s.frozen \in BOOLEAN
  BY SettingsTyped DEF Setting
<1> QED
  BY <1>1 DEF Promised, Offset

\* Both words of one setting, in advancing mode.
LEMMA ExactAdvancing ==
    ASSUME InRange, NEW s \in Settings, ~s.frozen, NEW fn \in {"clock_gettime", "gettimeofday", "time"},
           NEW real \in Int
    PROVE  LET a == AddOffset(fn, real, WordsOf(s).sec, WordsOf(s).nsec)
               p == Promised(s, real)
           IN  /\ fn = "clock_gettime" => a.sec * NsPerSec + a.frac = p /\ a.frac \in 0 .. NsPerSec - 1
               /\ fn = "gettimeofday" =>
                      /\ (a.sec * NsPerSec + a.frac * NsPerUsec) - p \in -2 * (NsPerUsec - 1) .. NsPerUsec - 1
                      /\ a.frac \in 0 .. UsecPerSec - 1
               /\ fn = "time" => a.sec = p \div NsPerSec
<1> DEFINE w == WordsOf(s).sec
           n == WordsOf(s).nsec
           d == w * NsPerSec + n
           p == Promised(s, real)
<1>1. w \in Int /\ n \in 1 - NsPerSec .. NsPerSec - 1
  BY WordsNameOffset DEF Words
<1>2. p = real + d
  BY WordsNameOffset, PromisedOffset
<1> HIDE DEF w, n, p
<1>3. CASE fn = "clock_gettime"
  BY <1>1, <1>2, <1>3, AddedClock DEF w, n, p
<1>4. CASE fn = "gettimeofday"
  BY <1>1, <1>2, <1>4, AddedUsec DEF w, n, p
<1>5. CASE fn = "time"
  BY <1>1, <1>2, <1>5, AddedTime DEF w, n, p
<1> QED
  BY <1>3, <1>4, <1>5

\* Both words of one setting, in freeze mode.
LEMMA ExactFrozen ==
    ASSUME InRange, NEW s \in Settings, s.frozen, NEW fn \in {"clock_gettime", "gettimeofday", "time"},
           NEW real \in Int
    PROVE  LET a == Stored(fn, WordsOf(s).sec, WordsOf(s).nsec)
               p == Promised(s, real)
           IN  /\ fn = "clock_gettime" => a.sec * NsPerSec + a.frac = p /\ a.frac \in 0 .. NsPerSec - 1
               /\ fn = "gettimeofday" =>
                      /\ (a.sec * NsPerSec + a.frac * NsPerUsec) - p \in -2 * (NsPerUsec - 1) .. NsPerUsec - 1
                      /\ a.frac \in 0 .. UsecPerSec - 1
               /\ fn = "time" => a.sec = p \div NsPerSec
<1> DEFINE w == WordsOf(s).sec
           n == WordsOf(s).nsec
           p == Promised(s, real)
<1>1. w \in Int /\ n \in 1 - NsPerSec .. NsPerSec - 1 /\ n >= 0 /\ w * NsPerSec + n = p /\ p \in Int
  BY WordsNameOffset, PromisedOffset DEF Words
<1>2. NsPerSec \in Nat \ {0} /\ NsPerUsec \in Nat \ {0}
  BY UnitAssumption
<1> HIDE DEF w, n, p
<1>3. n \in 0 .. NsPerSec - 1
  BY <1>1, <1>2
<1>4. CASE fn = "clock_gettime"
  <2>1. Stored(fn, w, n) = [sec |-> w, frac |-> n]
    BY <1>4 DEF Stored
  <2> QED BY <1>1, <1>3, <1>4, <2>1 DEF w, n, p
<1>5. CASE fn = "gettimeofday"
  <2> DEFINE f == TruncDiv(n, NsPerUsec)
             x == Rest(n, NsPerUsec)
  <2>1. f \in 0 .. UsecPerSec - 1 /\ x \in 1 - NsPerUsec .. NsPerUsec - 1 /\ x >= 0 /\ n = f * NsPerUsec + x
    BY <1>1, UsecOf
  <2>2. Stored(fn, w, n) = [sec |-> w, frac |-> f]
    BY <1>5 DEF Stored
  <2> HIDE DEF f, x
  <2>3. (w * NsPerSec + f * NsPerUsec) - p = -x
    BY <1>1, <1>2, <2>1, UsecFacts
  <2>4. -x \in -2 * (NsPerUsec - 1) .. NsPerUsec - 1
    BY <1>2, <2>1
  <2>5. (w * NsPerSec + f * NsPerUsec) - p \in -2 * (NsPerUsec - 1) .. NsPerUsec - 1
    BY ONLY <2>3, <2>4
  <2> QED BY <1>5, <2>1, <2>2, <2>5 DEF w, n, p
<1>6. CASE fn = "time"
  <2>1. Stored(fn, w, n) = [sec |-> w, frac |-> 0]
    BY <1>6 DEF Stored
  <2>2. p \div NsPerSec = w
    BY <1>1, <1>2, <1>3, DivUnique
  <2> QED BY <1>6, <2>1, <2>2 DEF w, n, p
<1> QED
  BY <1>4, <1>5, <1>6

\* A call that no write overlaps has loaded both words of one setting.
LEMMA StableStep ==
    ASSUME InRange, Inv
    PROVE  StableExact
<1> SUFFICES ASSUME NEW r \in Readers, Done(r), ~Overlapped(r), NEW s \in rd[r].seen
             PROVE  LET p == Promised(s, rd[r].real)
                    IN  CASE rd[r].fn = "clock_gettime" ->
                                 Instant(r) = p /\ rd[r].result.frac \in 0 .. NsPerSec - 1
                          [] rd[r].fn = "gettimeofday" ->
                                 /\ Instant(r) - p \in -2 * (NsPerUsec - 1) .. NsPerUsec - 1
                                 /\ rd[r].result.frac \in 0 .. UsecPerSec - 1
                          [] OTHER -> rd[r].result.sec = p \div NsPerSec
  BY DEF StableExact
<1> DEFINE l == rd[r]
           fn == l.fn
           real == l.real
           a == l.result
           p == Promised(s, real)
<1>1. l \in Reader /\ ReadInv(l, Current, now) /\ l.pc = "done"
  BY ReaderFacts DEF Done
<1>2. \A u \in l.seen : u = s
  BY DEF Overlapped
<1>3. s \in Settings /\ l.frozen = s.frozen /\ a = Answer(l, WordsOf(s).sec, WordsOf(s).nsec)
  BY <1>1, <1>2 DEF ReadInv
<1>4. fn \in {"clock_gettime", "gettimeofday", "time"} /\ real \in Int
  BY <1>1 DEF Reader
<1>5. Instant(r) = a.sec * NsPerSec + a.frac * Unit(fn)
  BY DEF Instant
<1>6. a.frac \in Int
  BY <1>1 DEF Reader, Result
<1> HIDE DEF l, fn, real, a, p
<1>7. /\ fn = "clock_gettime" => a.sec * NsPerSec + a.frac = p /\ a.frac \in 0 .. NsPerSec - 1
      /\ fn = "gettimeofday" =>
             /\ (a.sec * NsPerSec + a.frac * NsPerUsec) - p \in -2 * (NsPerUsec - 1) .. NsPerUsec - 1
             /\ a.frac \in 0 .. UsecPerSec - 1
      /\ fn = "time" => a.sec = p \div NsPerSec
  <2>1. CASE s.frozen
    <3>1. a = Stored(fn, WordsOf(s).sec, WordsOf(s).nsec)
      BY <1>3, <2>1 DEF Answer, fn
    <3> QED BY <1>3, <1>4, <2>1, <3>1, ExactFrozen DEF p
  <2>2. CASE ~s.frozen
    <3>1. a = AddOffset(fn, real, WordsOf(s).sec, WordsOf(s).nsec)
      BY <1>3, <2>2 DEF Answer, fn, real
    <3> QED BY <1>3, <1>4, <2>2, <3>1, ExactAdvancing DEF p
  <2> QED BY <2>1, <2>2
<1>8. CASE fn = "clock_gettime"
  <2>1. a.frac * Unit(fn) = a.frac
    BY <1>6, <1>8 DEF Unit
  <2>2. Instant(r) = p
    BY <1>5, <1>7, <1>8, <2>1
  <2> QED BY <1>7, <1>8, <2>2 DEF fn, real, a, p, l
<1>9. CASE fn = "gettimeofday"
  <2>1. Unit(fn) = NsPerUsec
    BY <1>9 DEF Unit
  <2>2. Instant(r) - p \in -2 * (NsPerUsec - 1) .. NsPerUsec - 1
    BY ONLY <1>5, <1>7, <1>9, <2>1
  <2> QED BY <1>7, <1>9, <2>2 DEF fn, real, a, p, l
<1>10. CASE fn = "time"
  BY <1>7, <1>10 DEF fn, real, a, p, l
<1> QED
  BY <1>4, <1>8, <1>9, <1>10

\* A call that no write overlaps is exact, for every length of a second and of
\* a microsecond, every set of targets that a time.Duration can hold, any
\* number of threads and any order of the loads and the stored words.
THEOREM StableExactHolds ==
    ASSUME InRange
    PROVE  Spec => []StableExact
<1>1. Inv => StableExact
  BY StableStep
<1> QED
  BY <1>1, Invariance, PTL

\* The words of two advancing settings name an offset less than a second
\* below one of the two and less than a second above one of the two.
LEMMA TornOffset ==
    ASSUME InRange, NEW s1 \in Settings, NEW s2 \in Settings, ~s1.frozen, ~s2.frozen
    PROVE  LET d == WordsOf(s1).sec * NsPerSec + WordsOf(s2).nsec
           IN  /\ d \in Int
               /\ d > Offset(s1) - NsPerSec \/ d > Offset(s2) - NsPerSec
               /\ d < Offset(s1) + NsPerSec \/ d < Offset(s2) + NsPerSec
<1> DEFINE w1 == WordsOf(s1).sec
           n1 == WordsOf(s1).nsec
           w2 == WordsOf(s2).sec
           n2 == WordsOf(s2).nsec
           d1 == Offset(s1)
           d2 == Offset(s2)
<1>1. NsPerSec \in Nat \ {0}
  BY UnitAssumption
<1>2. /\ w1 \in Int /\ n1 \in 1 - NsPerSec .. NsPerSec - 1 /\ d1 \in Int /\ w1 * NsPerSec + n1 = d1
      /\ w1 > 0 => n1 >= 0
      /\ w1 < 0 => n1 <= 0
  BY WordsNameOffset DEF Words
<1>3. /\ w2 \in Int /\ n2 \in 1 - NsPerSec .. NsPerSec - 1 /\ d2 \in Int /\ w2 * NsPerSec + n2 = d2
      /\ w2 > 0 => n2 >= 0
      /\ w2 < 0 => n2 <= 0
  BY WordsNameOffset DEF Words
<1> HIDE DEF w1, n1, w2, n2, d1, d2
<1> DEFINE d == w1 * NsPerSec + n2
<1>4. w1 * NsPerSec \in Int /\ d \in Int
  BY <1>1, <1>2, <1>3
<1>5. CASE w1 >= w2
  <2>1. (w1 - w2) * NsPerSec >= 0
    BY <1>1, <1>2, <1>3, <1>5
  <2>2. d >= d2
    BY <1>1, <1>2, <1>3, <2>1
  <2>3. d > d2 - NsPerSec
    BY <1>1, <1>3, <1>4, <2>2
  <2>4. CASE w1 = w2
    <3>1. d = d2
      BY <1>1, <1>2, <1>3, <2>4
    <3> QED BY <1>1, <1>3, <2>3, <3>1 DEF w1, n2, d1, d2
  <2>5. CASE w1 > w2
    <3>1. n2 < n1 + NsPerSec
      BY <1>1, <1>2, <1>3, <2>5
    <3>2. d < d1 + NsPerSec
      BY <1>1, <1>2, <1>3, <1>4, <3>1
    <3> QED BY <1>4, <2>3, <3>2 DEF w1, n2, d1, d2
  <2> QED BY <1>2, <1>3, <1>5, <2>4, <2>5
<1>6. CASE w1 < w2
  <2>1. (w2 - w1) * NsPerSec >= 0
    BY <1>1, <1>2, <1>3, <1>6
  <2>2. d <= d2
    BY <1>1, <1>2, <1>3, <2>1
  <2>3. d < d2 + NsPerSec
    BY <1>1, <1>3, <1>4, <2>2
  <2>4. n2 > n1 - NsPerSec
    BY <1>1, <1>2, <1>3, <1>6
  <2>5. d > d1 - NsPerSec
    BY <1>1, <1>2, <1>3, <1>4, <2>4
  <2> QED BY <1>4, <2>3, <2>5 DEF w1, n2, d1, d2
<1> QED
  BY <1>2, <1>3, <1>5, <1>6

\* A torn read in advancing mode names the real time plus such an offset.
LEMMA TornStep ==
    ASSUME InRange, Inv
    PROVE  TornWithinASecond
<1> SUFFICES ASSUME NEW r \in Readers, Done(r), rd[r].fn = "clock_gettime", \A s \in rd[r].seen : ~s.frozen
             PROVE  /\ rd[r].result.frac \in 0 .. NsPerSec - 1
                    /\ \E s \in rd[r].seen : Instant(r) > Promised(s, rd[r].t0) - NsPerSec
                    /\ \E s \in rd[r].seen : Instant(r) < Promised(s, rd[r].t1) + NsPerSec
  BY DEF TornWithinASecond
<1> DEFINE l == rd[r]
           a == l.result
           t == Instant(r)
<1>1. l \in Reader /\ ReadInv(l, Current, now) /\ l.pc = "done" /\ l.fn = "clock_gettime"
  BY ReaderFacts DEF Done
<1>2. l.seen \subseteq Settings /\ \A s \in l.seen : ~s.frozen
  BY <1>1 DEF ReadInv
<1>3. l.t0 <= l.real /\ l.real <= l.t1 /\ ~l.frozen
  BY <1>1, <1>2 DEF ReadInv
<1>4. PICK s1, s2 \in l.seen : a = Answer(l, WordsOf(s1).sec, WordsOf(s2).nsec)
  BY <1>1 DEF ReadInv
<1>5. s1 \in Settings /\ s2 \in Settings /\ ~s1.frozen /\ ~s2.frozen
  BY <1>2, <1>4
<1>6. l.real \in Int /\ l.t0 \in Int /\ l.t1 \in Int /\ NsPerSec \in Nat \ {0}
  BY <1>1, UnitAssumption DEF Reader
<1>7. t = a.sec * NsPerSec + a.frac
  <2>1. a.frac \in Int
    BY <1>1 DEF Reader, Result
  <2>2. Unit(rd[r].fn) = 1
    BY <1>1 DEF Unit
  <2>3. rd[r].result.frac * 1 = rd[r].result.frac
    BY <2>1
  <2> QED BY <2>2, <2>3 DEF Instant
<1> DEFINE d == WordsOf(s1).sec * NsPerSec + WordsOf(s2).nsec
<1> HIDE DEF l, a, t
<1>8. a = AddOffset("clock_gettime", l.real, WordsOf(s1).sec, WordsOf(s2).nsec)
  BY <1>1, <1>3, <1>4 DEF Answer
<1>9. a.frac \in 0 .. NsPerSec - 1 /\ a.sec * NsPerSec + a.frac = l.real + d
  <2>1. WordsOf(s1).sec \in Int /\ WordsOf(s2).nsec \in 1 - NsPerSec .. NsPerSec - 1
    BY <1>5, WordsNameOffset DEF Words
  <2> QED BY <1>6, <1>8, <2>1, AddedClock
<1>10. /\ d \in Int
       /\ d > Offset(s1) - NsPerSec \/ d > Offset(s2) - NsPerSec
       /\ d < Offset(s1) + NsPerSec \/ d < Offset(s2) + NsPerSec
  BY <1>5, TornOffset
<1> HIDE DEF d
<1>11. t = l.real + d
  BY <1>7, <1>9
<1>12. ASSUME NEW s \in {s1, s2}
       PROVE  /\ Offset(s) \in Int
              /\ Promised(s, l.t0) = l.t0 + Offset(s) /\ Promised(s, l.t1) = l.t1 + Offset(s)
  <2>1. s \in Settings /\ ~s.frozen
    BY <1>5
  <2> QED BY <1>6, <2>1, WordsNameOffset, PromisedOffset
<1>13. \E s \in {s1, s2} : t > Promised(s, l.t0) - NsPerSec
  <2>1. PICK s \in {s1, s2} : d > Offset(s) - NsPerSec
    BY <1>10
  <2>2. t > (l.t0 + Offset(s)) - NsPerSec
    BY <1>3, <1>6, <1>10, <1>11, <1>12, <2>1
  <2> QED BY <1>12, <2>1, <2>2
<1>14. \E s \in {s1, s2} : t < Promised(s, l.t1) + NsPerSec
  <2>1. PICK s \in {s1, s2} : d < Offset(s) + NsPerSec
    BY <1>10
  <2>2. t < (l.t1 + Offset(s)) + NsPerSec
    BY <1>3, <1>6, <1>10, <1>11, <1>12, <2>1
  <2> QED BY <1>12, <2>1, <2>2
<1> QED
  BY <1>4, <1>9, <1>13, <1>14 DEF l, a, t

\* However the loads of a clock_gettime fall among the words of any number of
\* writes, its result is normalised and less than a second off.
THEOREM TornWithinASecondHolds ==
    ASSUME InRange
    PROVE  Spec => []TornWithinASecond
<1>1. Inv => TornWithinASecond
  BY TornStep
<1> QED
  BY <1>1, Invariance, PTL
=============================================================================
