--------------------------- MODULE InjectionProofs ---------------------------
(***************************************************************************)
(* Theorems about Injection.tla: the page that findNearbyGap finds, and    *)
(* what an injection may do to the target's pages and to the entries of    *)
(* its vDSO.                                                               *)
(***************************************************************************)
EXTENDS Injection, TLAPS

(***************************************************************************)
(* Addresses and pages.                                                    *)
(***************************************************************************)
LEMMA Sizes ==
    /\ PageSize \in Nat \ {0} /\ Window \in Nat \ {0} /\ JmpLen \in Nat \ {0} /\ NPages \in Nat \ {0}
    /\ Top \in Nat /\ Page \subseteq Int /\ Window % PageSize = 0
<1>1. /\ PageSize \in Nat \ {0} /\ Window \in Nat \ {0} /\ JmpLen \in Nat \ {0} /\ NPages \in Nat \ {0}
      /\ Window % PageSize = 0
  BY SizeAssumption
<1> QED
  BY <1>1 DEF Top, Page

\* Pages are in the order of their addresses.
LEMMA PageOrder ==
    ASSUME NEW a \in Int, NEW b \in Int
    PROVE  /\ a * PageSize \in Int /\ b * PageSize \in Int
           /\ a <= b => a * PageSize <= b * PageSize
           /\ a < b => a * PageSize + PageSize <= b * PageSize
           /\ a * PageSize < b * PageSize => a < b
           /\ a * PageSize + PageSize <= b * PageSize => a < b
           /\ a * PageSize < b * PageSize + PageSize => a <= b
<1>1. PageSize \in Nat \ {0}
  BY Sizes
<1> DEFINE x == a * PageSize
           y == b * PageSize
<1>2. x \in Int /\ y \in Int
  BY <1>1
<1>3. a <= b => x <= y
  <2> SUFFICES ASSUME a <= b PROVE x <= y
    OBVIOUS
  <2>1. (b - a) * PageSize >= 0
    BY <1>1
  <2> QED BY <1>1, <2>1
<1>4. a < b => x + PageSize <= y
  <2> SUFFICES ASSUME a < b PROVE x + PageSize <= y
    OBVIOUS
  <2>1. (b - a - 1) * PageSize >= 0
    BY <1>1
  <2> QED BY <1>1, <2>1
<1>5. b < a => y + PageSize <= x
  <2> SUFFICES ASSUME b < a PROVE y + PageSize <= x
    OBVIOUS
  <2>1. (a - b - 1) * PageSize >= 0
    BY <1>1
  <2> QED BY <1>1, <2>1
<1>6. a = b => x = y
  OBVIOUS
<1> HIDE DEF x, y
<1>7. /\ x < y => a < b
      /\ x + PageSize <= y => a < b
      /\ x < y + PageSize => a <= b
  BY <1>1, <1>2, <1>5, <1>6
<1> QED
  BY <1>2, <1>3, <1>4, <1>7 DEF x, y

\* Division by a positive number.
LEMMA DivFacts ==
    ASSUME NEW a \in Int, NEW b \in Nat \ {0}
    PROVE  /\ a \div b \in Int /\ a % b \in 0 .. b - 1
           /\ a = b * (a \div b) + (a % b)
<1>1. a \div b \in Int /\ a % b \in Int
  OBVIOUS
<1>2. 0 <= a % b /\ a % b < b
  OBVIOUS
<1>3. a = b * (a \div b) + (a % b)
  OBVIOUS
<1> QED
  BY <1>1, <1>2, <1>3

\* The page of the first address of a page.
LEMMA PageOfStart ==
    ASSUME NEW k \in Int
    PROVE  PageOf(k * PageSize) = k /\ (k * PageSize) % PageSize = 0
<1> DEFINE a == k * PageSize
           q == a \div PageSize
           r == a % PageSize
<1>1. PageSize \in Nat \ {0} /\ a \in Int
  BY Sizes
<1>2. q \in Int /\ r \in 0 .. PageSize - 1 /\ a = PageSize * q + r
  BY <1>1, DivFacts
<1>3. PageOf(a) = q
  BY DEF PageOf
<1> HIDE DEF q, r
<1>4. q * PageSize <= a /\ a < q * PageSize + PageSize
  BY <1>1, <1>2
<1>5. k = q
  <2>1. k <= q
    BY <1>2, <1>4, PageOrder
  <2>2. ~(k < q)
    <3> SUFFICES ASSUME k < q PROVE FALSE
      OBVIOUS
    <3>1. k * PageSize + PageSize <= q * PageSize
      BY <1>2, PageOrder
    <3> QED BY <1>1, <1>2, <1>4, <3>1
  <2> QED BY <1>2, <2>1, <2>2
<1>6. r = 0
  BY <1>1, <1>2, <1>5
<1> QED
  BY <1>3, <1>5, <1>6 DEF r

\* AlignUp gives the first page that starts at a or above.
LEMMA AlignUpFacts ==
    ASSUME NEW a \in Int
    PROVE  \E k \in Int : /\ AlignUp(a) = k * PageSize
                          /\ a <= k * PageSize /\ k * PageSize < a + PageSize
                          /\ \A q \in Int : a <= q * PageSize => k <= q
<1> DEFINE b == a + PageSize - 1
           k == b \div PageSize
           r == b % PageSize
<1>1. PageSize \in Nat \ {0} /\ b \in Int
  BY Sizes
<1>2. k \in Int /\ r \in 0 .. PageSize - 1 /\ b = PageSize * k + r
  BY <1>1, DivFacts
<1>3. AlignUp(a) = k * PageSize
  BY DEF AlignUp
<1> HIDE DEF k, r
<1>4. a <= k * PageSize /\ k * PageSize < a + PageSize
  BY <1>1, <1>2
<1>5. ASSUME NEW q \in Int, a <= q * PageSize PROVE k <= q
  <2>1. k * PageSize < q * PageSize + PageSize
    BY <1>1, <1>2, <1>4, <1>5
  <2> QED BY <1>2, <2>1, PageOrder
<1> QED
  BY <1>2, <1>3, <1>4, <1>5

\* The window of a vDSO: neither end is clamped at the top, the lower end may be
\* at the first page.
LEMMA NearFacts ==
    ASSUME layout \in Layouts
    PROVE  /\ Near \in Int /\ Near >= 0 /\ Near < Top /\ Near + Window < Top
           /\ Hi(Near) = Near + Window
           /\ Lo(Near) \in 0 .. Top /\ Lo(Near) >= 1 /\ Lo(Near) >= Near - Window
           /\ \A a \in Int : a >= PageSize /\ a >= Near - Window => a >= Lo(Near)
<1>1. /\ PageSize \in Nat \ {0} /\ Window \in Nat \ {0} /\ NPages \in Nat \ {0} /\ Top \in Nat
  BY Sizes
<1>2. Near \in Int /\ Near >= 0 /\ Near < Top
  <2>1. layout \in [Hook -> Addr]
    BY SizeAssumption
  <2>2. Near \in Addr
    BY <2>1 DEF Near, Hook
  <2> QED BY <1>1, <2>2 DEF Addr
<1>3. Near + Window < Top /\ Near # Window
  BY SpaceAssumption DEF Near
<1> DEFINE n == Near
<1> HIDE DEF n
<1>4. Hi(n) = n + Window
  BY <1>1, <1>2, <1>3 DEF Hi, n
<1>5. PageSize <= Top
  <2>1. 1 * PageSize <= NPages * PageSize
    BY <1>1, PageOrder
  <2> QED BY <1>1, <2>1 DEF Top
<1>6. /\ Lo(n) \in 0 .. Top /\ Lo(n) >= 1 /\ Lo(n) >= n - Window
      /\ \A a \in Int : a >= PageSize /\ a >= n - Window => a >= Lo(n)
  <2>1. CASE Window > n
    BY <1>1, <1>2, <1>5, <2>1 DEF Lo, n
  <2>2. CASE Window < n
    BY <1>1, <1>2, <1>5, <2>2 DEF Lo, n
  <2> QED BY <1>1, <1>2, <1>3, <2>1, <2>2 DEF n
<1> QED
  BY <1>2, <1>3, <1>4, <1>6 DEF n

(***************************************************************************)
(* The inductive invariant.                                                *)
(***************************************************************************)
\* findNearbyGap has found every page of the window below line in use.
ScanInv ==
    inj.pc = "gap" =>
        /\ \/ inj.line = 0 /\ inj.prev = Lo(Near)
           \/ inj.prev = inj.line * PageSize
        /\ \A q \in Page : q < inj.line /\ Start(q) >= Lo(Near) => owner[q] # "free"

\* The page that remoteMmap is called for lies in the window.
GapInv ==
    inj.pc \notin {"rest", "gap"} =>
        \E k \in Page \ {0} : /\ inj.gap = k * PageSize
                              /\ Start(k) >= Near - Window /\ End(k) <= Near + Window

\* What the page holds, before and after the mmap.
MapInv ==
    /\ inj.pc \in {"poke", "noreplace", "fixed"} =>
           /\ owner[PageOf(inj.gap)] # "stubs"
           /\ ~target.threads => owner[PageOf(inj.gap)] = "free"
    /\ inj.pc \in {"restore", "payload", "patch"} => owner[PageOf(inj.gap)] = "stubs"
    /\ inj.pc = "patch" => PageOf(inj.gap) \in written
    /\ ~target.threads => lost = {}

\* The entries are borrowed by remoteMmap only, where they can be given back,
\* and lead to whole payloads.
CallInv ==
    /\ scratch => inj.pc \in {"noreplace", "fixed", "restore", "undo"} \/ target.brittle
    /\ inj.orig => target.brittle
    /\ \A h \in Hook : jump[h] # 0 => PageOf(jump[h]) \in written
    /\ \A q \in written : owner[q] = "stubs"

SafeInv == TypeOK /\ ScanInv /\ GapInv /\ MapInv /\ CallInv

(***************************************************************************)
(* findNearbyGap.                                                          *)
(***************************************************************************)
\* The page found when the candidates are those of this state.
Lowest(k) == k \in Candidates /\ \A q \in Candidates : k <= q

\* The gap that ends the scan may begin at page k, not below line, and no page
\* of the window from line on is lower.
LEMMA GapStartFacts ==
    ASSUME TypeOK, ScanInv, inj.pc = "gap"
    PROVE  \E k \in Int : /\ GapStart = k * PageSize /\ k >= 1 /\ k >= inj.line
                          /\ k * PageSize >= Lo(Near)
                          /\ \A q \in Int : q >= inj.line /\ q * PageSize >= Lo(Near) => k <= q
<1>1. PageSize \in Nat \ {0} /\ Lo(Near) \in Int /\ Lo(Near) >= 1
  BY Sizes, NearFacts DEF TypeOK
<1>2. inj.prev \in Int /\ inj.line \in Int /\ inj.line >= 0
  <2>1. inj.line \in 0 .. NPages /\ inj.prev \in 0 .. Top
    BY DEF TypeOK, Injecting
  <2> QED BY <2>1, Sizes
<1> DEFINE a == Larger(inj.prev, Lo(Near))
<1>3. a \in Int /\ a >= inj.prev /\ a >= Lo(Near) /\ (a = inj.prev \/ a = Lo(Near))
  BY <1>1, <1>2 DEF Larger
<1>4. GapStart = AlignUp(a)
  BY DEF GapStart
<1> HIDE DEF a
<1>5. PICK k \in Int : /\ AlignUp(a) = k * PageSize /\ a <= k * PageSize
                       /\ \A q \in Int : a <= q * PageSize => k <= q
  BY <1>3, AlignUpFacts
<1>6. k * PageSize >= Lo(Near) /\ k * PageSize >= inj.prev /\ k * PageSize \in Int
  BY <1>1, <1>2, <1>3, <1>5, PageOrder
<1>7. k >= 1
  <2>1. 0 * PageSize < k * PageSize
    BY <1>1, <1>6
  <2> QED BY <2>1, PageOrder
<1>8. k >= inj.line
  <2>1. CASE inj.prev = inj.line * PageSize
    <3>1. inj.line * PageSize < k * PageSize + PageSize
      BY <1>1, <1>2, <1>6, <2>1
    <3> QED BY <1>2, <3>1, PageOrder
  <2> QED BY <1>2, <1>7, <2>1 DEF ScanInv
<1>9. ASSUME NEW q \in Int, q >= inj.line, q * PageSize >= Lo(Near) PROVE k <= q
  <2>1. inj.prev = inj.line * PageSize => q * PageSize >= inj.prev
    BY <1>2, <1>9, PageOrder
  <2>2. a <= q * PageSize
    BY <1>1, <1>3, <1>9, <2>1 DEF ScanInv
  <2> QED BY <1>5, <2>2
<1> QED
  BY <1>4, <1>5, <1>6, <1>7, <1>8, <1>9

\* Candidates lie in the window and, while the lines are read, not below line.
LEMMA CandidateFacts ==
    ASSUME TypeOK, ScanInv, inj.pc = "gap", NEW q \in Candidates
    PROVE  /\ q \in Page \ {0} /\ owner[q] = "free" /\ q >= inj.line
           /\ q * PageSize >= Lo(Near) /\ q * PageSize + PageSize <= Near + Window
<1>1. /\ q \in Page \ {0} /\ owner[q] = "free"
      /\ q * PageSize >= Near - Window /\ q * PageSize + PageSize <= Near + Window
  BY DEF Candidates, Start, End
<1>2. q \in Int /\ q >= 1 /\ PageSize \in Nat \ {0}
  BY <1>1, Sizes DEF Page
<1>3. q * PageSize \in Int /\ q * PageSize >= PageSize
  <2>1. 1 * PageSize <= q * PageSize /\ q * PageSize \in Int
    BY <1>2, PageOrder
  <2> QED BY <1>2, <2>1
<1>4. q * PageSize >= Lo(Near)
  BY <1>1, <1>3, NearFacts DEF TypeOK
<1>5. inj.line \in Int
  BY Sizes DEF TypeOK, Injecting
<1>6. q >= inj.line
  BY <1>1, <1>2, <1>4, <1>5 DEF ScanInv, Start
<1> QED
  BY <1>1, <1>4, <1>6

\* A free page that is not below line and fits the window is the one to return.
LEMMA LowestFree ==
    ASSUME TypeOK, ScanInv, inj.pc = "gap", NEW k \in Int, k >= 1, GapStart = k * PageSize,
           k * PageSize >= Lo(Near), k * PageSize + PageSize <= Hi(Near),
           \A q \in Int : q >= inj.line /\ q * PageSize >= Lo(Near) => k <= q,
           k \in Page => owner[k] = "free"
    PROVE  Lowest(k)
<1>1. k \in Page
  <2>1. PageSize \in Nat \ {0} /\ NPages \in Nat \ {0} /\ Top = NPages * PageSize
    BY Sizes DEF Top
  <2>2. k * PageSize + PageSize <= NPages * PageSize
    <3>1. Hi(Near) = Near + Window /\ Near + Window < Top /\ Near \in Int /\ Window \in Int /\ Top \in Int
      BY NearFacts, Sizes DEF TypeOK
    <3>2. k * PageSize \in Int
      BY PageOrder
    <3>3. k * PageSize + PageSize <= Top
      BY <2>1, <3>1, <3>2
    <3> QED BY <2>1, <3>3
  <2>3. k < NPages
    BY <2>1, <2>2, PageOrder
  <2> QED BY <2>1, <2>3 DEF Page
<1>2. k * PageSize >= Near - Window /\ k * PageSize + PageSize <= Near + Window
  BY PageOrder, NearFacts, Sizes DEF TypeOK
<1>3. k \in Candidates
  BY <1>1, <1>2 DEF Candidates, Start, End
<1>4. ASSUME NEW q \in Candidates PROVE k <= q
  BY CandidateFacts, Sizes
<1> QED
  BY <1>3, <1>4 DEF Lowest

\* Reading a line of the window ends the scan with the lowest candidate, or the
\* pages of the window up to this line are in use.
LEMMA ReadLineFacts ==
    ASSUME TypeOK, ScanInv, NEW p \in Page, ReadLine(p)
    PROVE  \/ \E k \in Int : Found(k * PageSize) /\ Lowest(k)
           \/ /\ inj' = [inj EXCEPT !.line = p + 1, !.prev = End(p)]
              /\ \A q \in Page : q < p + 1 /\ Start(q) >= Lo(Near) => owner[q] # "free"
<1>1. /\ inj.pc = "gap" /\ p >= inj.line /\ owner[p] # "free"
      /\ \A q \in Page : q >= inj.line /\ q < p => owner[q] = "free"
      /\ End(p) > Lo(Near) /\ Start(p) < Hi(Near)
  BY DEF ReadLine, IsLine
<1>2. /\ PageSize \in Nat \ {0} /\ NPages \in Nat \ {0} /\ p \in Int /\ p >= 0 /\ p < NPages
      /\ inj.line \in Int /\ inj.prev \in Int
  <2>1. inj.line \in 0 .. NPages /\ inj.prev \in 0 .. Top
    BY DEF TypeOK, Injecting
  <2> QED BY <2>1, Sizes DEF Page
<1>3. p * PageSize \in Int /\ Lo(Near) \in Int /\ Hi(Near) \in Int
  BY <1>2, NearFacts, Sizes DEF TypeOK
<1>4. PICK k \in Int : /\ GapStart = k * PageSize /\ k >= 1 /\ k >= inj.line
                       /\ k * PageSize >= Lo(Near)
                       /\ \A q \in Int : q >= inj.line /\ q * PageSize >= Lo(Near) => k <= q
  BY <1>1, GapStartFacts
<1> DEFINE m == Smaller(Start(p), Hi(Near))
<1>5. m \in Int /\ m <= p * PageSize /\ m <= Hi(Near) /\ (m = p * PageSize \/ m = Hi(Near))
  BY <1>3 DEF Smaller, Start
<1>5a. IF GapStart + PageSize <= m THEN Found(GapStart)
       ELSE inj' = [inj EXCEPT !.line = p + 1, !.prev = Larger(@, End(p))]
  BY DEF ReadLine
<1> HIDE DEF m
<1>6. CASE k * PageSize + PageSize <= m
  <2>1. Found(k * PageSize)
    BY <1>4, <1>5a, <1>6
  <2>2. k * PageSize + PageSize <= p * PageSize /\ k * PageSize + PageSize <= Hi(Near)
    <3>1. k * PageSize \in Int
      BY PageOrder
    <3> QED BY <1>2, <1>3, <1>5, <1>6, <3>1
  <2>3. k < p
    BY <1>2, <2>2, PageOrder
  <2>4. k \in Page /\ owner[k] = "free"
    BY <1>1, <1>2, <1>4, <2>3 DEF Page
  <2>5. Lowest(k)
    BY <1>1, <1>4, <2>2, <2>4, LowestFree
  <2> QED BY <2>1, <2>5
<1>7. CASE ~(k * PageSize + PageSize <= m)
  <2>1. inj' = [inj EXCEPT !.line = p + 1, !.prev = Larger(@, End(p))]
    BY <1>4, <1>5a, <1>7
  <2>2. inj.prev < End(p)
    <3>1. CASE inj.prev = inj.line * PageSize
      <4>1. inj.line * PageSize <= p * PageSize /\ inj.line * PageSize \in Int
        BY <1>1, <1>2, PageOrder
      <4> QED BY <1>2, <1>3, <3>1, <4>1 DEF End
    <3> QED BY <1>1, <3>1 DEF ScanInv
  <2>3. End(p) \in Int
    BY <1>2, <1>3 DEF End
  <2>4. inj' = [inj EXCEPT !.line = p + 1, !.prev = End(p)]
    <3>1. Larger(inj.prev, End(p)) = End(p)
      BY <1>2, <2>2, <2>3 DEF Larger
    <3>2. inj \in Injecting
      BY DEF TypeOK
    <3>3. inj' = [inj EXCEPT !.line = p + 1, !.prev = Larger(inj.prev, End(p))]
      BY <2>1, <3>2 DEF Injecting
    <3> QED BY <3>1, <3>3
  <2>5. ASSUME NEW q \in Page, q < p + 1, Start(q) >= Lo(Near) PROVE owner[q] # "free"
    <3>1. q \in Int /\ q * PageSize >= Lo(Near)
      BY <2>5, Sizes DEF Start
    <3>2. CASE q < inj.line
      BY <1>1, <2>5, <3>2 DEF ScanInv
    <3>3. CASE q = p
      BY <1>1, <3>3
    <3>4. CASE q >= inj.line /\ q < p
      <4>1. k <= q
        BY <1>4, <3>1, <3>4
      <4>2. q * PageSize + PageSize <= p * PageSize /\ k * PageSize <= q * PageSize
            /\ k * PageSize \in Int /\ q * PageSize \in Int
        BY <1>2, <3>1, <3>4, <4>1, PageOrder
      <4>3. p * PageSize < Hi(Near)
        BY <1>1 DEF Start
      <4>4. k * PageSize + PageSize <= m
        BY <1>2, <1>3, <1>5, <4>2, <4>3
      <4> QED BY <1>7, <4>4
    <3> QED BY <1>2, <2>5, <3>1, <3>2, <3>3, <3>4
  <2> QED BY <2>4, <2>5
<1> QED
  BY <1>6, <1>7

\* The scan ends with the lowest candidate, or there is none.
LEMMA ScanEndFacts ==
    ASSUME TypeOK, ScanInv, ScanEnd
    PROVE  \/ \E k \in Int : Found(k * PageSize) /\ Lowest(k)
           \/ inj' = Failed /\ Candidates = {}
<1>1. /\ inj.pc = "gap"
      /\ \/ \A p \in Page : p >= inj.line => owner[p] = "free"
         \/ \E p \in Page : IsLine(p) /\ End(p) > Lo(Near) /\ Start(p) >= Hi(Near)
      /\ IF GapStart >= Lo(Near) /\ GapStart + PageSize <= Hi(Near)
         THEN Found(GapStart) ELSE inj' = Failed
  BY DEF ScanEnd
<1>2. PageSize \in Nat \ {0} /\ Lo(Near) \in Int /\ Hi(Near) \in Int /\ Hi(Near) = Near + Window
  BY NearFacts, Sizes DEF TypeOK
<1>3. PICK k \in Int : /\ GapStart = k * PageSize /\ k >= 1 /\ k >= inj.line
                       /\ k * PageSize >= Lo(Near)
                       /\ \A q \in Int : q >= inj.line /\ q * PageSize >= Lo(Near) => k <= q
  BY <1>1, GapStartFacts
<1>4. CASE k * PageSize + PageSize <= Hi(Near)
  <2>1. Found(k * PageSize)
    BY <1>1, <1>3, <1>4
  <2>2. k \in Page => owner[k] = "free"
    <3>1. CASE \A p \in Page : p >= inj.line => owner[p] = "free"
      BY <1>3, <3>1
    <3>2. CASE \E p \in Page : IsLine(p) /\ End(p) > Lo(Near) /\ Start(p) >= Hi(Near)
      <4>1. PICK p \in Page : IsLine(p) /\ Start(p) >= Hi(Near)
        BY <3>2
      <4>2. p \in Int /\ k * PageSize + PageSize <= p * PageSize
        <5>1. p \in Int
          BY Sizes
        <5>2. p * PageSize \in Int /\ k * PageSize \in Int
          BY <5>1, PageOrder
        <5> QED BY <1>2, <1>4, <4>1, <5>1, <5>2 DEF Start
      <4>3. k < p
        BY <4>2, PageOrder
      <4> QED BY <1>3, <4>1, <4>3 DEF IsLine
    <3> QED BY <1>1, <3>1, <3>2
  <2>3. Lowest(k)
    BY <1>1, <1>3, <1>4, <2>2, LowestFree
  <2> QED BY <2>1, <2>3
<1>5. CASE ~(k * PageSize + PageSize <= Hi(Near))
  <2>1. inj' = Failed
    BY <1>1, <1>3, <1>5
  <2>2. ASSUME NEW q \in Candidates PROVE FALSE
    <3>1. /\ q \in Int /\ q >= inj.line /\ q * PageSize >= Lo(Near)
          /\ q * PageSize + PageSize <= Near + Window
      BY <1>1, CandidateFacts, Sizes
    <3>2. k * PageSize <= q * PageSize /\ k * PageSize \in Int /\ q * PageSize \in Int
      BY <1>3, <3>1, PageOrder
    <3> QED BY <1>2, <1>5, <3>1, <3>2
  <2> QED BY <2>1, <2>2
<1> QED
  BY <1>4, <1>5

(***************************************************************************)
(* The steps.                                                              *)
(***************************************************************************)
\* Before the first injection.
LEMMA SafeInit == Init => SafeInv
<1> SUFFICES ASSUME Init PROVE SafeInv
  OBVIOUS
<1>1. /\ target \in Targets /\ layout \in Layouts
      /\ owner \in [Page -> {"free", "app", "vdso"}]
      /\ jump = [h \in Hook |-> 0] /\ scratch = FALSE
      /\ inj = [pc |-> "rest", ok |-> FALSE, gap |-> 0, i |-> 1, orig |-> FALSE, line |-> 0, prev |-> 0]
      /\ written = {} /\ lost = {} /\ used = [injections |-> 0, maps |-> 0, faults |-> 0]
  BY DEF Init
<1>2. 0 \in Addr /\ 0 \in 0 .. NPages /\ 0 \in 0 .. Top
  <2>1. Top \in Int /\ Top > 0 /\ NPages \in Nat
    <3>1. Near \in Int /\ Near >= 0 /\ Near < Top /\ Top \in Nat
      BY <1>1, NearFacts, Sizes
    <3> QED BY <3>1, Sizes
  <2> QED BY <2>1 DEF Addr
<1>3. inj \in Injecting
  BY <1>1, <1>2 DEF Injecting
<1>4. TypeOK
  BY <1>1, <1>2, <1>3 DEF TypeOK
<1> QED
  BY <1>1, <1>4 DEF SafeInv, ScanInv, GapInv, MapInv, CallInv

\* The program maps a page.
LEMMA AppMapStep ==
    ASSUME SafeInv, NEW p \in Page, AppMap(p)
    PROVE  SafeInv'
<1>1. /\ target.threads \/ inj.pc = "rest"
      /\ owner[p] = "free" /\ owner' = [owner EXCEPT ![p] = "app"]
      /\ used' = [used EXCEPT !.maps = @ + 1]
      /\ UNCHANGED <<target, layout, written, jump, scratch, inj, lost>>
  BY DEF AppMap
<1>2. TypeOK
  BY DEF SafeInv
<1>3. \A q \in Page : owner'[q] = IF q = p THEN "app" ELSE owner[q]
  BY <1>1, <1>2 DEF TypeOK
<1>4. TypeOK'
  BY <1>1, <1>2 DEF TypeOK
<1>5. ScanInv'
  BY <1>1, <1>3 DEF SafeInv, ScanInv, Near, Lo, Start
<1>6. GapInv'
  BY <1>1 DEF SafeInv, GapInv, Near, Start, End
<1>7. MapInv'
  <2>1. CASE inj.pc = "rest"
    BY <1>1, <2>1 DEF SafeInv, MapInv
  <2>2. CASE inj.pc = "gap"
    BY <1>1, <2>2 DEF SafeInv, MapInv
  <2>3. CASE inj.pc \notin {"rest", "gap"}
    <3>1. PICK k \in Page : inj.gap = k * PageSize
      BY <2>3 DEF SafeInv, GapInv
    <3>2. PageOf(inj.gap) \in Page
      BY <3>1, PageOfStart, Sizes
    <3> QED BY <1>1, <1>3, <2>3, <3>2 DEF SafeInv, MapInv
  <2> QED BY <2>1, <2>2, <2>3
<1>8. CallInv'
  <2>1. \A q \in written : q \in Page /\ owner[q] = "stubs"
    BY <1>2 DEF SafeInv, CallInv, TypeOK
  <2> QED BY <1>1, <1>3, <2>1 DEF SafeInv, CallInv
<1> QED
  BY <1>4, <1>5, <1>6, <1>7, <1>8 DEF SafeInv

\* The local state of a failed injection.
LEMMA FailedTyped ==
    ASSUME TypeOK
    PROVE  Failed \in Injecting /\ Failed.pc = "rest" /\ Failed.orig = inj.orig
<1>1. 0 \in 0 .. NPages /\ 0 \in 0 .. Top
  BY Sizes
<1> QED
  BY <1>1 DEF TypeOK, Injecting, Failed

\* An injection that is over, whatever happened to it, needs the entries and
\* the pages only.
LEMMA RestStep ==
    ASSUME SafeInv, inj' \in Injecting, inj'.pc = "rest", inj'.orig = inj.orig, scratch' \in BOOLEAN, scratch' => target.brittle,
           used' \in [injections : Nat, maps : Nat, faults : Nat],
           UNCHANGED <<target, layout, written, owner, jump, lost>>
    PROVE  SafeInv'
<1>1. TypeOK'
  BY DEF SafeInv, TypeOK
<1> QED
  BY <1>1 DEF SafeInv, ScanInv, GapInv, MapInv, CallInv

\* A fault is counted.
LEMMA FaultTyped ==
    ASSUME TypeOK, Fault
    PROVE  used' \in [injections : Nat, maps : Nat, faults : Nat]
BY DEF TypeOK, Fault

\* An injection begins.
LEMMA BeginStep ==
    ASSUME SafeInv, Begin
    PROVE  SafeInv'
<1>1. /\ inj.pc = "rest" /\ used' = [used EXCEPT !.injections = @ + 1]
      /\ inj' = [pc |-> "gap", ok |-> FALSE, gap |-> 0, i |-> 1, orig |-> FALSE,
                line |-> 0, prev |-> Lo(Near)]
      /\ UNCHANGED <<target, layout, written, owner, jump, scratch, lost>>
  BY DEF Begin
<1>2. TypeOK /\ Near' = Near /\ Lo(Near)' = Lo(Near)
  BY <1>1 DEF SafeInv, Near, Lo
<1>3. 0 \in Addr /\ 0 \in 0 .. NPages /\ Lo(Near) \in 0 .. Top
  <2>1. Near \in Int /\ Near >= 0 /\ Near < Top /\ Top \in Nat /\ NPages \in Nat /\ Lo(Near) \in 0 .. Top
    BY <1>2, NearFacts, Sizes DEF TypeOK
  <2> QED BY <2>1 DEF Addr
<1> DEFINE lo == Lo(Near)
<1> HIDE DEF lo
<1>4. inj' = [pc |-> "gap", ok |-> FALSE, gap |-> 0, i |-> 1, orig |-> FALSE, line |-> 0, prev |-> lo] /\ lo \in 0 .. Top
  BY <1>1, <1>3 DEF lo
<1>5. inj' \in Injecting
  BY <1>3, <1>4 DEF Injecting
<1>6. inj'.pc = "gap" /\ inj'.line = 0 /\ inj'.prev = lo
  BY <1>4
<1>7. TypeOK'
  BY <1>1, <1>2, <1>5 DEF TypeOK
<1>8. ScanInv'
  <2>1. \A q \in Page : ~(q < 0)
    BY Sizes DEF Page
  <2> QED BY <1>2, <1>6, <2>1 DEF ScanInv, lo
<1> QED
  BY <1>1, <1>6, <1>7, <1>8 DEF SafeInv, GapInv, MapInv, CallInv

\* findNearbyGap returns the lowest candidate.
LEMMA FoundStep ==
    ASSUME SafeInv, inj.pc = "gap", NEW k \in Int, Found(k * PageSize), Lowest(k),
           UNCHANGED <<target, layout, written, owner, jump, scratch, lost, used>>
    PROVE  SafeInv'
<1>1. TypeOK
  BY DEF SafeInv
<1>2. /\ k \in Page \ {0} /\ owner[k] = "free"
      /\ Start(k) >= Near - Window /\ End(k) <= Near + Window
  BY DEF Lowest, Candidates
<1> DEFINE a == k * PageSize
<1>3. a \in Addr
  <2>1. a \in Int /\ a >= 0
    <3>1. 0 * PageSize <= k * PageSize /\ k * PageSize \in Int
      BY <1>2, PageOrder DEF Page
    <3> QED BY <3>1, Sizes
  <2>2. a + PageSize <= Near + Window /\ Near + Window < Top /\ Near \in Int /\ Window \in Int
        /\ PageSize \in Nat \ {0} /\ Top \in Int
    BY <1>1, <1>2, NearFacts, Sizes DEF TypeOK, End
  <2> HIDE DEF a
  <2>3. a <= Top - 1
    BY <2>1, <2>2
  <2> QED BY <2>1, <2>2, <2>3 DEF Addr
<1>4. PageOf(a) = k
  BY PageOfStart
<1>5. inj' = [inj EXCEPT !.pc = "poke", !.gap = a, !.line = 0, !.prev = 0]
  BY DEF Found
<1>6. inj \in Injecting /\ 0 \in 0 .. NPages /\ 0 \in 0 .. Top
  BY <1>1, Sizes DEF TypeOK
<1> HIDE DEF a
<1>7. inj' \in Injecting /\ inj'.pc = "poke" /\ inj'.gap = a /\ inj'.orig = inj.orig
  BY <1>3, <1>5, <1>6 DEF Injecting
<1>8. TypeOK'
  BY <1>1, <1>7 DEF TypeOK
<1>9. GapInv'
  <2>1. Near' = Near
    BY DEF Near
  <2> QED BY <1>2, <1>7, <2>1 DEF GapInv, a, Start, End
<1>10. MapInv'
  BY <1>2, <1>4, <1>7 DEF SafeInv, MapInv
<1> QED
  BY <1>7, <1>8, <1>9, <1>10 DEF SafeInv, ScanInv, CallInv

\* One more line is read.
LEMMA LineStep ==
    ASSUME SafeInv, inj.pc = "gap", NEW p \in Page,
           inj' = [inj EXCEPT !.line = p + 1, !.prev = End(p)],
           \A q \in Page : q < p + 1 /\ Start(q) >= Lo(Near) => owner[q] # "free",
           UNCHANGED <<target, layout, written, owner, jump, scratch, lost, used>>
    PROVE  SafeInv'
<1>1. TypeOK /\ inj \in Injecting
  BY DEF SafeInv, TypeOK
<1>2. p \in Int /\ p >= 0 /\ p < NPages /\ NPages \in Nat \ {0} /\ PageSize \in Nat \ {0}
  BY Sizes DEF Page
<1>3. (p + 1) * PageSize = End(p) /\ p + 1 \in 0 .. NPages
  <2>1. (p + 1) * PageSize = p * PageSize + PageSize
    BY <1>2
  <2>2. p + 1 \in 0 .. NPages
    BY <1>2
  <2> QED BY <2>1, <2>2 DEF End
<1>4. End(p) \in 0 .. Top
  <2>1. 0 * PageSize <= (p + 1) * PageSize /\ (p + 1) * PageSize <= NPages * PageSize
        /\ (p + 1) * PageSize \in Int
    BY <1>2, PageOrder
  <2> QED BY <1>2, <1>3, <2>1, Sizes DEF Top
<1> DEFINE e == End(p)
<1> HIDE DEF e
<1>5. inj' = [inj EXCEPT !.line = p + 1, !.prev = e] /\ e \in 0 .. Top /\ e = (p + 1) * PageSize
  BY <1>3, <1>4 DEF e
<1>6. inj' \in Injecting /\ inj'.pc = "gap" /\ inj'.line = p + 1 /\ inj'.prev = e /\ inj'.orig = inj.orig
  BY <1>1, <1>3, <1>5 DEF Injecting
<1>7. TypeOK'
  BY <1>1, <1>6 DEF TypeOK
<1>8. ScanInv'
  <2>1. Near' = Near /\ Lo(Near)' = Lo(Near)
    BY DEF Near, Lo
  <2> QED BY <1>5, <1>6, <2>1 DEF ScanInv, Start
<1> QED
  BY <1>6, <1>7, <1>8 DEF SafeInv, GapInv, MapInv, CallInv

\* Every step of findNearbyGap.
LEMMA FindNearbyGapStep ==
    ASSUME SafeInv, FindNearbyGap
    PROVE  SafeInv'
<1>0. TypeOK /\ ScanInv /\ (scratch => inj.pc # "gap" \/ target.brittle)
  BY DEF SafeInv, CallInv
<1>1. CASE \E p \in Page : SkipLine(p)
  <2>1. PICK p \in Page : SkipLine(p)
    BY <1>1
  <2>2. /\ inj.pc = "gap" /\ End(p) <= Lo(Near)
        /\ inj' = [inj EXCEPT !.line = p + 1, !.prev = End(p)]
        /\ UNCHANGED <<target, layout, written, owner, jump, scratch, lost, used>>
    BY <2>1 DEF SkipLine
  <2>3. ASSUME NEW q \in Page, q < p + 1, Start(q) >= Lo(Near) PROVE FALSE
    <3>1. /\ q \in Int /\ p \in Int /\ q <= p /\ PageSize \in Nat \ {0} /\ Lo(Near) \in Int
      BY <1>0, <2>3, NearFacts, Sizes DEF TypeOK
    <3>2. q * PageSize <= p * PageSize /\ q * PageSize \in Int /\ p * PageSize \in Int
      BY <3>1, PageOrder
    <3>3. q * PageSize >= Lo(Near) /\ p * PageSize + PageSize <= Lo(Near)
      BY <2>2, <2>3 DEF Start, End
    <3> QED BY <3>1, <3>2, <3>3
  <2> QED BY <2>2, <2>3, LineStep
<1>2. CASE \E p \in Page : ReadLine(p)
  <2>1. PICK p \in Page : ReadLine(p)
    BY <1>2
  <2>2. inj.pc = "gap" /\ UNCHANGED <<target, layout, written, owner, jump, scratch, lost, used>>
    BY <2>1 DEF ReadLine
  <2> QED BY <1>0, <2>1, <2>2, ReadLineFacts, FoundStep, LineStep
<1>3. CASE ScanEnd
  <2>1. inj.pc = "gap" /\ UNCHANGED <<target, layout, written, owner, jump, scratch, lost, used>>
    BY <1>3 DEF ScanEnd
  <2>2. CASE \E k \in Int : Found(k * PageSize) /\ Lowest(k)
    BY <2>1, <2>2, FoundStep
  <2>3. CASE inj' = Failed
    <3>1. scratch \in BOOLEAN /\ (scratch => target.brittle) /\ used \in [injections : Nat, maps : Nat, faults : Nat]
      BY <1>0, <2>1 DEF TypeOK
    <3> QED BY <1>0, <2>1, <2>3, <3>1, FailedTyped, RestStep
  <2> QED BY <1>0, <1>3, <2>2, <2>3, ScanEndFacts
<1> QED
  BY <1>1, <1>2, <1>3 DEF FindNearbyGap

\* remoteMmap and the payload: the program counter moves, the page stays.
LEMMA GotoTyped ==
    ASSUME TypeOK, NEW l \in {"noreplace", "fixed", "restore", "undo", "payload", "patch"}, Goto(l)
    PROVE  inj' \in Injecting /\ inj'.pc = l /\ inj'.gap = inj.gap /\ inj'.orig = inj.orig
BY DEF TypeOK, Injecting, Goto

\* The page of the gap is a page.
LEMMA GapPage ==
    ASSUME TypeOK, GapInv, inj.pc \notin {"rest", "gap"}
    PROVE  PageOf(inj.gap) \in Page /\ inj.gap = PageOf(inj.gap) * PageSize
BY PageOfStart, Sizes DEF GapInv

\* Between the scan and the patches only the page of the gap may change.
LEMMA MoveStep ==
    ASSUME SafeInv, inj.pc \notin {"rest", "gap"}, TypeOK', inj'.gap = inj.gap,
           inj'.pc \notin {"rest", "gap"}, UNCHANGED layout, MapInv', CallInv'
    PROVE  SafeInv'
<1>1. GapInv'
  BY DEF SafeInv, GapInv, Near, Start, End
<1>2. ScanInv'
  BY DEF ScanInv
<1> QED
  BY <1>1, <1>2 DEF SafeInv

\* remoteMmap.
LEMMA RemoteMmapStep ==
    ASSUME SafeInv, RemoteMmap
    PROVE  SafeInv'
<1>1. TypeOK /\ MapInv /\ CallInv /\ GapInv
  BY DEF SafeInv
<1>2. CASE Poke
  <2>1. /\ inj.pc = "poke" /\ scratch' = TRUE /\ inj' = [inj EXCEPT !.pc = "noreplace", !.orig = scratch]
        /\ UNCHANGED <<target, layout, written, owner, jump, lost, used>>
    BY <1>2 DEF Poke
  <2>2. inj' \in Injecting /\ inj'.pc = "noreplace" /\ inj'.gap = inj.gap /\ inj'.orig = scratch
    BY <1>1, <2>1 DEF TypeOK, Injecting
  <2>3. TypeOK'
    BY <1>1, <2>1, <2>2 DEF TypeOK
  <2>4. MapInv' /\ CallInv'
    BY <1>1, <2>1, <2>2 DEF MapInv, CallInv
  <2> QED BY <2>1, <2>2, <2>3, <2>4, MoveStep
<1>3. CASE PokeErr
  <2>1. /\ inj.pc = "poke" /\ Fault /\ inj' = Failed
        /\ UNCHANGED <<target, layout, written, owner, jump, scratch, lost>>
    BY <1>3 DEF PokeErr
  <2>2. scratch' \in BOOLEAN /\ (scratch' => target.brittle)
    BY <1>1, <2>1 DEF CallInv, TypeOK
  <2> QED BY <1>1, <2>1, <2>2, FailedTyped, FaultTyped, RestStep
<1>4. CASE MmapNoReplace
  <2>0. /\ inj.pc = "noreplace"
        /\ UNCHANGED <<target, layout, written, jump, scratch, lost>>
    BY <1>4 DEF MmapNoReplace
  <2> DEFINE g == PageOf(inj.gap)
  <2>1. g \in Page
    BY <1>1, <2>0, GapPage
  <2>2. CASE /\ owner[g] = "free" /\ owner' = [owner EXCEPT ![g] = "stubs"]
             /\ Goto("restore") /\ UNCHANGED used
    <3>1. inj' \in Injecting /\ inj'.pc = "restore" /\ inj'.gap = inj.gap /\ inj'.orig = inj.orig
      BY <1>1, <2>2, GotoTyped
    <3>2. TypeOK'
      BY <1>1, <2>0, <2>1, <2>2, <3>1 DEF TypeOK
    <3>3. \A q \in Page : owner'[q] = IF q = g THEN "stubs" ELSE owner[q]
      BY <1>1, <2>2 DEF TypeOK
    <3>4. MapInv'
      BY <1>1, <2>0, <2>1, <2>2, <3>1, <3>3 DEF MapInv
    <3>5. CallInv'
      <4>1. \A q \in written : q \in Page /\ owner[q] = "stubs"
        BY <1>1 DEF CallInv, TypeOK
      <4> QED BY <1>1, <2>0, <3>1, <3>3, <4>1 DEF CallInv
    <3> QED BY <2>0, <3>1, <3>2, <3>4, <3>5, MoveStep
  <2>3. CASE /\ UNCHANGED owner /\ Goto("fixed")
             /\ UNCHANGED used \/ Fault
    <3>1. inj' \in Injecting /\ inj'.pc = "fixed" /\ inj'.gap = inj.gap /\ inj'.orig = inj.orig
      BY <1>1, <2>3, GotoTyped
    <3>2. used' \in [injections : Nat, maps : Nat, faults : Nat]
      BY <1>1, <2>3, FaultTyped DEF TypeOK
    <3>3. TypeOK'
      BY <1>1, <2>0, <2>3, <3>1, <3>2 DEF TypeOK
    <3>4. MapInv' /\ CallInv'
      BY <1>1, <2>0, <2>3, <3>1 DEF MapInv, CallInv
    <3> QED BY <2>0, <3>1, <3>3, <3>4, MoveStep
  <2> QED BY <1>4, <2>2, <2>3 DEF MmapNoReplace
<1>5. CASE MmapFixed
  <2> DEFINE g == PageOf(inj.gap)
  <2>0. /\ inj.pc = "fixed" /\ owner' = [owner EXCEPT ![g] = "stubs"]
        /\ lost' = lost \union (IF owner[g] = "free" THEN {} ELSE {g})
        /\ written' = written \ {g} /\ Goto("restore")
        /\ UNCHANGED <<target, layout, jump, scratch, used>>
    BY <1>5 DEF MmapFixed
  <2>1. g \in Page
    BY <1>1, <2>0, GapPage
  <2>2. inj' \in Injecting /\ inj'.pc = "restore" /\ inj'.gap = inj.gap /\ inj'.orig = inj.orig
    BY <1>1, <2>0, GotoTyped
  <2>3. \A q \in Page : owner'[q] = IF q = g THEN "stubs" ELSE owner[q]
    BY <1>1, <2>0 DEF TypeOK
  <2>4. TypeOK'
    BY <1>1, <2>0, <2>1, <2>2 DEF TypeOK
  <2>5. g \notin written
    BY <1>1, <2>0 DEF MapInv, CallInv
  <2>6. written' = written
    BY <2>0, <2>5
  <2>7. MapInv'
    <3>1. ~target.threads => lost' = lost
      BY <1>1, <2>0 DEF MapInv
    <3> QED BY <1>1, <2>0, <2>1, <2>2, <2>3, <3>1 DEF MapInv
  <2>8. CallInv'
    <3>1. \A q \in written : q \in Page /\ owner[q] = "stubs"
      BY <1>1 DEF CallInv, TypeOK
    <3> QED BY <1>1, <2>0, <2>2, <2>3, <2>6, <3>1 DEF CallInv
  <2> QED BY <2>0, <2>2, <2>4, <2>7, <2>8, MoveStep
<1>6. CASE MmapErr
  <2>1. /\ inj.pc \in {"noreplace", "fixed", "restore"} /\ Fault /\ Goto("undo")
        /\ UNCHANGED <<target, layout, written, owner, jump, scratch, lost>>
    BY <1>6 DEF MmapErr
  <2>2. inj' \in Injecting /\ inj'.pc = "undo" /\ inj'.gap = inj.gap /\ inj'.orig = inj.orig
    BY <1>1, <2>1, GotoTyped
  <2>3. TypeOK'
    BY <1>1, <2>1, <2>2, FaultTyped DEF TypeOK
  <2>4. MapInv' /\ CallInv'
    BY <1>1, <2>1, <2>2 DEF MapInv, CallInv
  <2> QED BY <2>1, <2>2, <2>3, <2>4, MoveStep
<1>7. CASE Restore
  <2>1. /\ inj.pc = "restore" /\ scratch' = inj.orig /\ Goto("payload")
        /\ UNCHANGED <<target, layout, written, owner, jump, lost, used>>
    BY <1>7 DEF Restore
  <2>2. inj' \in Injecting /\ inj'.pc = "payload" /\ inj'.gap = inj.gap /\ inj'.orig = inj.orig
    BY <1>1, <2>1, GotoTyped
  <2>0. inj.orig \in BOOLEAN
    BY <1>1 DEF TypeOK, Injecting
  <2>3. TypeOK'
    BY <1>1, <2>0, <2>1, <2>2 DEF TypeOK
  <2>4. MapInv' /\ CallInv'
    BY <1>1, <2>1, <2>2 DEF MapInv, CallInv
  <2> QED BY <2>1, <2>2, <2>3, <2>4, MoveStep
<1>8. CASE Undo
  <2>1. /\ inj.pc = "undo" /\ inj' = Failed
        /\ \/ scratch' = inj.orig /\ UNCHANGED used
           \/ target.brittle /\ Fault /\ UNCHANGED scratch
        /\ UNCHANGED <<target, layout, written, owner, jump, lost>>
    BY <1>8 DEF Undo
  <2>2. /\ used' \in [injections : Nat, maps : Nat, faults : Nat]
        /\ scratch' \in BOOLEAN /\ (scratch' => target.brittle)
    BY <1>1, <2>1, FaultTyped DEF TypeOK, Injecting, CallInv
  <2> QED BY <1>1, <2>1, <2>2, FailedTyped, RestStep
<1> QED
  BY <1>2, <1>3, <1>4, <1>5, <1>6, <1>7, <1>8 DEF RemoteMmap

\* The payload is written, or cannot be.
LEMMA WritePayloadStep ==
    ASSUME SafeInv, WritePayload
    PROVE  SafeInv'
<1>1. TypeOK /\ MapInv /\ CallInv /\ GapInv
  BY DEF SafeInv
<1>2. inj.pc = "payload" /\ UNCHANGED <<target, layout, owner, jump, scratch, lost>>
  BY DEF WritePayload
<1> DEFINE g == PageOf(inj.gap)
<1>3. g \in Page
  BY <1>1, <1>2, GapPage
<1>4. CASE Goto("patch") /\ written' = written \union {g} /\ UNCHANGED used
  <2>1. inj' \in Injecting /\ inj'.pc = "patch" /\ inj'.gap = inj.gap /\ inj'.orig = inj.orig
    BY <1>1, <1>4, GotoTyped
  <2>2. TypeOK'
    BY <1>1, <1>2, <1>3, <1>4, <2>1 DEF TypeOK
  <2>3. MapInv' /\ CallInv'
    BY <1>1, <1>2, <1>4, <2>1 DEF MapInv, CallInv
  <2> QED BY <1>2, <2>1, <2>2, <2>3, MoveStep
<1>5. CASE inj' = Failed /\ Fault /\ UNCHANGED written
  <2>1. scratch' \in BOOLEAN /\ (scratch' => target.brittle)
    BY <1>1, <1>2 DEF CallInv, TypeOK
  <2> QED BY <1>1, <1>2, <1>5, <2>1, FailedTyped, FaultTyped, RestStep
<1> QED
  BY <1>4, <1>5 DEF WritePayload

\* An entry is overwritten.
LEMMA PatchStep ==
    ASSUME SafeInv, Patch
    PROVE  SafeInv'
<1>1. TypeOK /\ MapInv /\ CallInv /\ GapInv
  BY DEF SafeInv
<1>2. /\ inj.pc = "patch" /\ jump' = [jump EXCEPT ![Hooks[inj.i]] = inj.gap]
      /\ inj' = IF inj.i = 3 THEN [inj EXCEPT !.pc = "rest", !.ok = TRUE] ELSE [inj EXCEPT !.i = @ + 1]
      /\ scratch' = (scratch /\ inj.i # 1)
      /\ UNCHANGED <<target, layout, written, owner, lost, used>>
  BY DEF Patch
<1>3. inj \in Injecting /\ inj.i \in 1 .. 3 /\ inj.gap \in Addr
  BY <1>1 DEF TypeOK, Injecting
<1>4. scratch' \in BOOLEAN /\ (scratch' => target.brittle)
  BY <1>1, <1>2 DEF CallInv, TypeOK
<1>5. inj' \in Injecting /\ inj'.gap = inj.gap /\ inj'.pc \in {"rest", "patch"} /\ inj'.orig = inj.orig
  <2>1. CASE inj.i = 3
    BY <1>2, <1>3, <2>1 DEF Injecting
  <2>2. CASE inj.i # 3
    <3>1. inj' = [inj EXCEPT !.i = @ + 1] /\ inj.i + 1 \in 1 .. 3
      BY <1>2, <1>3, <2>2
    <3> QED BY <1>2, <1>3, <3>1 DEF Injecting
  <2> QED BY <2>1, <2>2
<1>6. Hooks[inj.i] \in Hook
  BY <1>3 DEF Hooks, Hook
<1>7. TypeOK'
  BY <1>1, <1>2, <1>3, <1>4, <1>5, <1>6 DEF TypeOK
<1>8. CallInv'
  <2>1. \A h \in Hook : jump'[h] = IF h = Hooks[inj.i] THEN inj.gap ELSE jump[h]
    BY <1>1, <1>2 DEF TypeOK
  <2>2. PageOf(inj.gap) \in written
    BY <1>1, <1>2 DEF MapInv
  <2> QED BY <1>1, <1>2, <1>4, <2>1, <2>2 DEF CallInv
<1>9. MapInv'
  BY <1>1, <1>2, <1>5 DEF MapInv
<1>10. GapInv' /\ ScanInv'
  BY <1>1, <1>2, <1>5 DEF GapInv, ScanInv, Near, Start, End
<1> QED
  BY <1>7, <1>8, <1>9, <1>10 DEF SafeInv

\* An entry cannot be overwritten.
LEMMA PatchErrStep ==
    ASSUME SafeInv, PatchErr
    PROVE  SafeInv'
<1>1. TypeOK /\ CallInv
  BY DEF SafeInv
<1>2. /\ inj.pc = "patch" /\ inj' = Failed /\ (UNCHANGED used \/ Fault)
      /\ UNCHANGED <<target, layout, written, owner, jump, scratch, lost>>
  BY DEF PatchErr
<1>3. /\ scratch' \in BOOLEAN /\ (scratch' => target.brittle)
      /\ used' \in [injections : Nat, maps : Nat, faults : Nat]
  <2>1. scratch' \in BOOLEAN /\ (scratch' => target.brittle)
    BY <1>1, <1>2 DEF CallInv, TypeOK
  <2>2. used' \in [injections : Nat, maps : Nat, faults : Nat]
    BY <1>1, <1>2, FaultTyped DEF TypeOK
  <2> QED BY <2>1, <2>2
<1> QED
  BY <1>1, <1>2, <1>3, FailedTyped, RestStep

\* Every step keeps the invariant.
LEMMA SafeStep ==
    ASSUME SafeInv, [Next]_vars
    PROVE  SafeInv'
<1>1. CASE UNCHANGED vars
  BY <1>1 DEF vars, SafeInv, TypeOK, ScanInv, GapInv, MapInv, CallInv, Near, Lo, Start, End
<1> QED
  BY <1>1, AppMapStep, BeginStep, FindNearbyGapStep, RemoteMmapStep, WritePayloadStep, PatchStep,
     PatchErrStep DEF Next

\* The invariant holds in every reachable state.
LEMMA SafeAlways == Spec => []SafeInv
BY SafeInit, SafeStep, PTL DEF Spec

(***************************************************************************)
(* Theorems that hold for every layout of the vDSO.                        *)
(***************************************************************************)
\* Addresses, pages and the local state of an injection keep their types.
THEOREM TypeCorrect == Spec => []TypeOK
<1>1. SafeInv => TypeOK
  BY DEF SafeInv
<1> QED
  BY <1>1, SafeAlways, PTL

\* In a process that ptrace holds whole, findNearbyGap returns the lowest free page
\* of the window, or fails when there is none, for every address space, window and
\* page size.
THEOREM GapExactHolds == Spec => GapExact
<1> DEFINE A == ~target.threads /\ inj.pc = "gap" /\ inj'.pc # "gap" =>
                    IF Candidates = {} THEN inj'.pc = "rest"
                    ELSE /\ inj'.pc = "poke"
                         /\ inj'.gap % PageSize = 0
                         /\ PageOf(inj'.gap) \in Candidates
                         /\ \A p \in Candidates : PageOf(inj'.gap) <= p
<1>1. ASSUME SafeInv, [Next]_vars PROVE [A]_vars
  <2> SUFFICES ASSUME Next, inj.pc = "gap", inj'.pc # "gap" PROVE A
    BY <1>1
  <2>0. TypeOK /\ ScanInv
    BY <1>1 DEF SafeInv
  <2>1. FindNearbyGap
    BY DEF Next, AppMap, Begin, RemoteMmap, Poke, PokeErr, MmapNoReplace, MmapFixed, MmapErr, Restore, Undo,
           WritePayload, Patch, PatchErr
  <2>2. \/ \E k \in Int : Found(k * PageSize) /\ Lowest(k)
        \/ inj' = Failed /\ Candidates = {}
    <3>1. ASSUME NEW p \in Page, SkipLine(p) PROVE FALSE
      <4>1. inj' = [inj EXCEPT !.line = p + 1, !.prev = End(p)] /\ inj \in Injecting
        BY <2>0, <3>1 DEF SkipLine, TypeOK
      <4> QED BY <4>1 DEF Injecting
    <3>2. ASSUME NEW p \in Page, ReadLine(p) PROVE \E k \in Int : Found(k * PageSize) /\ Lowest(k)
      <4>1. ASSUME inj' = [inj EXCEPT !.line = p + 1, !.prev = End(p)] PROVE FALSE
        <5>1. inj \in Injecting
          BY <2>0 DEF TypeOK
        <5> QED BY <4>1, <5>1 DEF Injecting
      <4> QED BY <2>0, <3>2, <4>1, ReadLineFacts
    <3> QED BY <2>0, <2>1, <3>1, <3>2, ScanEndFacts DEF FindNearbyGap
  <2>3. CASE \E k \in Int : Found(k * PageSize) /\ Lowest(k)
    <3>1. PICK k \in Int : Found(k * PageSize) /\ Lowest(k)
      BY <2>3
    <3> DEFINE a == k * PageSize
    <3>2. PageOf(a) = k /\ a % PageSize = 0
      BY PageOfStart
    <3>3. inj' = [inj EXCEPT !.pc = "poke", !.gap = a, !.line = 0, !.prev = 0] /\ inj \in Injecting
      BY <2>0, <3>1 DEF Found, TypeOK
    <3> HIDE DEF a
    <3>4. inj'.pc = "poke" /\ inj'.gap = a
      BY <3>3 DEF Injecting
    <3> QED BY <3>1, <3>2, <3>4 DEF Lowest
  <2>4. CASE inj' = Failed /\ Candidates = {}
    BY <2>0, <2>4, FailedTyped
  <2> QED BY <2>2, <2>3, <2>4
<1> QED
  BY <1>1, SafeAlways, PTL DEF Spec, GapExact

\* A held process loses no page: the retry with MAP_FIXED comes only after an
\* attempt that failed though the page was free.
THEOREM NothingOverwrittenHolds == Spec => []NothingOverwritten
<1>1. SafeInv => NothingOverwritten
  BY DEF SafeInv, MapInv, NothingOverwritten
<1> QED
  BY <1>1, SafeAlways, PTL

\* A call of a clock function finds the vDSO's own code or whole stubs, through
\* any number of injections and faults.
THEOREM CallsSaneHolds == Spec => []CallsSane
<1>1. SafeInv => CallsSane
  BY DEF SafeInv, CallInv, CallsSane, Runs
<1> QED
  BY <1>1, SafeAlways, PTL

(***************************************************************************)
(* Theorems that need the order in which kernels lay out the vDSO.         *)
(***************************************************************************)
\* Where the jump from the entry of clock_gettime reaches, so do the others.
LEMMA ReachFollows ==
    ASSUME KernelOrder, TypeOK, GapInv, inj.pc = "patch", InReach("clock_gettime"), NEW h \in Hook
    PROVE  InReach(h)
<1>1. PICK k \in Page \ {0} : inj.gap = k * PageSize /\ k * PageSize + PageSize <= Near + Window
  BY DEF GapInv, End
<1> DEFINE g == inj.gap
           n == Near
           l == layout[h]
           o == EntryOffset[h]
<1>2. /\ PageSize \in Nat \ {0} /\ Window \in Nat \ {0} /\ JmpLen \in Nat \ {0}
  BY Sizes
<1>3. g \in Int /\ n \in Int /\ o \in 0 .. 2
  <2>1. g \in Int
    BY <1>1, PageOrder, Sizes
  <2>2. n \in Int
    BY NearFacts DEF TypeOK
  <2>3. o \in 0 .. 2
    BY DEF EntryOffset, Hook
  <2> QED BY <2>1, <2>2, <2>3
<1>4. l \in Int /\ l <= n /\ n + o < l + PageSize + JmpLen
  <2>1. layout \in Layouts /\ layout \in [Hook -> Addr]
    BY SizeAssumption DEF TypeOK
  <2>2. l \in Addr
    BY <2>1
  <2>3. l \in Int
    BY <2>2, Sizes DEF Addr
  <2> QED BY <2>1, <2>3 DEF KernelOrder, Near
<1>5. g + PageSize <= n + Window
  BY <1>1
<1>6. g + 0 - (n + JmpLen) >= -Window
  <2>1. "clock_gettime" \in Hook /\ EntryOffset["clock_gettime"] = 0
    BY DEF EntryOffset, Hook
  <2>2. Disp("clock_gettime") = g + 0 - (n + JmpLen)
    BY <2>1 DEF Disp, Near
  <2>3. Disp("clock_gettime") \in -Window .. Window - 1
    BY DEF InReach
  <2> QED BY <1>2, <2>2, <2>3
<1>7. Disp(h) = g + o - (l + JmpLen)
  BY DEF Disp
<1> HIDE DEF g, n, l, o
<1>8. g + o - (l + JmpLen) \in -Window .. Window - 1
  <2>1. g + o - (l + JmpLen) >= -Window
    BY <1>2, <1>3, <1>4, <1>6
  <2>2. g + o - (l + JmpLen) <= Window - 1
    BY <1>2, <1>3, <1>4, <1>5
  <2> QED BY <1>2, <1>3, <1>4, <2>1, <2>2
<1> QED
  BY <1>7, <1>8 DEF InReach

\* Unless clock_gettime starts a page, the jump from its entry reaches.
LEMMA ClockReaches ==
    ASSUME KernelOrder, TypeOK, GapInv, inj.pc = "patch", Near % PageSize # 0
    PROVE  InReach("clock_gettime")
<1>1. PICK k \in Page \ {0} : /\ inj.gap = k * PageSize /\ k * PageSize >= Near - Window
                              /\ k * PageSize + PageSize <= Near + Window
  BY DEF GapInv, Start, End
<1> DEFINE g == inj.gap
           n == Near
           q == n \div PageSize
           r == n % PageSize
           w == Window \div PageSize
<1>2. PageSize \in Nat \ {0} /\ Window \in Nat \ {0} /\ JmpLen \in Nat \ {0} /\ k \in Int /\ Window % PageSize = 0
  BY Sizes
<1>3. n \in Int
  BY NearFacts DEF TypeOK
<1>4. q \in Int /\ r \in 0 .. PageSize - 1 /\ n = PageSize * q + r
  BY <1>2, <1>3, DivFacts
<1>5. w \in Int /\ Window = PageSize * w
  <2>1. w \in Int /\ Window = PageSize * w + (Window % PageSize)
    BY <1>2, DivFacts
  <2> HIDE DEF w
  <2> QED BY <1>2, <2>1
<1>6. r # 0 /\ r + JmpLen <= PageSize
  BY DEF KernelOrder, TypeOK, Near
<1>7. g = k * PageSize
  BY <1>1
<1> HIDE DEF q, r, w, g
<1>8. (q - w) * PageSize < k * PageSize
  <2>1. (q - w) * PageSize = n - r - Window
    BY <1>2, <1>3, <1>4, <1>5
  <2>2. k * PageSize \in Int /\ k * PageSize >= n - Window
    BY <1>1, <1>2, PageOrder
  <2> QED BY <1>2, <1>3, <1>4, <1>6, <2>1, <2>2
<1>9. (q - w) * PageSize + PageSize <= k * PageSize
  BY <1>2, <1>4, <1>5, <1>8, PageOrder
<1>10. g >= n - Window + JmpLen /\ g + PageSize <= n + Window /\ g \in Int
  <2>1. (q - w) * PageSize = n - r - Window
    BY <1>2, <1>3, <1>4, <1>5
  <2>2. k * PageSize \in Int /\ k * PageSize + PageSize <= n + Window
    BY <1>1, <1>2, PageOrder
  <2> HIDE DEF n
  <2>3. k * PageSize >= n - Window + JmpLen
    BY <1>2, <1>3, <1>4, <1>6, <1>9, <2>1, <2>2
  <2> QED BY <1>7, <2>2, <2>3
<1>11. Disp("clock_gettime") = g + 0 - (n + JmpLen)
  <2>1. "clock_gettime" \in Hook /\ EntryOffset["clock_gettime"] = 0
    BY DEF EntryOffset, Hook
  <2> QED BY <2>1 DEF Disp, Near, g
<1> HIDE DEF n
<1>12. g + 0 - (n + JmpLen) \in -Window .. Window - 1
  BY <1>2, <1>3, <1>10
<1> QED
  BY <1>11, <1>12 DEF InReach

\* The page found can be reached from all three entries.
THEOREM ReachesAllHolds ==
    ASSUME KernelOrder
    PROVE  Spec => []ReachesAll
<1>1. SafeInv => ReachesAll
  BY ClockReaches, ReachFollows DEF SafeInv, ReachesAll
<1> QED
  BY <1>1, SafeAlways, PTL

(***************************************************************************)
(* One clock.                                                              *)
(***************************************************************************)
JumpsAgree == \A g, h \in Hook : jump[g] = jump[h]

\* Patching goes through the entries in order, and in a target that can be
\* patched only the first of them may be out of reach.
JumpInv ==
    /\ inj.ok => inj.pc = "rest" /\ \A h \in Hook : jump[h] = inj.gap
    /\ inj.pc \notin {"rest", "patch"} => inj.i = 1
    /\ inj.pc # "patch" \/ inj.i = 1 => target.brittle \/ JumpsAgree
    /\ inj.pc = "patch" /\ inj.i >= 2 => jump["clock_gettime"] = inj.gap /\ InReach("clock_gettime")
    /\ inj.pc = "patch" /\ inj.i = 3 => jump["gettimeofday"] = inj.gap

\* While no entry is patched, an injection leaves them as they are.
LEMMA JumpsStay ==
    ASSUME JumpInv, inj.pc # "patch", UNCHANGED <<target, jump>>, ~inj'.ok,
           inj'.pc # "rest" => inj'.i = 1
    PROVE  JumpInv'
<1>1. JumpsAgree' <=> JumpsAgree
  BY DEF JumpsAgree
<1> QED
  BY <1>1 DEF JumpInv

\* The locals of an injection that goes on to l.
LEMMA GotoLocals ==
    ASSUME TypeOK, NEW l, Goto(l)
    PROVE  inj'.ok = inj.ok /\ inj'.i = inj.i
BY DEF TypeOK, Injecting, Goto

\* The locals of an injection that finds a page.
LEMMA FoundLocals ==
    ASSUME TypeOK, NEW g, Found(g)
    PROVE  inj'.ok = inj.ok /\ inj'.i = inj.i
BY DEF TypeOK, Injecting, Found

\* The locals of an injection that reads on.
LEMMA LineLocals ==
    ASSUME TypeOK, NEW a, NEW b, inj' = [inj EXCEPT !.line = a, !.prev = b]
    PROVE  inj'.ok = inj.ok /\ inj'.i = inj.i
BY DEF TypeOK, Injecting

\* The locals of an injection that fails.
LEMMA FailedLocals ==
    ASSUME TypeOK, inj' = Failed
    PROVE  inj'.ok = FALSE /\ inj'.i = inj.i /\ inj'.gap = inj.gap /\ inj'.pc = "rest"
BY DEF TypeOK, Injecting, Failed

\* An injection that is not at its patches and neither begins nor ends leaves
\* the entries and the next of them alone.
LEMMA JumpBefore ==
    ASSUME TypeOK, JumpInv, Begin \/ FindNearbyGap \/ RemoteMmap \/ WritePayload
    PROVE  JumpInv'
<1> DEFINE Same == inj'.ok = inj.ok /\ inj'.i = inj.i
           Fails == inj'.ok = FALSE /\ inj'.pc = "rest"
           Kept == inj.pc \notin {"rest", "patch"} /\ UNCHANGED <<target, jump>>
<1>1. CASE Begin
  BY <1>1, JumpsStay DEF Begin
<1>2. CASE FindNearbyGap
  <2>1. Kept
    BY <1>2 DEF FindNearbyGap, SkipLine, ReadLine, ScanEnd
  <2>2. ASSUME NEW p \in Page, SkipLine(p) PROVE Same
    <3>1. inj' = [inj EXCEPT !.line = p + 1, !.prev = End(p)]
      BY <2>2 DEF SkipLine
    <3> QED BY <3>1, LineLocals
  <2>3. ASSUME NEW p \in Page, ReadLine(p) PROVE Same
    <3>1. Found(GapStart) \/ inj' = [inj EXCEPT !.line = p + 1, !.prev = Larger(@, End(p))]
      BY <2>3 DEF ReadLine
    <3>2. CASE inj' = [inj EXCEPT !.line = p + 1, !.prev = Larger(@, End(p))]
      <4>1. inj' = [inj EXCEPT !.line = p + 1, !.prev = Larger(inj.prev, End(p))]
        BY <3>2
      <4> QED BY <4>1, LineLocals
    <3> QED BY <3>1, <3>2, FoundLocals
  <2>4. ASSUME ScanEnd PROVE Same \/ Fails
    <3>1. Found(GapStart) \/ inj' = Failed
      BY <2>4 DEF ScanEnd
    <3> QED BY <3>1, FoundLocals, FailedLocals
  <2>5. Same \/ Fails
    BY <1>2, <2>2, <2>3, <2>4 DEF FindNearbyGap
  <2> QED BY <2>1, <2>5, JumpsStay DEF JumpInv
<1>3. CASE RemoteMmap
  <2>1. Kept
    BY <1>3 DEF RemoteMmap, Poke, PokeErr, MmapNoReplace, MmapFixed, MmapErr, Restore, Undo
  <2>2. \/ inj' = Failed
        \/ inj' = [inj EXCEPT !.pc = "noreplace", !.orig = scratch]
        \/ \E l \in {"noreplace", "fixed", "restore", "undo", "payload"} : Goto(l)
    <3>1. CASE Poke
      BY <3>1 DEF Poke
    <3>2. CASE PokeErr \/ Undo
      BY <3>2 DEF PokeErr, Undo
    <3>3. CASE MmapNoReplace
      BY <3>3 DEF MmapNoReplace
    <3>4. CASE MmapFixed
      BY <3>4 DEF MmapFixed
    <3>5. CASE MmapErr
      BY <3>5 DEF MmapErr
    <3>6. CASE Restore
      BY <3>6 DEF Restore
    <3> QED BY <1>3, <3>1, <3>2, <3>3, <3>4, <3>5, <3>6 DEF RemoteMmap
  <2>3. inj' = [inj EXCEPT !.pc = "noreplace", !.orig = scratch] => Same
    BY DEF TypeOK, Injecting
  <2>4. Same \/ Fails
    BY <2>2, <2>3, GotoLocals, FailedLocals
  <2> QED BY <2>1, <2>4, JumpsStay DEF JumpInv
<1>4. CASE WritePayload
  <2>1. Kept
    BY <1>4 DEF WritePayload
  <2>2. Goto("patch") \/ inj' = Failed
    BY <1>4 DEF WritePayload
  <2>3. Same \/ Fails
    BY <2>2, GotoLocals, FailedLocals
  <2> QED BY <2>1, <2>3, JumpsStay DEF JumpInv
<1> QED
  BY <1>1, <1>2, <1>3, <1>4

\* The patches.
LEMMA JumpPatch ==
    ASSUME KernelOrder, TypeOK, GapInv, JumpInv, Patch
    PROVE  JumpInv'
<1>1. /\ inj.pc = "patch" /\ InReach(Hooks[inj.i]) /\ jump' = [jump EXCEPT ![Hooks[inj.i]] = inj.gap]
      /\ inj' = IF inj.i = 3 THEN [inj EXCEPT !.pc = "rest", !.ok = TRUE] ELSE [inj EXCEPT !.i = @ + 1]
      /\ target' = target /\ layout' = layout
  BY DEF Patch
<1>2. inj \in Injecting /\ inj.i \in 1 .. 3 /\ jump \in [Hook -> Addr]
  BY DEF TypeOK, Injecting
<1>3. Hooks[1] = "clock_gettime" /\ Hooks[2] = "gettimeofday" /\ Hooks[3] = "time"
  BY DEF Hooks
<1>4. \A h \in Hook : jump'[h] = IF h = Hooks[inj.i] THEN inj.gap ELSE jump[h]
  BY <1>1, <1>2
<1>5. "clock_gettime" \in Hook /\ "gettimeofday" \in Hook /\ "time" \in Hook
  BY DEF Hook
<1>6. ~inj.ok
  BY <1>1 DEF JumpInv
<1>7. CASE inj.i = 3
  <2>1. inj'.pc = "rest" /\ inj'.gap = inj.gap
    BY <1>1, <1>2, <1>7 DEF Injecting
  <2>2. \A h \in Hook : jump'[h] = inj.gap
    BY <1>1, <1>3, <1>4, <1>5, <1>7 DEF JumpInv, Hook
  <2>3. JumpsAgree'
    BY <2>2 DEF JumpsAgree
  <2> QED BY <2>1, <2>2, <2>3 DEF JumpInv
<1>8. CASE inj.i # 3
  <2>1. inj' = [inj EXCEPT !.i = inj.i + 1] /\ inj.i + 1 \in 2 .. 3
    BY <1>1, <1>2, <1>8
  <2>2. inj'.pc = "patch" /\ inj'.gap = inj.gap /\ inj'.i = inj.i + 1 /\ inj'.ok = inj.ok
    BY <1>1, <1>2, <2>1 DEF Injecting
  <2>3. InReach("clock_gettime")' <=> InReach("clock_gettime")
    BY <1>1, <2>2 DEF InReach, Disp
  <2>4. jump'["clock_gettime"] = inj.gap /\ InReach("clock_gettime")
    <3>1. CASE inj.i = 1
      BY <1>1, <1>3, <1>4, <1>5, <3>1
    <3>2. CASE inj.i = 2
      BY <1>1, <1>3, <1>4, <1>5, <3>2 DEF JumpInv
    <3> QED BY <1>2, <1>8, <3>1, <3>2
  <2>5. inj.i = 2 => jump'["gettimeofday"] = inj.gap
    BY <1>3, <1>4, <1>5
  <2> QED BY <1>2, <1>6, <2>1, <2>2, <2>3, <2>4, <2>5 DEF JumpInv
<1> QED
  BY <1>7, <1>8

\* A patch that fails is the first, unless the target is brittle.
LEMMA JumpPatchErr ==
    ASSUME KernelOrder, TypeOK, GapInv, JumpInv, PatchErr
    PROVE  JumpInv'
<1>1. /\ inj.pc = "patch" /\ inj' = Failed /\ UNCHANGED <<target, jump>>
      /\ ~InReach(Hooks[inj.i]) \/ target.brittle
  BY DEF PatchErr
<1>2. inj'.ok = FALSE /\ inj'.pc = "rest" /\ inj.i \in 1 .. 3
  BY <1>1, FailedLocals DEF TypeOK, Injecting
<1>3. Hooks[inj.i] \in Hook
  BY <1>2 DEF Hooks, Hook
<1>4. ~target.brittle => JumpsAgree
  <2>1. CASE inj.i = 1
    BY <2>1 DEF JumpInv
  <2>2. CASE inj.i >= 2
    BY <1>1, <1>3, <2>2, ReachFollows DEF JumpInv
  <2> QED BY <1>2, <2>1, <2>2
<1>5. JumpsAgree' <=> JumpsAgree
  BY <1>1 DEF JumpsAgree
<1> QED
  BY <1>1, <1>2, <1>4, <1>5 DEF JumpInv

\* The program maps a page, or nothing happens.
LEMMA JumpOther ==
    ASSUME JumpInv, UNCHANGED <<target, layout, jump, inj>>
    PROVE  JumpInv'
BY DEF JumpInv, JumpsAgree, InReach, Disp

\* After an injection that succeeded the three entries lead to its page, and a
\* failed one leaves them in agreement, in a target that can be patched.
THEOREM OneClockHolds ==
    ASSUME KernelOrder
    PROVE  Spec => []OneClock
<1>1. Init => JumpInv
  BY DEF Init, JumpInv, JumpsAgree
<1>2. ASSUME SafeInv, JumpInv, [Next]_vars PROVE JumpInv'
  <2>1. CASE UNCHANGED vars \/ \E p \in Page : AppMap(p)
    BY <1>2, <2>1, JumpOther DEF vars, AppMap
  <2> QED BY <1>2, <2>1, JumpBefore, JumpPatch, JumpPatchErr DEF Next, SafeInv
<1>3. JumpInv => OneClock
  BY DEF JumpInv, OneClock, JumpsAgree
<1> QED
  BY <1>1, <1>2, <1>3, SafeAlways, PTL DEF Spec
=============================================================================
