------------------------- MODULE RestartTimerProofs -------------------------
(***************************************************************************)
(* What RestartTimer keeps for any number of applications, any policies    *)
(* and any delays: the timeout of poll, the backoffs, the bound on the     *)
(* restarts and the uptimes.  The first part is about delay_for alone: it  *)
(* proves by induction what the recursive definitions compute, with the    *)
(* least number of a set in the place of an induction scheme.              *)
(***************************************************************************)
EXTENDS RestartTimer, WellFoundedInduction, SequenceTheorems, TLAPS

-----------------------------------------------------------------------------
(* Numbers *)

(* A set of natural numbers that is not empty has a least one. *)
LEMMA LeastNatural ==
    ASSUME NEW T \in SUBSET Nat, T # {}
    PROVE  \E x \in T : \A y \in T : x <= y
<1>1. PICK R : R = OpToRel(<, Nat)
  OBVIOUS
<1>2. IsWellFoundedOn(R, Nat)
  BY <1>1, NatLessThanWellFounded
<1>3. PICK x \in T : \A y \in T : ~(<<y, x>> \in R)
  BY <1>2, WFMin
<1>4. R = {ss \in Nat \X Nat : ss[1] < ss[2]}
  BY <1>1 DEF OpToRel
<1>5. ASSUME NEW y \in T PROVE x <= y
  <2>1. y < x => <<y, x>> \in R
    BY <1>4
  <2> QED
    BY <1>3, <2>1
<1> QED
  BY <1>3, <1>5

(* Induction: a set with 0 and with the successor of each of its members has
   all the natural numbers. *)
LEMMA InductiveSet ==
    ASSUME NEW S, 0 \in S, \A n \in Nat : n \in S => n + 1 \in S
    PROVE  \A n \in Nat : n \in S
<1> SUFFICES ASSUME NEW n \in Nat, n \notin S PROVE FALSE
  OBVIOUS
<1>1. PICK T : T = {k \in Nat : k \notin S}
  OBVIOUS
<1>2. T \in SUBSET Nat /\ T # {}
  BY <1>1
<1>3. PICK x \in T : \A y \in T : x <= y
  BY <1>2, LeastNatural
<1>4. x \in Nat /\ x # 0 /\ x \notin S
  BY <1>1
<1>5. x - 1 \in Nat /\ x - 1 \notin T
  BY <1>3, <1>4
<1>6. x - 1 \in S
  BY <1>1, <1>5
<1>7. (x - 1) + 1 \in S
  BY <1>5, <1>6
<1> QED
  BY <1>4, <1>7

(* The largest member of a set of integers is its maximum. *)
LEMMA MaxIs ==
    ASSUME NEW S \in SUBSET Int, NEW m \in S, \A y \in S : y <= m
    PROVE  Max(S) = m
<1>1. \E x \in S : \A y \in S : x >= y
  OBVIOUS
<1>2. Max(S) \in S /\ \A y \in S : Max(S) >= y
  BY <1>1, Zenon DEF Max
<1>3. PICK x : x = Max(S)
  OBVIOUS
<1>4. x \in Int /\ m \in Int /\ x <= m /\ x >= m
  BY <1>2, <1>3
<1>5. x = m
  BY <1>4
<1> QED
  BY <1>3, <1>5

(* The minimum of a set of natural numbers that is not empty. *)
LEMMA MinIs ==
    ASSUME NEW S \in SUBSET Nat, S # {}
    PROVE  Min(S) \in S /\ \A y \in S : Min(S) <= y
<1>1. \E x \in S : \A y \in S : x <= y
  BY LeastNatural
<1> QED
  BY <1>1, Zenon DEF Min

(* A function of integers can be iterated any number of times. *)
LEMMA Iterates ==
    ASSUME NEW g \in [Int -> Int], NEW c \in Int, NEW k \in Nat
    PROVE  \E f \in [0..k -> Int] :
              f[0] = c /\ \A i \in 1..k : f[i] = g[f[i - 1]]
<1>1. PICK S : S = {n \in Nat : \E f \in [0..n -> Int] :
                       f[0] = c /\ \A i \in 1..n : f[i] = g[f[i - 1]]}
  OBVIOUS
<1>2. 0 \in S
  <2>1. PICK f : f = [i \in 0..0 |-> c]
    OBVIOUS
  <2>2. f \in [0..0 -> Int] /\ f[0] = c /\ \A i \in 1..0 : f[i] = g[f[i - 1]]
    BY <2>1
  <2>3. \E h \in [0..0 -> Int] : h[0] = c /\ \A i \in 1..0 : h[i] = g[h[i - 1]]
    BY <2>2, Zenon
  <2> QED
    BY <1>1, <2>3
<1>3. ASSUME NEW n \in Nat, n \in S PROVE n + 1 \in S
  <2>1. PICK f \in [0..n -> Int] :
           f[0] = c /\ \A i \in 1..n : f[i] = g[f[i - 1]]
    BY <1>1, <1>3
  <2>2. PICK h : h = [i \in 0..(n + 1) |-> IF i = n + 1 THEN g[f[n]] ELSE f[i]]
    OBVIOUS
  <2>3. h \in [0..(n + 1) -> Int] /\ h[0] = c
    BY <2>1, <2>2
  <2>4. ASSUME NEW i \in 1..(n + 1) PROVE h[i] = g[h[i - 1]]
    <3>1. h[i - 1] = f[i - 1]
      BY <2>2
    <3>2. CASE i = n + 1
      BY <2>2, <3>1, <3>2
    <3>3. CASE i # n + 1
      BY <2>1, <2>2, <3>1, <3>3
    <3> QED
      BY <3>2, <3>3
  <2>5. \E ff \in [0..(n + 1) -> Int] :
           ff[0] = c /\ \A i \in 1..(n + 1) : ff[i] = g[ff[i - 1]]
    BY <2>3, <2>4, Zenon
  <2>6. n + 1 \in Nat
    OBVIOUS
  <2> QED
    BY <1>1, <2>5, <2>6, Zenon
<1>4. k \in S
  BY <1>2, <1>3, InductiveSet
<1> QED
  BY <1>1, <1>4
-----------------------------------------------------------------------------
(* delay_for *)

(* Rounding gives a number again. *)
LEMMA RoundedType == \A x \in Int : Rounded(x) \in Int
BY FloatMaxAssumption DEF Rounded, Infinity

(* powi multiplies step by step, and rounds at each. *)
LEMMA PowiIterates ==
    ASSUME NEW m \in Int, NEW k \in Nat
    PROVE  \E p \in [0..k -> Int] :
              /\ p[0] = 1 /\ \A i \in 1..k : p[i] = Rounded(m * p[i - 1])
              /\ Powi(m, k) = p[k]
<1>1. PICK g : g = [x \in Int |-> Rounded(m * x)]
  OBVIOUS
<1>2. g \in [Int -> Int] /\ 1 \in Int
  BY <1>1, RoundedType
<1>3. PICK p \in [0..k -> Int] : p[0] = 1 /\ \A i \in 1..k : p[i] = g[p[i - 1]]
  BY <1>2, Iterates
<1>4. ASSUME NEW i \in 1..k PROVE p[i] = Rounded(m * p[i - 1])
  <2>1. p[i - 1] \in Int
    OBVIOUS
  <2> QED
    BY <1>1, <1>3, <2>1
<1>5. p = [i \in 0..k |-> IF i = 0 THEN 1 ELSE Rounded(m * p[i - 1])]
  <2>1. ASSUME NEW i \in 0..k
        PROVE  p[i] = IF i = 0 THEN 1 ELSE Rounded(m * p[i - 1])
    BY <1>3, <1>4
  <2> QED
    BY <2>1
<1>6. PICK q : q = CHOOSE f : f = [i \in 0..k |-> IF i = 0 THEN 1 ELSE Rounded(m * f[i - 1])]
  OBVIOUS
<1>7. q = [i \in 0..k |-> IF i = 0 THEN 1 ELSE Rounded(m * q[i - 1])]
  BY <1>5, <1>6, Zenon
<1>8. Powi(m, k) = q[k]
  BY <1>6, Zenon DEF Powi
<1>9. PICK S : S = {n \in Nat : n <= k => q[n] = p[n]}
  OBVIOUS
<1>10. 0 \in S
  BY <1>3, <1>7, <1>9
<1>11. ASSUME NEW n \in Nat, n \in S PROVE n + 1 \in S
  <2> SUFFICES ASSUME n + 1 <= k PROVE q[n + 1] = p[n + 1]
    BY <1>9
  <2>1. q[n] = p[n] /\ n + 1 \in 1..k /\ (n + 1) - 1 = n
    BY <1>9, <1>11
  <2>2. q[n + 1] = Rounded(m * q[n])
    BY <1>7, <2>1
  <2>3. p[n + 1] = Rounded(m * p[n])
    BY <1>4, <2>1
  <2> QED
    BY <2>1, <2>2, <2>3
<1>12. k \in S
  BY <1>10, <1>11, InductiveSet
<1>13. q[k] = p[k]
  BY <1>9, <1>12
<1> QED
  BY <1>3, <1>4, <1>8, <1>13
Backoffs ==
    [strategy : {"exponential_backoff"}, initial_delay_ms : Nat,
     max_delay_ms : 0..FloatMax, multiplier : Int]

Capped(s, ms) == IF ms > s.max_delay_ms THEN s.max_delay_ms ELSE ms

(* The delay that is expected is multiplied and capped step by step. *)
LEMMA ExpectedIterates ==
    ASSUME NEW s \in Backoffs, NEW n \in Nat \ {0}
    PROVE  \E d \in [1..n -> Int] :
              /\ d[1] = Capped(s, s.initial_delay_ms)
              /\ \A i \in 2..n : d[i] = Capped(s, s.multiplier * d[i - 1])
              /\ ExpectedDelay(s, n) = d[n]
<1>1. PICK g : g = [x \in Int |-> Capped(s, s.multiplier * x)]
  OBVIOUS
<1>2. /\ s.initial_delay_ms \in Int /\ s.max_delay_ms \in Int /\ s.multiplier \in Int
      /\ \A x \in Int : s.multiplier * x \in Int
  BY DEF Backoffs
<1>3. \A x \in Int : Capped(s, x) \in Int
  BY <1>2 DEF Capped
<1>4. g \in [Int -> Int] /\ n - 1 \in Nat
  BY <1>1, <1>2, <1>3
<1>5. PICK c \in Int : c = Capped(s, s.initial_delay_ms)
  BY <1>2, <1>3
<1>6. PICK f \in [0..(n - 1) -> Int] :
         f[0] = c /\ \A i \in 1..(n - 1) : f[i] = g[f[i - 1]]
  BY <1>4, <1>5, Iterates, ZenonT(60)
<1>7. PICK p : p = [i \in 1..n |-> f[i - 1]]
  OBVIOUS
<1>8. p \in [1..n -> Int] /\ p[1] = c
  BY <1>6, <1>7
<1>9. ASSUME NEW i \in 2..n PROVE p[i] = Capped(s, s.multiplier * p[i - 1])
  <2>1. p[i] = f[i - 1] /\ p[i - 1] = f[(i - 1) - 1] /\ i - 1 \in 1..(n - 1)
    BY <1>7
  <2>2. f[i - 1] = g[f[(i - 1) - 1]] /\ f[(i - 1) - 1] \in Int
    BY <1>6, <2>1
  <2> QED
    BY <1>1, <2>1, <2>2
<1>10. p = [i \in 1..n |-> IF i = 1 THEN Capped(s, s.initial_delay_ms)
                          ELSE Capped(s, s.multiplier * p[i - 1])]
  <2>1. ASSUME NEW i \in 1..n
        PROVE  p[i] = IF i = 1 THEN Capped(s, s.initial_delay_ms)
                      ELSE Capped(s, s.multiplier * p[i - 1])
    BY <1>5, <1>8, <1>9
  <2> QED
    BY <1>8, <2>1
<1>11. PICK q : q = CHOOSE h : h = [i \in 1..n |->
                        IF i = 1 THEN Capped(s, s.initial_delay_ms)
                        ELSE Capped(s, s.multiplier * h[i - 1])]
  OBVIOUS
<1>12. q = [i \in 1..n |-> IF i = 1 THEN Capped(s, s.initial_delay_ms)
                          ELSE Capped(s, s.multiplier * q[i - 1])]
  BY <1>10, <1>11, Zenon
<1>13. ExpectedDelay(s, n) = q[n]
  BY <1>11, Zenon DEF ExpectedDelay, Capped
<1>14. PICK S : S = {k \in Nat : k + 1 <= n => q[k + 1] = p[k + 1]}
  OBVIOUS
<1>15. 0 \in S
  <2>1. q[1] = p[1]
    BY <1>5, <1>8, <1>12
  <2> QED
    BY <1>14, <2>1
<1>16. ASSUME NEW k \in Nat, k \in S PROVE k + 1 \in S
  <2> SUFFICES ASSUME (k + 1) + 1 <= n PROVE q[(k + 1) + 1] = p[(k + 1) + 1]
    BY <1>14
  <2>1. PICK j : j = (k + 1) + 1
    OBVIOUS
  <2>2. j \in 2..n /\ j - 1 = k + 1 /\ q[k + 1] = p[k + 1]
    BY <1>14, <1>16, <2>1
  <2>3. q[j] = Capped(s, s.multiplier * q[j - 1])
    BY <1>12, <2>2
  <2>4. p[j] = Capped(s, s.multiplier * p[j - 1])
    BY <1>9, <2>2
  <2> QED
    BY <2>1, <2>2, <2>3, <2>4
<1>17. n - 1 \in S
  BY <1>4, <1>15, <1>16, InductiveSet
<1>18. q[n] = p[n]
  BY <1>14, <1>17
<1> QED
  BY <1>5, <1>8, <1>9, <1>13, <1>18

(* Capping what is rounded is capping: the maximum is below the largest float. *)
LEMMA CapRounded ==
    ASSUME NEW s \in Backoffs, NEW x \in Nat
    PROVE  Capped(s, Rounded(x)) = Capped(s, x)
<1>1. s.max_delay_ms \in 0..FloatMax
  BY DEF Backoffs
<1> QED
  BY <1>1, FloatMaxAssumption DEF Capped, Rounded, Infinity

(* A product with a positive number is no less. *)
LEMMA TimesGrows ==
    ASSUME NEW m \in Nat \ {0}, NEW x \in Nat
    PROVE  m * x \in Nat /\ m * x >= x
OBVIOUS

(* Capping before a multiplication makes no difference after it. *)
LEMMA CapTimes ==
    ASSUME NEW s \in Backoffs, NEW m \in Nat, NEW x \in Nat
    PROVE  Capped(s, m * Capped(s, x)) = Capped(s, m * x)
<1>1. PICK M \in Nat : M = s.max_delay_ms
  BY FloatMaxAssumption DEF Backoffs
<1>2. CASE x <= M
  BY <1>1, <1>2 DEF Capped
<1>3. CASE x > M /\ m = 0
  <2>1. m * x = 0 /\ m * M = 0
    BY <1>3
  <2>2. Capped(s, x) = M
    BY <1>1, <1>3 DEF Capped
  <2> QED
    BY <2>1, <2>2
<1>4. CASE x > M /\ m # 0
  <2>1. m * x \in Nat /\ m * x >= x /\ m * M \in Nat /\ m * M >= M
    BY <1>4, TimesGrows
  <2>2. Capped(s, x) = M
    BY <1>1, <1>4 DEF Capped
  <2>3. Capped(s, m * x) = M /\ Capped(s, m * M) = M
    BY <1>1, <1>4, <2>1 DEF Capped
  <2> QED
    BY <2>2, <2>3
<1> QED
  BY <1>1, <1>2, <1>3, <1>4

(* Nor does rounding the factor, when it is multiplied by a positive number. *)
LEMMA CapRoundedFactor ==
    ASSUME NEW s \in Backoffs, NEW i \in Nat \ {0}, NEW x \in Nat
    PROVE  Capped(s, i * Rounded(x)) = Capped(s, i * x)
<1>1. PICK M \in 0..FloatMax : M = s.max_delay_ms
  BY DEF Backoffs
<1>2. CASE x <= FloatMax
  BY <1>2, FloatMaxAssumption DEF Rounded
<1>3. CASE x > FloatMax
  <2>1. Rounded(x) = FloatMax + 1 /\ FloatMax + 1 \in Nat
    BY <1>3, FloatMaxAssumption DEF Rounded, Infinity
  <2>2. /\ i * x \in Nat /\ i * x >= x
        /\ i * (FloatMax + 1) \in Nat /\ i * (FloatMax + 1) >= FloatMax + 1
    BY <2>1, TimesGrows
  <2>3. Capped(s, i * x) = M
    BY <1>1, <1>3, <2>2, FloatMaxAssumption DEF Capped
  <2>4. Capped(s, i * (FloatMax + 1)) = M
    BY <1>1, <2>2, FloatMaxAssumption DEF Capped
  <2> QED
    BY <2>1, <2>3, <2>4
<1> QED
  BY <1>2, <1>3, FloatMaxAssumption
(* The exponential strategy, by the power that delay_for computes. *)
LEMMA BackoffIs ==
    ASSUME NEW s \in Backoffs, NEW n \in Nat \ {0}
    PROVE  /\ Powi(s.multiplier, n - 1) \in Int
           /\ Scaled(s, Powi(s.multiplier, n - 1)) \in Int
           /\ Scaled(s, Powi(s.multiplier, n - 1)) <= s.max_delay_ms
           /\ DelayFor(s, n) = IF Scaled(s, Powi(s.multiplier, n - 1)) < 0 THEN 0
                               ELSE Scaled(s, Powi(s.multiplier, n - 1))
<1>1. /\ s.multiplier \in Int /\ n - 1 \in Nat /\ s.initial_delay_ms \in Int
      /\ s.max_delay_ms \in Int /\ s.strategy = "exponential_backoff"
  BY FloatMaxAssumption DEF Backoffs
<1>2. PICK x \in Int : x = Powi(s.multiplier, n - 1)
  <2>1. PICK k \in Nat : k = n - 1
    BY <1>1
  <2>2. PICK p \in [0..k -> Int] : Powi(s.multiplier, k) = p[k]
    BY <1>1, PowiIterates
  <2>3. p[k] \in Int
    OBVIOUS
  <2> QED
    BY <2>1, <2>2, <2>3
<1>3. PICK ms \in Int : ms = Rounded(s.initial_delay_ms * x)
  <2>1. s.initial_delay_ms * x \in Int
    BY <1>1
  <2> QED
    BY <2>1, RoundedType
<1>4. Scaled(s, x) \in Int /\ Scaled(s, x) <= s.max_delay_ms
  <2>1. Scaled(s, x) = s.max_delay_ms
        \/ (Scaled(s, x) = ms /\ ~(ms > s.max_delay_ms))
    BY <1>3 DEF Scaled
  <2> QED
    BY <1>1, <2>1
<1>5. DelayFor(s, n) = IF Scaled(s, Powi(s.multiplier, n - 1)) < 0 THEN 0
                       ELSE Scaled(s, Powi(s.multiplier, n - 1))
  BY <1>1, Zenon DEF DelayFor
<1> QED
  BY <1>2, <1>4, <1>5

(* delay_for: no backoff waits longer than its maximum, whatever its first
   delay, its multiplier and the attempt are, also where the power overflows,
   is not a number or is negative. *)
THEOREM BackoffWithinMaximum ==
    ASSUME NEW s \in Backoffs, NEW n \in Nat \ {0}
    PROVE  DelayFor(s, n) \in 0..s.max_delay_ms
<1>1. s.max_delay_ms \in Nat
  BY FloatMaxAssumption DEF Backoffs
<1>2. PICK y : y = Scaled(s, Powi(s.multiplier, n - 1))
  OBVIOUS
<1>3. y \in Int /\ y <= s.max_delay_ms /\ DelayFor(s, n) = IF y < 0 THEN 0 ELSE y
  BY <1>2, BackoffIs
<1> QED
  BY <1>1, <1>3

(* Every delay is a number of milliseconds. *)
LEMMA DelayType ==
    ASSUME NEW s \in RestartDelays, NEW n \in Nat \ {0}
    PROVE  DelayFor(s, n) \in Nat
<1>1. CASE s \in Backoffs
  <2>1. s.max_delay_ms \in Nat
    BY <1>1, FloatMaxAssumption DEF Backoffs
  <2> QED
    BY <1>1, <2>1, BackoffWithinMaximum
<1>2. CASE s \in [strategy : {"never"}]
  <2>1. s.strategy = "never"
    BY <1>2
  <2>2. DelayFor(s, n) = 0
    BY <2>1, Zenon DEF DelayFor
  <2> QED
    BY <2>2
<1>3. CASE s \in [strategy : {"constant"}, delay_ms : Nat]
  <2>1. s.strategy = "constant" /\ s.strategy # "never" /\ s.delay_ms \in Nat
    BY <1>3
  <2>2. DelayFor(s, n) = s.delay_ms
    BY <2>1, Zenon DEF DelayFor
  <2> QED
    BY <2>1, <2>2
<1> QED
  BY <1>1, <1>2, <1>3 DEF RestartDelays, Backoffs

(* delay_for computes the delay a user expects, the first one multiplied and
   capped again and again, though it caps only in the end and its powers
   overflow on the way. *)
THEOREM BackoffAsExpected ==
    ASSUME NEW s \in Backoffs, NEW n \in Nat \ {0},
           s.multiplier >= 0, s.initial_delay_ms > 0
    PROVE  DelayFor(s, n) = ExpectedDelay(s, n)
<1>1. PICK m \in Nat : m = s.multiplier
  BY DEF Backoffs
<1>2. PICK init \in Nat \ {0} : init = s.initial_delay_ms
  BY DEF Backoffs
<1>3. PICK p \in [0..(n - 1) -> Int] :
         /\ p[0] = 1 /\ \A i \in 1..(n - 1) : p[i] = Rounded(m * p[i - 1])
         /\ Powi(m, n - 1) = p[n - 1]
  <2>1. m \in Int /\ n - 1 \in Nat
    OBVIOUS
  <2> QED
    BY <2>1, PowiIterates
<1>4. PICK d \in [1..n -> Int] :
         /\ d[1] = Capped(s, init)
         /\ \A i \in 2..n : d[i] = Capped(s, m * d[i - 1])
         /\ ExpectedDelay(s, n) = d[n]
  BY <1>1, <1>2, ExpectedIterates, ZenonT(60)
<1>5. PICK S : S = {k \in Nat : k + 1 <= n =>
                       p[k] \in Nat /\ d[k + 1] = Capped(s, init * p[k])}
  OBVIOUS
<1>6. 0 \in S
  <2>1. init * p[0] = init /\ p[0] \in Nat
    BY <1>2, <1>3
  <2> QED
    BY <1>4, <1>5, <2>1
<1>7. ASSUME NEW k \in Nat, k \in S PROVE k + 1 \in S
  <2> SUFFICES ASSUME (k + 1) + 1 <= n
               PROVE  p[k + 1] \in Nat /\ d[(k + 1) + 1] = Capped(s, init * p[k + 1])
    BY <1>5
  <2>1. /\ k + 1 <= n /\ k + 1 \in 1..(n - 1) /\ (k + 1) + 1 \in 2..n
        /\ ((k + 1) + 1) - 1 = k + 1 /\ (k + 1) - 1 = k
    BY <1>7
  <2>2. PICK x \in Nat : x = p[k]
    BY <1>5, <1>7, <2>1
  <2>3. d[k + 1] = Capped(s, init * x)
    BY <1>5, <1>7, <2>1, <2>2
  <2>4. p[k + 1] = Rounded(m * x)
    BY <1>3, <2>1, <2>2
  <2>5. d[(k + 1) + 1] = Capped(s, m * d[k + 1])
    BY <1>4, <2>1
  <2>6. init * x \in Nat /\ m * x \in Nat
    OBVIOUS
  <2>7. Rounded(m * x) \in Nat
    BY <2>6, FloatMaxAssumption DEF Rounded, Infinity
  <2>8. Capped(s, m * Capped(s, init * x)) = Capped(s, m * (init * x))
    BY <2>6, CapTimes
  <2>9. Capped(s, init * Rounded(m * x)) = Capped(s, init * (m * x))
    BY <2>6, CapRoundedFactor
  <2>10. m * (init * x) = init * (m * x)
    OBVIOUS
  <2> QED
    BY <2>3, <2>4, <2>5, <2>7, <2>8, <2>9, <2>10
<1>8. n - 1 \in Nat /\ (n - 1) + 1 = n
  OBVIOUS
<1>9. n - 1 \in S
  BY <1>6, <1>7, <1>8, InductiveSet
<1>10. PICK x \in Nat : x = p[n - 1]
  BY <1>5, <1>8, <1>9
<1>11. d[n] = Capped(s, init * x)
  BY <1>5, <1>8, <1>9, <1>10
<1>12. PICK ms \in Nat : ms = init * x
  OBVIOUS
<1>13. Rounded(ms) \in Nat /\ s.max_delay_ms \in Nat
  BY FloatMaxAssumption DEF Rounded, Infinity, Backoffs
<1>14. Scaled(s, x) = Capped(s, Rounded(ms))
  BY <1>2, <1>12 DEF Scaled, Capped
<1>15. Capped(s, ms) \in Nat
  BY <1>13 DEF Capped
<1>16. Scaled(s, x) = Capped(s, ms)
  BY <1>14, CapRounded
<1>17. DelayFor(s, n) = IF Scaled(s, x) < 0 THEN 0 ELSE Scaled(s, x)
  BY <1>1, <1>3, <1>10, BackoffIs
<1> QED
  BY <1>4, <1>11, <1>12, <1>15, <1>16, <1>17
-----------------------------------------------------------------------------
(* Failures in a row *)

Outcomes == [ok : BOOLEAN, long : BOOLEAN]

(* The lengths of the rows of failures that rs ends with. *)
Rows(rs) ==
    {k \in 0..Len(rs) : \A i \in (Len(rs) - k + 1)..Len(rs) :
        /\ ~rs[i].ok
        /\ i > Len(rs) - k + 1 => ~rs[i].long}

IsRow(rs, c) == c \in Rows(rs) /\ \A k \in Rows(rs) : k <= c

(* A longest row is what the property Row asks for. *)
LEMMA RowIs ==
    ASSUME NEW a, runs[a] \in Seq(Outcomes), NEW c, IsRow(runs[a], c)
    PROVE  Row(a) = c
<1>1. Rows(runs[a]) \in SUBSET Int
  BY DEF Rows
<1>2. Row(a) = Max(Rows(runs[a]))
  BY Zenon DEF Row, Rows
<1> QED
  BY <1>1, <1>2, MaxIs DEF IsRow

(* A row before the last run, and the last run. *)
LEMMA RowOfAppend ==
    ASSUME NEW rs \in Seq(Outcomes), NEW r \in Outcomes, NEW k \in Nat \ {0}
    PROVE  k \in Rows(Append(rs, r)) <=>
              ~r.ok /\ k - 1 \in Rows(rs) /\ (k > 1 => ~r.long)
<1>1. PICK t : t = Append(rs, r)
  OBVIOUS
<1>2. PICK n \in Nat : n = Len(rs)
  BY LenProperties
<1>3. Len(t) = n + 1 /\ t[n + 1] = r /\ \A i \in 1..n : t[i] = rs[i]
  BY <1>1, <1>2, AppendProperties
<1>4. ASSUME k \in Rows(t) PROVE ~r.ok /\ k - 1 \in Rows(rs) /\ (k > 1 => ~r.long)
  <2>1. /\ k \in 0..(n + 1)
        /\ \A i \in ((n + 1) - k + 1)..(n + 1) :
              ~t[i].ok /\ (i > (n + 1) - k + 1 => ~t[i].long)
    BY <1>3, <1>4 DEF Rows
  <2>2. n + 1 \in ((n + 1) - k + 1)..(n + 1) /\ (k > 1 => n + 1 > (n + 1) - k + 1)
    BY <2>1
  <2>3. ~r.ok /\ (k > 1 => ~r.long)
    BY <1>3, <2>1, <2>2
  <2>4. ASSUME NEW i \in (n - (k - 1) + 1)..n
        PROVE  ~rs[i].ok /\ (i > n - (k - 1) + 1 => ~rs[i].long)
    <3>1. i \in 1..n /\ i \in ((n + 1) - k + 1)..(n + 1)
      BY <2>1
    <3>2. n - (k - 1) + 1 = (n + 1) - k + 1
      OBVIOUS
    <3> QED
      BY <1>3, <2>1, <3>1, <3>2
  <2>5. k - 1 \in 0..n
    BY <2>1
  <2> QED
    BY <1>2, <2>3, <2>4, <2>5 DEF Rows
<1>5. ASSUME ~r.ok, k - 1 \in Rows(rs), k > 1 => ~r.long PROVE k \in Rows(t)
  <2>1. /\ k - 1 \in 0..n
        /\ \A i \in (n - (k - 1) + 1)..n :
              ~rs[i].ok /\ (i > n - (k - 1) + 1 => ~rs[i].long)
    BY <1>2, <1>5 DEF Rows
  <2>2. ASSUME NEW i \in ((n + 1) - k + 1)..(n + 1)
        PROVE  ~t[i].ok /\ (i > (n + 1) - k + 1 => ~t[i].long)
    <3>1. CASE i = n + 1
      BY <1>3, <1>5, <3>1
    <3>2. CASE i # n + 1
      <4>1. i \in 1..n /\ i \in (n - (k - 1) + 1)..n
        BY <2>1, <3>2
      <4>2. n - (k - 1) + 1 = (n + 1) - k + 1
        OBVIOUS
      <4> QED
        BY <1>3, <2>1, <4>1, <4>2
    <3> QED
      BY <3>1, <3>2
  <2>3. k \in 0..(n + 1)
    BY <2>1
  <2> QED
    BY <1>3, <2>2, <2>3 DEF Rows
<1> QED
  BY <1>1, <1>4, <1>5

(* The count that schedule_restart keeps is the length of the longest row. *)
LEMMA RowKept ==
    ASSUME NEW rs \in Seq(Outcomes), NEW r \in Outcomes, NEW c \in Nat, IsRow(rs, c)
    PROVE  /\ NextFailures(c, r.ok, r.long) \in Nat
           /\ IsRow(Append(rs, r), NextFailures(c, r.ok, r.long))
<1>1. PICK t : t = Append(rs, r)
  OBVIOUS
<1>2. t \in Seq(Outcomes) /\ Len(t) \in Nat
  BY <1>1, AppendProperties, LenProperties
<1>3. 0 \in Rows(t) /\ 0 \in Rows(rs) /\ Rows(t) \in SUBSET Nat
  BY <1>2, LenProperties DEF Rows
<1>4. c \in Rows(rs) /\ \A k \in Rows(rs) : k <= c
  BY DEF IsRow
<1>5. \A k \in Nat \ {0} : k \in Rows(t) <=>
         ~r.ok /\ k - 1 \in Rows(rs) /\ (k > 1 => ~r.long)
  BY <1>1, RowOfAppend
<1>6. CASE r.ok
  <2>1. NextFailures(c, r.ok, r.long) = 0
    BY <1>6 DEF NextFailures
  <2>2. ASSUME NEW k \in Rows(t) PROVE k <= 0
    BY <1>3, <1>5, <1>6
  <2> QED
    BY <1>1, <1>3, <2>1, <2>2 DEF IsRow
<1>7. CASE ~r.ok /\ r.long
  <2>1. NextFailures(c, r.ok, r.long) = 1
    BY <1>7 DEF NextFailures
  <2>2. 1 \in Rows(t)
    <3>1. 1 \in Nat \ {0} /\ 1 - 1 = 0 /\ ~(1 > 1)
      OBVIOUS
    <3> QED
      BY <1>3, <1>5, <1>7, <3>1
  <2>3. ASSUME NEW k \in Rows(t) PROVE k <= 1
    BY <1>3, <1>5, <1>7
  <2> QED
    BY <1>1, <2>1, <2>2, <2>3 DEF IsRow
<1>8. CASE ~r.ok /\ ~r.long
  <2>1. NextFailures(c, r.ok, r.long) = c + 1
    BY <1>8 DEF NextFailures
  <2>2. c + 1 \in Rows(t)
    <3>1. c + 1 \in Nat \ {0} /\ (c + 1) - 1 = c
      OBVIOUS
    <3> QED
      BY <1>4, <1>5, <1>8, <3>1
  <2>3. ASSUME NEW k \in Rows(t) PROVE k <= c + 1
    <3>1. CASE k = 0
      BY <3>1
    <3>2. CASE k # 0
      <4>1. k \in Nat \ {0}
        BY <1>3, <3>2
      <4>2. k - 1 <= c
        BY <1>4, <1>5, <4>1
      <4> QED
        BY <4>1, <4>2
    <3> QED
      BY <3>1, <3>2
  <2> QED
    BY <1>1, <2>1, <2>2, <2>3 DEF IsRow
<1> QED
  BY <1>6, <1>7, <1>8
-----------------------------------------------------------------------------
(* The invariant *)

AppValues ==
    [running : BOOLEAN, deadline : Nat \cup {NoDeadline}, stop_requested : BOOLEAN,
     consecutive_failures : Nat, started_at : Nat, total_uptime : Nat]

TimerTypes ==
    /\ policy \in [Apps -> TimedPolicies] /\ now \in Nat
    /\ app \in [Apps -> AppValues]
    /\ child \in [Apps -> {"none", "live", "ok", "err"}]
    /\ pc \in {"wait", "events", "restart"} /\ wake \in Nat
    /\ batch \in SUBSET Apps /\ next \in Nat /\ seen \in Nat
    /\ runs \in [Apps -> Seq(Outcomes)] /\ since \in [Apps -> Nat]

(* An application runs as long as it has a process, and waits for nothing
   then. *)
RunsWithProcess(a) ==
    /\ app[a].running <=> child[a] # "none"
    /\ Pending(a) => ~app[a].running

(* No run is counted before it ends, nor once more when the next has begun. *)
Uptime(a) ==
    IF app[a].running
    THEN app[a].total_uptime <= app[a].started_at /\ app[a].started_at <= now
    ELSE app[a].total_uptime <= now

(* The failures are counted as they happened, and a pending restart is delayed
   and allowed by what the last run was. *)
Counted(a) == IsRow(runs[a], app[a].consecutive_failures)

Due(a) ==
    Pending(a) =>
       /\ runs[a] # <<>>
       /\ app[a].deadline =
             since[a] + DelayFor(Strategy(policy[a], Last(runs[a]).ok),
                                 Max({app[a].consecutive_failures, 1}))
       /\ ~GivesUp(policy[a], app[a].consecutive_failures)

AppInv(a) == RunsWithProcess(a) /\ Uptime(a) /\ Counted(a) /\ Due(a)

(* While it waits, poll ends by the first deadline, or has ended. *)
WakesInTime ==
    pc = "wait" =>
       \A a \in Apps : Pending(a) => wake <= app[a].deadline \/ wake <= now

TimerInv ==
    /\ TimerTypes
    /\ \A a \in Apps : AppInv(a)
    /\ \A a \in batch : app[a].running
    /\ WakesInTime

-----------------------------------------------------------------------------
(* The steps *)

(* What a step leaves alone, of an application, stays right as time passes. *)
LEMMA Others ==
    ASSUME TimerInv, NEW b \in Apps, policy' = policy, now' \in Nat, now <= now',
           app'[b] = app[b], child'[b] = child[b], runs'[b] = runs[b],
           since'[b] = since[b]
    PROVE  AppInv(b)'
<1>1. /\ RunsWithProcess(b) /\ Uptime(b) /\ Counted(b) /\ Due(b)
      /\ app[b] \in AppValues /\ now \in Nat
  BY DEF TimerInv, AppInv, TimerTypes
<1>2. RunsWithProcess(b)'
  BY <1>1 DEF RunsWithProcess, Pending
<1>3. Uptime(b)'
  BY <1>1 DEF Uptime, AppValues
<1>4. Counted(b)'
  BY <1>1 DEF Counted
<1>5. Due(b)'
  BY <1>1 DEF Due, Pending
<1> QED
  BY <1>2, <1>3, <1>4, <1>5 DEF AppInv

(* Time passes. *)
LEMMA TickInv == TimerInv /\ Tick => TimerInv'
<1> SUFFICES ASSUME TimerInv, Tick PROVE TimerInv'
  OBVIOUS
<1>1. /\ UNCHANGED <<policy, app, child, pc, wake, batch, next, seen, runs, since>>
      /\ now' = now + 1
  BY DEF Tick
<1>2. TimerTypes /\ now \in Nat /\ now' \in Nat /\ now <= now'
  BY <1>1 DEF TimerInv, TimerTypes
<1>3. TimerTypes'
  BY <1>1, <1>2 DEF TimerTypes
<1>4. \A b \in Apps : AppInv(b)'
  BY <1>1, <1>2, Others
<1>5. WakesInTime'
  <2> SUFFICES ASSUME pc = "wait", NEW a \in Apps, Pending(a)
               PROVE  wake <= app[a].deadline \/ wake <= now'
    BY <1>1 DEF WakesInTime, Pending
  <2>1. wake <= app[a].deadline \/ wake <= now
    BY DEF TimerInv, WakesInTime
  <2>2. wake \in Nat
    BY <1>2 DEF TimerTypes
  <2> QED
    BY <1>2, <2>1, <2>2
<1>6. \A a \in batch' : app'[a].running
  BY <1>1 DEF TimerInv
<1> QED
  BY <1>3, <1>4, <1>5, <1>6 DEF TimerInv

(* A process ends. *)
LEMMA ExitInv ==
    ASSUME TimerInv, NEW a \in Apps, NEW how \in {"ok", "err"}, Exit(a, how)
    PROVE  TimerInv'
<1>1. /\ UNCHANGED <<policy, now, app, pc, wake, batch, next, seen, runs, since>>
      /\ child[a] = "live" /\ child' = [child EXCEPT ![a] = how]
  BY DEF Exit
<1>2. TimerTypes
  BY DEF TimerInv
<1>3. TimerTypes'
  BY <1>1, <1>2 DEF TimerTypes
<1>4. child'[a] = how /\ \A b \in Apps : b # a => child'[b] = child[b]
  BY <1>1, <1>2 DEF TimerTypes
<1>5. ASSUME NEW b \in Apps PROVE AppInv(b)'
  <2>1. CASE b # a
    BY <1>1, <1>2, <1>4, <2>1, Others DEF TimerTypes
  <2>2. CASE b = a
    <3>1. RunsWithProcess(a) /\ Uptime(a) /\ Counted(a) /\ Due(a)
      BY DEF TimerInv, AppInv
    <3>2. RunsWithProcess(a)'
      BY <1>1, <1>4, <3>1 DEF RunsWithProcess, Pending
    <3>3. Uptime(a)' /\ Counted(a)' /\ Due(a)'
      BY <1>1, <3>1 DEF Uptime, Counted, Due, Pending
    <3> QED
      BY <2>2, <3>2, <3>3 DEF AppInv
  <2> QED
    BY <2>1, <2>2
<1>6. WakesInTime' /\ \A b \in batch' : app'[b].running
  BY <1>1 DEF TimerInv, WakesInTime, Pending
<1> QED
  BY <1>3, <1>5, <1>6 DEF TimerInv

(* The loop itself changes no application. *)
LEMMA LoopInv == TimerInv /\ (Poll \/ Wake \/ EventsDone) => TimerInv'
<1> SUFFICES ASSUME TimerInv, Poll \/ Wake \/ EventsDone PROVE TimerInv'
  OBVIOUS
<1>1. UNCHANGED <<policy, now, app, child, runs, since>>
  BY DEF Poll, Wake, EventsDone
<1>2. TimerTypes /\ now \in Nat /\ now <= now'
  BY <1>1 DEF TimerInv, TimerTypes
<1>3. \A b \in Apps : AppInv(b)'
  BY <1>1, <1>2, Others
<1>4. CASE Poll
  <2>1. /\ pc' = "wait" /\ seen' = 0 /\ UNCHANGED <<batch, next>>
        /\ wake' = IF WakeTime < now THEN now ELSE WakeTime
    BY <1>4 DEF Poll
  <2>2. Deadlines \in SUBSET Nat
    BY <1>2 DEF Deadlines, Pending, TimerTypes, AppValues
  <2>3. WakeTime \in Nat /\ \A d \in Deadlines : WakeTime <= d
    <3>1. CASE Deadlines = {}
      BY <3>1, TimerAssumption DEF WakeTime
    <3>2. CASE Deadlines # {}
      <4>1. WakeTime = Min(Deadlines)
        BY <3>2 DEF WakeTime
      <4>2. Min(Deadlines) \in Deadlines /\ \A d \in Deadlines : Min(Deadlines) <= d
        BY <2>2, <3>2, MinIs
      <4> QED
        BY <2>2, <4>1, <4>2
    <3> QED
      BY <3>1, <3>2
  <2>4. wake' \in Nat /\ (wake' = now \/ wake' = WakeTime)
    BY <1>2, <2>1, <2>3
  <2>5. TimerTypes'
    BY <1>1, <1>2, <2>1, <2>4 DEF TimerTypes
  <2>6. ASSUME NEW a \in Apps, Pending(a)
        PROVE  wake' <= app[a].deadline \/ wake' <= now
    <3>1. app[a].deadline \in Deadlines
      BY <2>6 DEF Deadlines
    <3> QED
      BY <1>2, <2>3, <2>4, <3>1
  <2>7. WakesInTime'
    BY <1>1, <2>6 DEF WakesInTime, Pending
  <2>8. \A a \in batch' : app'[a].running
    BY <1>1, <2>1 DEF TimerInv
  <2> QED
    BY <1>3, <2>5, <2>7, <2>8 DEF TimerInv
<1>5. CASE Wake
  <2>1. /\ pc' = "events" /\ wake' = 0 /\ UNCHANGED <<next, seen>>
        /\ batch' = {a \in Apps : child[a] \in {"ok", "err"}}
    BY <1>5 DEF Wake
  <2>2. TimerTypes' /\ WakesInTime'
    BY <1>1, <1>2, <2>1 DEF TimerTypes, WakesInTime
  <2>3. ASSUME NEW a \in batch' PROVE app'[a].running
    <3>1. a \in Apps /\ child[a] # "none"
      BY <2>1
    <3> QED
      BY <1>1, <3>1 DEF TimerInv, AppInv, RunsWithProcess
  <2> QED
    BY <1>3, <2>2, <2>3 DEF TimerInv
<1>6. CASE EventsDone
  <2>1. pc' = "restart" /\ next' = 1 /\ seen' = now /\ UNCHANGED <<wake, batch>>
    BY <1>6 DEF EventsDone
  <2>2. TimerTypes' /\ WakesInTime'
    BY <1>1, <1>2, <2>1 DEF TimerTypes, WakesInTime
  <2>3. \A a \in batch' : app'[a].running
    BY <1>1, <2>1 DEF TimerInv
  <2> QED
    BY <1>3, <2>2, <2>3 DEF TimerInv
<1> QED
  BY <1>4, <1>5, <1>6
(* A step of one application, while poll does not wait. *)
LEMMA OneApp ==
    ASSUME TimerInv, NEW a \in Apps, pc # "wait",
           UNCHANGED <<policy, now, pc, wake, seen>>,
           next' \in Nat, batch' \in SUBSET batch, TimerTypes',
           \A b \in Apps \ {a} : app'[b] = app[b] /\ child'[b] = child[b]
                                 /\ runs'[b] = runs[b] /\ since'[b] = since[b],
           a \in batch' => app'[a].running,
           AppInv(a)'
    PROVE  TimerInv'
<1>1. now \in Nat /\ now' \in Nat /\ now <= now'
  BY DEF TimerInv, TimerTypes
<1>2. ASSUME NEW b \in Apps PROVE AppInv(b)'
  <2>1. CASE b # a
    BY <1>1, <2>1, Others
  <2> QED
    BY <2>1
<1>3. ASSUME NEW b \in batch' PROVE app'[b].running
  <2>1. CASE b # a
    <3>1. b \in batch /\ b \in Apps
      BY DEF TimerInv, TimerTypes
    <3> QED
      BY <2>1, <3>1 DEF TimerInv
  <2> QED
    BY <2>1
<1>4. WakesInTime'
  BY DEF WakesInTime
<1> QED
  BY <1>2, <1>3, <1>4 DEF TimerInv

(* A client starts an application: its row of failures is over. *)
LEMMA StartInv ==
    ASSUME TimerInv, NEW a \in Apps, Start(a)
    PROVE  TimerInv'
<1>1. /\ UNCHANGED <<policy, now, pc, wake, batch, next, seen>>
      /\ pc = "events" /\ ~app[a].running
      /\ child' = [child EXCEPT ![a] = "live"]
      /\ runs' = [runs EXCEPT ![a] = <<>>] /\ since' = [since EXCEPT ![a] = 0]
  BY DEF Start
<1>2. TimerTypes /\ AppInv(a) /\ now \in Nat
  BY DEF TimerInv, TimerTypes
<1>3. PICK x : x = [Started(app[a]) EXCEPT !.consecutive_failures = 0,
                                           !.stop_requested = FALSE]
  OBVIOUS
<1>4. app' = [app EXCEPT ![a] = x]
  BY <1>3 DEF Start
<1>5. app[a] \in AppValues
  BY <1>2 DEF TimerTypes
<1>6. /\ x \in AppValues /\ x.running = TRUE /\ x.deadline = NoDeadline
      /\ x.started_at = now /\ x.consecutive_failures = 0
      /\ x.total_uptime = app[a].total_uptime
  BY <1>2, <1>3, <1>5 DEF Started, AppValues
<1>7. /\ app'[a] = x /\ child'[a] = "live" /\ runs'[a] = <<>>
      /\ \A b \in Apps \ {a} : app'[b] = app[b] /\ child'[b] = child[b]
                               /\ runs'[b] = runs[b] /\ since'[b] = since[b]
  BY <1>1, <1>2, <1>4 DEF TimerTypes
<1>8. TimerTypes'
  <2>1. <<>> \in Seq(Outcomes)
    OBVIOUS
  <2> QED
    BY <1>1, <1>2, <1>4, <1>6, <2>1 DEF TimerTypes
<1>9. AppInv(a)'
  <2>1. RunsWithProcess(a)' /\ Due(a)'
    BY <1>6, <1>7 DEF RunsWithProcess, Due, Pending
  <2>2. Uptime(a)'
    BY <1>1, <1>2, <1>5, <1>6, <1>7 DEF AppInv, Uptime, AppValues
  <2>3. Counted(a)'
    <3>1. Rows(<<>>) = {0}
      BY DEF Rows
    <3> QED
      BY <1>6, <1>7, <3>1 DEF Counted, IsRow
  <2> QED
    BY <2>1, <2>2, <2>3 DEF AppInv
<1> QED
  BY <1>1, <1>2, <1>6, <1>7, <1>8, <1>9, OneApp DEF TimerTypes, TimerInv

(* A client stops an application, or gives up its restart. *)
LEMMA StopInv ==
    ASSUME TimerInv, NEW a \in Apps, Stop(a)
    PROVE  TimerInv'
<1>1. /\ UNCHANGED <<policy, now, child, pc, wake, batch, next, seen, runs, since>>
      /\ pc = "events"
      /\ app' = [app EXCEPT ![a].stop_requested = TRUE, ![a].deadline = NoDeadline]
  BY DEF Stop
<1>2. TimerTypes /\ AppInv(a) /\ now \in Nat
  BY DEF TimerInv, TimerTypes
<1>3. app[a] \in AppValues
  BY <1>2 DEF TimerTypes
<1>4. /\ app' \in [Apps -> AppValues]
      /\ app'[a] = [app[a] EXCEPT !.stop_requested = TRUE, !.deadline = NoDeadline]
      /\ \A b \in Apps \ {a} : app'[b] = app[b]
  BY <1>1, <1>2, <1>3 DEF TimerTypes, AppValues
<1>5. /\ app'[a].running = app[a].running /\ app'[a].deadline = NoDeadline
      /\ app'[a].started_at = app[a].started_at
      /\ app'[a].consecutive_failures = app[a].consecutive_failures
      /\ app'[a].total_uptime = app[a].total_uptime
  BY <1>3, <1>4 DEF AppValues
<1>6. TimerTypes'
  BY <1>1, <1>2, <1>4 DEF TimerTypes
<1>7. AppInv(a)'
  <2>1. RunsWithProcess(a)' /\ Due(a)'
    BY <1>1, <1>2, <1>5 DEF AppInv, RunsWithProcess, Due, Pending
  <2>2. Uptime(a)' /\ Counted(a)'
    BY <1>1, <1>2, <1>5 DEF AppInv, Uptime, Counted
  <2> QED
    BY <2>1, <2>2 DEF AppInv
<1>8. a \in batch' => app'[a].running
  BY <1>1, <1>5 DEF TimerInv
<1> QED
  BY <1>1, <1>2, <1>4, <1>6, <1>7, <1>8, OneApp DEF TimerTypes

(* A restart that is due, or fails to start, or is not due. *)
LEMMA MaybeRestartInv ==
    ASSUME TimerInv, NEW a \in Apps, MaybeRestart(a)
    PROVE  TimerInv'
<1>1. /\ UNCHANGED <<policy, now, pc, wake, batch, seen, runs, since>>
      /\ pc = "restart" /\ next' = next + 1
  BY DEF MaybeRestart
<1>2. TimerTypes /\ AppInv(a) /\ now \in Nat /\ next' \in Nat
  BY <1>1 DEF TimerInv, TimerTypes
<1>3. app[a] \in AppValues
  BY <1>2 DEF TimerTypes
<1>4. CASE /\ Pending(a) /\ app' = [app EXCEPT ![a] = Started(@)]
           /\ child' = [child EXCEPT ![a] = "live"]
  <2>1. PICK x : x = Started(app[a])
    OBVIOUS
  <2>2. /\ x \in AppValues /\ x.running = TRUE /\ x.deadline = NoDeadline
        /\ x.started_at = now /\ x.total_uptime = app[a].total_uptime
        /\ x.consecutive_failures = app[a].consecutive_failures
    BY <1>2, <1>3, <2>1 DEF Started, AppValues
  <2>3. app' = [app EXCEPT ![a] = x]
    BY <1>4, <2>1
  <2>4. /\ app'[a] = x /\ child'[a] = "live"
        /\ \A b \in Apps \ {a} : app'[b] = app[b] /\ child'[b] = child[b]
    BY <1>2, <1>4, <2>3 DEF TimerTypes
  <2>5. TimerTypes'
    BY <1>1, <1>2, <1>4, <2>2, <2>3 DEF TimerTypes
  <2>6. RunsWithProcess(a)' /\ Due(a)'
    BY <2>2, <2>4 DEF RunsWithProcess, Due, Pending
  <2>7. Uptime(a)'
    BY <1>1, <1>2, <1>3, <1>4, <2>2, <2>4
       DEF AppInv, RunsWithProcess, Uptime, AppValues
  <2>8. Counted(a)'
    BY <1>1, <1>2, <2>2, <2>4 DEF AppInv, Counted
  <2>9. AppInv(a)'
    BY <2>6, <2>7, <2>8 DEF AppInv
  <2> QED
    BY <1>1, <1>2, <2>2, <2>4, <2>5, <2>9, OneApp
<1>5. CASE /\ Pending(a) /\ app' = [app EXCEPT ![a].deadline = NoDeadline]
           /\ child' = child
  <2>1. /\ app' \in [Apps -> AppValues]
        /\ app'[a] = [app[a] EXCEPT !.deadline = NoDeadline]
        /\ \A b \in Apps \ {a} : app'[b] = app[b]
    BY <1>2, <1>3, <1>5 DEF TimerTypes, AppValues
  <2>2. /\ app'[a].running = app[a].running /\ app'[a].deadline = NoDeadline
        /\ app'[a].started_at = app[a].started_at
        /\ app'[a].consecutive_failures = app[a].consecutive_failures
        /\ app'[a].total_uptime = app[a].total_uptime
    BY <1>3, <2>1 DEF AppValues
  <2>3. TimerTypes'
    BY <1>1, <1>2, <1>5, <2>1 DEF TimerTypes
  <2>4. RunsWithProcess(a)' /\ Due(a)'
    BY <1>2, <1>5, <2>2 DEF AppInv, RunsWithProcess, Due, Pending
  <2>5. Uptime(a)' /\ Counted(a)'
    BY <1>1, <1>2, <2>2 DEF AppInv, Uptime, Counted
  <2>6. AppInv(a)'
    BY <2>4, <2>5 DEF AppInv
  <2>7. a \in batch' => app'[a].running
    BY <1>1, <2>2 DEF TimerInv
  <2> QED
    BY <1>1, <1>2, <1>5, <2>1, <2>3, <2>6, <2>7, OneApp
<1>6. CASE UNCHANGED <<app, child>>
  <2>1. TimerTypes'
    BY <1>1, <1>2, <1>6 DEF TimerTypes
  <2>2. AppInv(a)'
    BY <1>1, <1>2, <1>6, Others
  <2>3. a \in batch' => app'[a].running
    BY <1>1, <1>6 DEF TimerInv
  <2> QED
    BY <1>1, <1>2, <1>6, <2>1, <2>2, <2>3, OneApp
<1> QED
  BY <1>4, <1>5, <1>6 DEF MaybeRestart
(* The number of the attempt: the failures in a row, or 1 after a success. *)
LEMMA AttemptType == \A f \in Nat : Max({f, 1}) \in Nat \ {0}
<1> SUFFICES ASSUME NEW f \in Nat PROVE Max({f, 1}) \in Nat \ {0}
  OBVIOUS
<1>1. PICK m \in Nat \ {0} : m \in {f, 1} /\ \A y \in {f, 1} : y <= m
  <2>1. CASE f = 0
    BY <2>1
  <2>2. CASE f # 0
    BY <2>2
  <2> QED
    BY <2>1, <2>2
<1>2. {f, 1} \in SUBSET Int
  OBVIOUS
<1>3. Max({f, 1}) = m
  BY <1>1, <1>2, MaxIs
<1> QED
  BY <1>3

(* What schedule_restart makes of an application after a run. *)
ScheduledAs(x, a, uptime, ok, fails) ==
    /\ x \in AppValues /\ x.running = FALSE
    /\ x.total_uptime = app[a].total_uptime + uptime
    /\ x.consecutive_failures = fails
    /\ x.deadline # NoDeadline =>
          /\ x.deadline = now + DelayFor(Strategy(policy[a], ok), Max({fails, 1}))
          /\ ~GivesUp(policy[a], fails)

(* schedule_restart counts the run, and the deadline follows from the count. *)
LEMMA ScheduleIs ==
    ASSUME TimerTypes, NEW a \in Apps, NEW uptime \in Nat, NEW r \in Outcomes,
           r.long = (uptime >= policy[a].reset_after_ms), NEW fails \in Nat,
           fails = NextFailures(app[a].consecutive_failures, r.ok, r.long)
    PROVE  ScheduledAs(Schedule(a, r.ok, uptime), a, uptime, r.ok, fails)
<1>1. app[a] \in AppValues /\ policy[a] \in TimedPolicies /\ now \in Nat
  BY DEF TimerTypes
<1>2. PICK s \in RestartDelays : s = Strategy(policy[a], r.ok)
  BY <1>1 DEF Strategy, TimedPolicies
<1>3. PICK n \in Nat \ {0} : n = Max({fails, 1})
  BY AttemptType
<1>4. DelayFor(s, n) \in Nat
  BY DelayType
<1>5. PICK d : d = IF GivesUp(policy[a], fails) \/ IsNever(s) THEN NoDeadline
                   ELSE now + DelayFor(s, n)
  OBVIOUS
<1>6. d \in Nat \cup {NoDeadline}
  BY <1>1, <1>4, <1>5
<1>7. d # NoDeadline => d = now + DelayFor(s, n) /\ ~GivesUp(policy[a], fails)
  BY <1>5
<1>8. PICK x : x = Schedule(a, r.ok, uptime)
  OBVIOUS
<1>9. x = [app[a] EXCEPT !.running = FALSE, !.total_uptime = @ + uptime,
                         !.consecutive_failures = fails, !.deadline = d]
  <2>1. fails = NextFailures(app[a].consecutive_failures, r.ok,
                             uptime >= policy[a].reset_after_ms)
    OBVIOUS
  <2> QED
    BY <1>2, <1>3, <1>5, <1>8, <2>1, Zenon DEF Schedule
<1>10. app[a].total_uptime + uptime \in Nat
  BY <1>1 DEF AppValues
<1>11. /\ x \in AppValues /\ x.running = FALSE /\ x.deadline = d
       /\ x.total_uptime = app[a].total_uptime + uptime
       /\ x.consecutive_failures = fails
  BY <1>1, <1>6, <1>9, <1>10 DEF AppValues
<1>12. ScheduledAs(x, a, uptime, r.ok, fails)
  BY <1>2, <1>3, <1>7, <1>11 DEF ScheduledAs
<1> QED
  BY <1>8, <1>12

(* A process is reaped. *)
LEMMA ReapInv ==
    ASSUME TimerInv, NEW a \in Apps, Reap(a)
    PROVE  TimerInv'
<1>1. PICK uptime : uptime = now - app[a].started_at
  OBVIOUS
<1>2. /\ UNCHANGED <<policy, now, pc, wake, next, seen>>
      /\ pc = "events" /\ a \in batch /\ batch' = batch \ {a}
      /\ child' = [child EXCEPT ![a] = "none"]
  BY DEF Reap
<1>3. TimerTypes /\ AppInv(a) /\ now \in Nat /\ next' \in Nat /\ app[a].running
  BY <1>2 DEF TimerInv, TimerTypes
<1>4. app[a] \in AppValues /\ ~Pending(a)
  BY <1>3 DEF TimerTypes, AppInv, RunsWithProcess
<1>5. /\ uptime \in Nat /\ app[a].total_uptime + uptime \in Nat
      /\ app[a].total_uptime + uptime <= now
  BY <1>1, <1>3, <1>4 DEF AppInv, Uptime, AppValues
<1>6. child'[a] = "none" /\ \A b \in Apps \ {a} : child'[b] = child[b]
  BY <1>2, <1>3 DEF TimerTypes
<1>7. batch' \in SUBSET batch /\ a \notin batch'
  BY <1>2
<1>8. CASE app[a].stop_requested
  <2>1. /\ app' = [app EXCEPT ![a].running = FALSE, ![a].total_uptime = @ + uptime]
        /\ UNCHANGED <<runs, since>>
    BY <1>1, <1>8 DEF Reap
  <2>2. /\ app' \in [Apps -> AppValues]
        /\ app'[a] = [app[a] EXCEPT !.running = FALSE, !.total_uptime = @ + uptime]
        /\ \A b \in Apps \ {a} : app'[b] = app[b]
    BY <1>3, <1>4, <1>5, <2>1 DEF TimerTypes, AppValues
  <2>3. /\ app'[a].running = FALSE /\ app'[a].deadline = app[a].deadline
        /\ app'[a].consecutive_failures = app[a].consecutive_failures
        /\ app'[a].total_uptime = app[a].total_uptime + uptime
    BY <1>4, <2>2 DEF AppValues
  <2>4. TimerTypes'
    BY <1>2, <1>3, <2>1, <2>2 DEF TimerTypes
  <2>5. RunsWithProcess(a)' /\ Due(a)'
    BY <1>4, <1>6, <2>3 DEF RunsWithProcess, Due, Pending
  <2>6. Uptime(a)' /\ Counted(a)'
    BY <1>2, <1>3, <1>5, <2>1, <2>3 DEF AppInv, Uptime, Counted
  <2>7. AppInv(a)'
    BY <2>5, <2>6 DEF AppInv
  <2> QED
    BY <1>2, <1>3, <1>6, <1>7, <2>1, <2>2, <2>4, <2>7, OneApp
<1>9. CASE ~app[a].stop_requested
  <2>1. PICK r \in Outcomes :
           r = [ok |-> child[a] = "ok", long |-> uptime >= policy[a].reset_after_ms]
    <3>1. (uptime >= policy[a].reset_after_ms) \in BOOLEAN /\ (child[a] = "ok") \in BOOLEAN
      OBVIOUS
    <3> QED
      BY <3>1, Zenon DEF Outcomes
  <2>2. r.ok = (child[a] = "ok") /\ r.long = (uptime >= policy[a].reset_after_ms)
    BY <2>1
  <2>3. /\ app' = [app EXCEPT ![a] = Schedule(a, child[a] = "ok", uptime)]
        /\ runs' = [runs EXCEPT ![a] = Append(@, r)]
        /\ since' = [since EXCEPT ![a] = now]
    BY <1>1, <1>9, <2>1 DEF Reap
  <2>4. PICK c \in Nat : c = app[a].consecutive_failures
    BY <1>4 DEF AppValues
  <2>5. PICK rs \in Seq(Outcomes) : rs = runs[a]
    BY <1>3 DEF TimerTypes
  <2>6. IsRow(rs, c)
    BY <1>3, <2>4, <2>5 DEF AppInv, Counted
  <2>7. PICK fails \in Nat : fails = NextFailures(c, r.ok, r.long)
    BY <2>6, RowKept
  <2>8. IsRow(Append(rs, r), fails)
    BY <2>6, <2>7, RowKept
  <2>9. fails = NextFailures(app[a].consecutive_failures, r.ok, r.long)
    BY <2>4, <2>7
  <2>10. PICK x : x = Schedule(a, r.ok, uptime)
    OBVIOUS
  <2>11. ScheduledAs(x, a, uptime, r.ok, fails)
    BY <1>3, <1>5, <2>2, <2>9, <2>10, ScheduleIs
  <2>12. PICK t \in Seq(Outcomes) : t = Append(rs, r)
    BY AppendProperties
  <2>13. t # <<>> /\ Last(t) = r
    <3>1. t # <<>> /\ Len(t) = Len(rs) + 1 /\ t[Len(rs) + 1] = r
      BY <2>12, AppendProperties
    <3> QED
      BY <3>1 DEF Last
  <2>14. /\ app'[a] = x /\ runs'[a] = t /\ since'[a] = now
         /\ \A b \in Apps \ {a} :
               app'[b] = app[b] /\ runs'[b] = runs[b] /\ since'[b] = since[b]
    BY <1>3, <2>2, <2>3, <2>5, <2>10, <2>12 DEF TimerTypes
  <2>15. TimerTypes'
    <3>1. app' \in [Apps -> AppValues]
      BY <1>3, <2>2, <2>3, <2>10, <2>11 DEF TimerTypes, ScheduledAs
    <3>2. runs' \in [Apps -> Seq(Outcomes)]
      BY <1>3, <2>3, <2>5, <2>12 DEF TimerTypes
    <3>3. since' \in [Apps -> Nat]
      BY <1>3, <2>3 DEF TimerTypes
    <3> QED
      BY <1>2, <1>3, <3>1, <3>2, <3>3 DEF TimerTypes
  <2>16. RunsWithProcess(a)'
    BY <1>6, <2>11, <2>14 DEF RunsWithProcess, Pending, ScheduledAs
  <2>17. Uptime(a)'
    BY <1>2, <1>5, <2>11, <2>14 DEF Uptime, ScheduledAs
  <2>18. Counted(a)'
    BY <2>8, <2>11, <2>12, <2>14 DEF Counted, ScheduledAs
  <2>19. Due(a)'
    BY <1>2, <2>11, <2>13, <2>14 DEF Due, Pending, ScheduledAs
  <2>20. AppInv(a)'
    BY <2>16, <2>17, <2>18, <2>19 DEF AppInv
  <2> QED
    BY <1>2, <1>3, <1>6, <1>7, <2>14, <2>15, <2>20, OneApp
<1> QED
  BY <1>8, <1>9
(* The daemon has just started every application. *)
LEMMA TimerInit == Init => TimerInv
<1> SUFFICES ASSUME Init PROVE TimerInv
  OBVIOUS
<1>1. /\ now = 0 /\ app = [a \in Apps |-> [Stopped EXCEPT !.running = TRUE]]
      /\ child = [a \in Apps |-> "live"] /\ pc = "restart" /\ wake = 0 /\ batch = {}
      /\ next = NumApps + 1 /\ seen = 0
      /\ runs = [a \in Apps |-> <<>>] /\ since = [a \in Apps |-> 0]
  BY DEF Init
<1>2. policy \in [Apps -> TimedPolicies]
  <2>1. policy \in [Apps -> UNION Range(Policies)] /\ \A a \in Apps : policy[a] \in Policies[a]
    BY DEF Init
  <2>2. \A a \in Apps : Policies[a] \in SUBSET TimedPolicies
    BY TimerAssumption DEF Apps
  <2> QED
    BY <2>1, <2>2
<1>3. PICK x : x = [Stopped EXCEPT !.running = TRUE]
  OBVIOUS
<1>4. /\ x \in AppValues /\ x.running = TRUE /\ x.deadline = NoDeadline
      /\ x.total_uptime = 0 /\ x.started_at = 0 /\ x.consecutive_failures = 0
  BY <1>3 DEF Stopped, AppValues
<1>5. app \in [Apps -> AppValues] /\ \A a \in Apps : app[a] = x
  BY <1>1, <1>3, <1>4
<1>6. TimerTypes
  <2>1. <<>> \in Seq(Outcomes) /\ NumApps + 1 \in Nat
    BY TimerAssumption
  <2> QED
    BY <1>1, <1>2, <1>5, <2>1 DEF TimerTypes
<1>7. ASSUME NEW a \in Apps PROVE AppInv(a)
  <2>1. /\ app[a].running = TRUE /\ app[a].deadline = NoDeadline
        /\ app[a].total_uptime = 0 /\ app[a].started_at = 0
        /\ app[a].consecutive_failures = 0 /\ child[a] = "live" /\ runs[a] = <<>>
    <3>1. app[a] = x
      BY <1>5
    <3> QED
      BY <1>1, <1>4, <3>1
  <2>2. RunsWithProcess(a) /\ Due(a)
    BY <2>1 DEF RunsWithProcess, Due, Pending
  <2>3. Uptime(a)
    BY <1>1, <2>1 DEF Uptime
  <2>4. Counted(a)
    <3>1. Rows(<<>>) = {0}
      BY DEF Rows
    <3> QED
      BY <2>1, <3>1 DEF Counted, IsRow
  <2> QED
    BY <2>2, <2>3, <2>4 DEF AppInv
<1> QED
  BY <1>1, <1>6, <1>7 DEF TimerInv, WakesInTime

(* Every step preserves the invariant. *)
LEMMA TimerStep == TimerInv /\ [Next]_vars => TimerInv'
<1> SUFFICES ASSUME TimerInv, [Next]_vars PROVE TimerInv'
  OBVIOUS
<1>1. CASE Tick
  BY <1>1, TickInv
<1>2. CASE Poll \/ Wake \/ EventsDone
  BY <1>2, LoopInv
<1>3. ASSUME NEW a \in Apps, Reap(a) PROVE TimerInv'
  BY <1>3, ReapInv
<1>4. ASSUME NEW a \in Apps, MaybeRestart(a) PROVE TimerInv'
  BY <1>4, MaybeRestartInv
<1>5. ASSUME NEW a \in Apps, Start(a) PROVE TimerInv'
  BY <1>5, StartInv
<1>6. ASSUME NEW a \in Apps, Stop(a) PROVE TimerInv'
  BY <1>6, StopInv
<1>7. ASSUME NEW a \in Apps, Exit(a, "ok") \/ Exit(a, "err") PROVE TimerInv'
  BY <1>7, ExitInv
<1>8. CASE UNCHANGED vars
  <2>1. UNCHANGED <<policy, now, app, child, pc, wake, batch, next, seen, runs, since>>
    BY <1>8 DEF vars
  <2>2. TimerTypes /\ TimerTypes'
    BY <2>1 DEF TimerInv, TimerTypes
  <2>3. now' \in Nat /\ now <= now'
    BY <2>1, <2>2 DEF TimerTypes
  <2>4. \A b \in Apps : AppInv(b)'
    BY <2>1, <2>3, Others
  <2>5. WakesInTime' /\ \A a \in batch' : app'[a].running
    BY <2>1 DEF TimerInv, WakesInTime, Pending
  <2> QED
    BY <2>2, <2>4, <2>5 DEF TimerInv
<1> QED
  BY <1>1, <1>2, <1>3, <1>4, <1>5, <1>6, <1>7, <1>8 DEF Next, Daemon

-----------------------------------------------------------------------------
(* The properties *)

(* The inductive invariant holds throughout. *)
LEMMA TimerInvariant == Spec => []TimerInv
BY TimerInit, TimerStep, PTL DEF Spec

(* main.rs: for any number of applications and any delays, the loop does not
   sleep through a deadline. *)
THEOREM PollWakesInTime == Spec => []NoOversleep
<1>1. ASSUME TimerInv PROVE NoOversleep
  <2> SUFFICES ASSUME pc = "wait", NEW a \in Apps, Pending(a), app[a].deadline <= now
               PROVE  wake <= now
    BY DEF NoOversleep
  <2>1. wake <= app[a].deadline \/ wake <= now
    BY <1>1 DEF TimerInv, WakesInTime
  <2>2. wake \in Nat /\ now \in Nat /\ app[a].deadline \in Nat
    BY <1>1 DEF TimerInv, TimerTypes, AppValues, Pending
  <2> QED
    BY <2>1, <2>2
<1> QED
  BY <1>1, TimerInvariant, PTL

(* App::stats: the uptimes of an application never add up to more than the time
   that has passed. *)
THEOREM UptimesAddUp == Spec => []UptimeAccounted
<1>1. ASSUME TimerInv, NEW a \in Apps
      PROVE  app[a].total_uptime
                + (IF app[a].running THEN now - app[a].started_at ELSE 0) <= now
  <2>1. /\ Uptime(a) /\ now \in Nat
        /\ app[a].total_uptime \in Nat /\ app[a].started_at \in Nat
    BY <1>1 DEF TimerInv, AppInv, TimerTypes, AppValues
  <2> QED
    BY <2>1 DEF Uptime
<1>2. TimerInv => UptimeAccounted
  BY <1>1 DEF UptimeAccounted
<1> QED
  BY <1>2, TimerInvariant, PTL

(* A pending restart, by what the runs were. *)
LEMMA PendingIs ==
    ASSUME TimerInv, NEW a \in Apps, Pending(a)
    PROVE  /\ Row(a) \in Nat /\ ~GivesUp(policy[a], Row(a))
           /\ Last(runs[a]).ok \in BOOLEAN
           /\ app[a].deadline - since[a]
                 = DelayFor(Strategy(policy[a], Last(runs[a]).ok), Max({Row(a), 1}))
<1>1. PICK rs \in Seq(Outcomes) : rs = runs[a]
  BY DEF TimerInv, TimerTypes
<1>2. PICK c \in Nat : c = app[a].consecutive_failures
  BY DEF TimerInv, TimerTypes, AppValues
<1>3. /\ Counted(a) /\ Due(a) /\ since[a] \in Nat /\ policy[a] \in TimedPolicies
  BY DEF TimerInv, AppInv, TimerTypes
<1>4. Row(a) = c
  BY <1>1, <1>2, <1>3, RowIs DEF Counted
<1>5. rs # <<>>
  BY <1>1, <1>3 DEF Due
<1>6. Last(rs) \in Outcomes
  <2>1. Len(rs) \in 1..Len(rs)
    BY <1>5
  <2> QED
    BY <2>1, ElementOfSeq DEF Last
<1>7. PICK s \in RestartDelays : s = Strategy(policy[a], Last(rs).ok)
  BY <1>3 DEF Strategy, TimedPolicies
<1>8. PICK n \in Nat \ {0} : n = Max({c, 1})
  BY AttemptType
<1>9. DelayFor(s, n) \in Nat
  BY DelayType
<1>10. app[a].deadline = since[a] + DelayFor(s, n) /\ ~GivesUp(policy[a], c)
  BY <1>1, <1>2, <1>3, <1>7, <1>8 DEF Due
<1>11. app[a].deadline - since[a] = DelayFor(s, n)
  BY <1>3, <1>9, <1>10
<1> QED
  BY <1>1, <1>4, <1>6, <1>7, <1>8, <1>10, <1>11 DEF Outcomes

(* schedule_restart gives up in time: no application is retried after more
   failures in a row than max_restart_attempts. *)
THEOREM AttemptsBounded == Spec => []RestartsBounded
<1>1. ASSUME TimerInv, NEW a \in Apps, Pending(a),
             policy[a].max_restart_attempts # NoMax
      PROVE  Row(a) <= policy[a].max_restart_attempts
  <2>1. Row(a) \in Nat /\ ~GivesUp(policy[a], Row(a))
    BY <1>1, PendingIs
  <2>2. policy[a].max_restart_attempts \in Nat
    BY <1>1 DEF TimerInv, TimerTypes, TimedPolicies
  <2> QED
    BY <1>1, <2>1, <2>2 DEF GivesUp
<1>2. TimerInv => RestartsBounded
  BY <1>1 DEF RestartsBounded
<1> QED
  BY <1>2, TimerInvariant, PTL

(* schedule_restart and delay_for: every backoff stays within its maximum, and
   grows with the failures in a row as its user expects. *)
THEOREM BackoffsHonoured == Spec => []BackoffHonoured
<1>1. ASSUME TimerInv, NEW a \in Apps, Pending(a),
             NEW s, s = Strategy(policy[a], Last(runs[a]).ok),
             NEW delay, delay = app[a].deadline - since[a],
             s.strategy = "exponential_backoff"
      PROVE  /\ delay \in 0..s.max_delay_ms
             /\ s.multiplier >= 0 /\ s.initial_delay_ms > 0
                   => delay = ExpectedDelay(s, Max({Row(a), 1}))
  <2>1. PICK n \in Nat \ {0} : n = Max({Row(a), 1})
    BY <1>1, PendingIs, AttemptType
  <2>2. policy[a] \in TimedPolicies /\ Last(runs[a]).ok \in BOOLEAN
    BY <1>1, PendingIs DEF TimerInv, TimerTypes
  <2>3. s \in RestartDelays
    BY <1>1, <2>2 DEF Strategy, TimedPolicies
  <2>4. s \in Backoffs
    BY <1>1, <2>3 DEF RestartDelays, Backoffs
  <2>5. delay = DelayFor(s, n)
    BY <1>1, <2>1, PendingIs
  <2> QED
    BY <2>1, <2>4, <2>5, BackoffWithinMaximum, BackoffAsExpected
<1>2. TimerInv => BackoffHonoured
  BY <1>1, Zenon DEF BackoffHonoured
<1> QED
  BY <1>2, TimerInvariant, PTL
=============================================================================
