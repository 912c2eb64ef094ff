-------------------------- MODULE RateLimiter_proofs --------------------------
(***************************************************************************)
(* Proofs of the bounds of RateLimiter for every burst, rate, interval and *)
(* length of time.                                                         *)
(***************************************************************************)
EXTENDS RateLimiter, TLAPS

-----------------------------------------------------------------------------
(* Whole intervals. *)

\* Division by the length of an interval, by its defining inequalities.
LEMMA DivDef ==
    ASSUME NEW i \in Nat \ {0}, NEW a \in Nat
    PROVE  /\ a \div i \in Nat
           /\ i * (a \div i) <= a
           /\ a < i * (a \div i) + i
OBVIOUS

\* A number of intervals that fits is at most the quotient.
LEMMA DivGreatest ==
    ASSUME NEW i \in Nat \ {0}, NEW a \in Nat, NEW q \in Nat, i * q <= a
    PROVE  q <= a \div i
<1> DEFINE d == a \div i
<1>1. d \in Nat /\ a < i * d + i
  BY DivDef
<1> HIDE DEF d
<1>2. SUFFICES ASSUME q >= d + 1 PROVE FALSE
  BY <1>1 DEF d
<1>3. i * q >= i * (d + 1)
  BY <1>1, <1>2
<1>4. i * (d + 1) = i * d + i
  BY <1>1
<1> QED BY <1>1, <1>3, <1>4

\* Intervals counted in two stretches of time are no more than in the whole.
LEMMA DivSum ==
    ASSUME NEW i \in Nat \ {0}, NEW a \in Nat, NEW b \in Nat
    PROVE  (a \div i) + (b \div i) <= (a + b) \div i
<1> DEFINE p == a \div i
           q == b \div i
<1>1. p \in Nat /\ q \in Nat /\ i * p <= a /\ i * q <= b
  BY DivDef
<1> HIDE DEF p, q
<1>2. i * (p + q) = i * p + i * q
  BY <1>1
<1>3. i * (p + q) <= a + b
  BY <1>1, <1>2
<1>4. p + q <= (a + b) \div i
  BY <1>1, <1>3, DivGreatest
<1> QED BY <1>4 DEF p, q

\* Less than one interval more adds at most one to the count.
LEMMA DivShort ==
    ASSUME NEW i \in Nat \ {0}, NEW a \in Nat, NEW c \in Nat, c < i
    PROVE  (a + c) \div i <= (a \div i) + 1
<1> DEFINE d == a \div i
           e == (a + c) \div i
<1>1. d \in Nat /\ e \in Nat /\ a < i * d + i /\ i * e <= a + c
  BY DivDef
<1> HIDE DEF d, e
<1>2. SUFFICES ASSUME e >= d + 2 PROVE FALSE
  BY <1>1 DEF d, e
<1>3. i * e >= i * (d + 2)
  BY <1>1, <1>2
<1>4. i * (d + 2) = i * d + i + i
  BY <1>1
<1> QED BY <1>1, <1>3, <1>4

LEMMA DivMonotone ==
    ASSUME NEW i \in Nat \ {0}, NEW a \in Nat, NEW b \in Nat, a <= b
    PROVE  a \div i <= b \div i
<1>1. i * (a \div i) <= a /\ a \div i \in Nat
  BY DivDef
<1> QED BY <1>1, DivGreatest

\* More intervals never refill less.
LEMMA RateMonotone ==
    ASSUME NEW m \in Nat, NEW n \in Nat, m <= n
    PROVE  refillRate * m <= refillRate * n /\ refillRate * m \in Nat
BY BucketAssumption
LEMMA RateDistributes ==
    ASSUME NEW m \in Nat, NEW n \in Nat
    PROVE  refillRate * (m + n) = refillRate * m + refillRate * n
BY BucketAssumption

-----------------------------------------------------------------------------
(* The refill. *)

LEMMA IntervalsType ==
    ASSUME TypeOK, NEW t \in 0..now
    PROVE  Intervals(t) \in Nat /\ refillRate * Intervals(t) \in Nat
<1>1. now - t \in Nat
  BY BucketAssumption DEF TypeOK
<1>2. Intervals(t) \in Nat
  BY <1>1, BucketAssumption, DivDef DEF Intervals
<1> QED BY <1>2, RateMonotone, BucketAssumption

\* What the refill does: at most the tokens of the intervals since the last
\* one, never more than the capacity, and none when it is not due.
LEMMA RefillFacts ==
    ASSUME TypeOK
    PROVE  /\ Refilled \in 0..maxTokens
           /\ RefillTime \in 0..now
           /\ IF now - lastRefill >= intervalMs
              THEN RefillTime = now /\ Refilled <= tokens + refillRate * Intervals(lastRefill)
              ELSE RefillTime = lastRefill /\ Refilled = tokens
<1>1. tokens \in 0..maxTokens /\ lastRefill \in 0..now /\ now \in Nat
  BY BucketAssumption DEF TypeOK
<1>2. refillRate * Intervals(lastRefill) \in Nat
  BY <1>1, IntervalsType
<1> QED BY <1>1, <1>2, BucketAssumption DEF Refilled, RefillTime, AtMost

\* A refill is paid by the intervals it lets pass.
LEMMA RefillConserves ==
    ASSUME TypeOK, Conserved
    PROVE  granted + Refilled <= maxTokens + refillRate * (RefillTime \div intervalMs)
<1>1. tokens \in Nat /\ lastRefill \in 0..now /\ now \in Nat /\ granted \in Nat
      /\ intervalMs \in Nat \ {0} /\ refillRate \in Nat /\ maxTokens \in Nat
  BY BucketAssumption DEF TypeOK
<1>2. CASE now - lastRefill < intervalMs
  BY <1>1, <1>2, RefillFacts DEF Conserved
<1>3. CASE now - lastRefill >= intervalMs
  <2> DEFINE m == lastRefill \div intervalMs
             n == Intervals(lastRefill)
             k == now \div intervalMs
  <2>1. m \in Nat /\ n \in Nat /\ k \in Nat
    BY <1>1, DivDef, IntervalsType
  <2>2. m + n <= k
    <3>1. lastRefill \in Nat /\ now - lastRefill \in Nat
      BY <1>1
    <3>2. m + n <= (lastRefill + (now - lastRefill)) \div intervalMs
      BY <1>1, <3>1, DivSum DEF Intervals
    <3>3. lastRefill + (now - lastRefill) = now
      BY <1>1
    <3> QED BY <3>2, <3>3
  <2>3. refillRate * (m + n) <= refillRate * k
    BY <2>1, <2>2, RateMonotone
  <2>4. refillRate * (m + n) = refillRate * m + refillRate * n
    BY <2>1, RateDistributes
  <2>5. granted + tokens <= maxTokens + refillRate * m
    BY DEF Conserved
  <2>6. Refilled <= tokens + refillRate * n /\ RefillTime = now /\ Refilled \in Nat
    BY <1>3, RefillFacts, BucketAssumption
  <2>7. refillRate * m \in Nat /\ refillRate * n \in Nat /\ refillRate * k \in Nat
    BY <1>1, <2>1
  <2> HIDE DEF m, n, k
  <2>8. granted + Refilled <= maxTokens + refillRate * k
    BY <1>1, <2>3, <2>4, <2>5, <2>6, <2>7
  <2> QED BY <2>6, <2>8 DEF k
<1> QED BY <1>1, <1>2, <1>3

\* The bound that a refill keeps inside the window, whatever was granted in it.
WindowAfter(t, left) ==
    IF t < winStart
    THEN winStart - t < intervalMs /\ winGranted + left <= maxTokens
    ELSE winGranted + left
            <= maxTokens + refillRate * ((t - winStart) \div intervalMs + 1)

LEMMA RefillWindow ==
    ASSUME TypeOK, WindowConserved, winStart # NoWindow
    PROVE  WindowAfter(RefillTime, Refilled)
<1>1. tokens \in Nat /\ lastRefill \in 0..now /\ now \in Nat /\ winGranted \in Nat
      /\ intervalMs \in Nat \ {0} /\ refillRate \in Nat /\ maxTokens \in Nat
      /\ winStart \in 0..now
  BY BucketAssumption DEF TypeOK
<1>2. Refilled \in 0..maxTokens
  BY RefillFacts
<1>3. CASE now - lastRefill < intervalMs
  <2>1. RefillTime = lastRefill /\ Refilled = tokens
    BY <1>1, <1>3, RefillFacts
  <2>2. CASE lastRefill < winStart
    BY <1>1, <1>2, <1>3, <2>1, <2>2 DEF WindowConserved, WindowAfter
  <2>3. CASE ~(lastRefill < winStart)
    <3>1. lastRefill - winStart \in Nat
      BY <1>1, <2>3
    <3>2. (lastRefill - winStart) \div intervalMs + 1 \in Nat
      BY <1>1, <3>1, DivDef
    <3>3. refillRate * ((lastRefill - winStart) \div intervalMs + 1) \in Nat
      BY <3>2, RateMonotone
    <3> QED BY <1>1, <1>2, <2>1, <2>3, <3>3 DEF WindowConserved, WindowAfter
  <2> QED BY <2>2, <2>3
<1>4. CASE now - lastRefill >= intervalMs
  <2> DEFINE n == Intervals(lastRefill)
             k == (now - winStart) \div intervalMs
  <2>1. n \in Nat /\ k \in Nat
    BY <1>1, DivDef, IntervalsType
  <2>2. RefillTime = now /\ Refilled <= tokens + refillRate * n
    BY <1>4, RefillFacts
  <2>3. refillRate * n \in Nat /\ refillRate * (k + 1) \in Nat
    BY <2>1, RateMonotone
  <2>4. winGranted + Refilled <= maxTokens + refillRate * (k + 1)
    <3>1. CASE winGranted = 0
      <4> HIDE DEF k
      <4> QED BY <1>1, <1>2, <2>3, <3>1
    <3>2. CASE winGranted > 0 /\ lastRefill < winStart
      <4>1. winStart - lastRefill \in Nat /\ winStart - lastRefill < intervalMs
            /\ now - winStart \in Nat /\ winGranted + tokens <= maxTokens
        BY <1>1, <3>2 DEF WindowConserved
      <4>2. ((now - winStart) + (winStart - lastRefill)) \div intervalMs <= k + 1
        BY <1>1, <4>1, DivShort
      <4>3. (now - winStart) + (winStart - lastRefill) = now - lastRefill
        BY <1>1
      <4>4. n <= k + 1
        BY <4>2, <4>3 DEF Intervals
      <4>5. refillRate * n <= refillRate * (k + 1)
        BY <2>1, <4>4, RateMonotone
      <4> HIDE DEF n, k
      <4> QED BY <1>1, <1>2, <2>2, <2>3, <4>1, <4>5
    <3>3. CASE winGranted > 0 /\ ~(lastRefill < winStart)
      <4> DEFINE m == (lastRefill - winStart) \div intervalMs
      <4>1. lastRefill - winStart \in Nat /\ now - lastRefill \in Nat /\ m \in Nat
        BY <1>1, <3>3, DivDef
      <4>2. m + n <= ((lastRefill - winStart) + (now - lastRefill)) \div intervalMs
        BY <1>1, <4>1, DivSum DEF Intervals
      <4>3. (lastRefill - winStart) + (now - lastRefill) = now - winStart
        BY <1>1
      <4>4. (m + 1) + n <= k + 1
        BY <2>1, <4>1, <4>2, <4>3
      <4>5. refillRate * ((m + 1) + n) <= refillRate * (k + 1)
        BY <2>1, <4>1, <4>4, RateMonotone
      <4>6. refillRate * ((m + 1) + n) = refillRate * (m + 1) + refillRate * n
        BY <1>1, <2>1, <4>1
      <4>7. winGranted + tokens <= maxTokens + refillRate * (m + 1)
        BY <1>1, <3>3 DEF WindowConserved
      <4>8. refillRate * (m + 1) \in Nat
        BY <4>1, RateMonotone
      <4> HIDE DEF n, k, m
      <4> QED BY <1>1, <1>2, <2>2, <2>3, <4>5, <4>6, <4>7, <4>8
    <3> QED BY <1>1, <3>1, <3>2, <3>3
  <2> QED BY <1>1, <2>2, <2>4 DEF WindowAfter
<1> QED BY <1>1, <1>3, <1>4

-----------------------------------------------------------------------------
(* The bucket of half the rate. *)

LEMMA TimesMonotone ==
    ASSUME NEW c \in Nat, NEW a \in Int, NEW b \in Int, a <= b
    PROVE  c * a <= c * b
OBVIOUS

LEMMA TimesCancels ==
    ASSUME NEW c \in Nat \ {0}, NEW a \in Int, c * a <= 0
    PROVE  a <= 0
<1>1. SUFFICES ASSUME a >= 1 PROVE FALSE
  OBVIOUS
<1>2. c * 1 <= c * a
  BY <1>1, TimesMonotone
<1> QED BY <1>2

Double == 2 * intervalMs

\* A bucket with h tokens, refilled for the time up to t, is not too far ahead
\* of one with b tokens, refilled up to s.
Ahead(h, t, b, s) == Double * (h - b) <= refillRate * (Double + t - s)

\* The exact bucket gets refillRate for each double interval, and is paid in full.
LEMMA HalfRefillFacts ==
    ASSUME TypeOK
    PROVE  /\ HalfIntervals \in Nat
           /\ HalfRefillTime \in 0..now
           /\ now - HalfRefillTime < Double
           /\ HalfRefilled \in Int
           /\ HalfRefilled <= maxTokens
           /\ halfRefill + Double * HalfIntervals <= now
<1>1. halfRefill \in 0..now /\ now \in Nat /\ half \in Int /\ now - halfRefill \in Nat
      /\ Double \in Nat \ {0} /\ refillRate \in Nat /\ maxTokens \in Nat
  BY BucketAssumption DEF TypeOK, Double
<1> DEFINE n == HalfIntervals
<1>2. n \in Nat /\ Double * n <= now - halfRefill /\ now - halfRefill < Double * n + Double
  BY <1>1, DivDef DEF HalfIntervals, Double
<1>3. Double * n \in Nat /\ refillRate * n \in Nat
  BY <1>1, <1>2
<1>4. HalfRefilled = AtMost(half + refillRate * n, maxTokens)
  BY DEF HalfRefilled
<1>5. HalfRefillTime = IF half + refillRate * n >= maxTokens THEN now
                       ELSE halfRefill + Double * n
  BY DEF HalfRefillTime, Double
<1> HIDE DEF n
<1>6. HalfRefillTime \in 0..now /\ now - HalfRefillTime < Double
  BY <1>1, <1>2, <1>3, <1>5
<1>7. HalfRefilled \in Int /\ HalfRefilled <= maxTokens
  BY <1>1, <1>3, <1>4 DEF AtMost
<1> QED BY <1>1, <1>2, <1>3, <1>6, <1>7 DEF n

LEMMA HalfRefillKeepsAhead ==
    ASSUME TypeOK, Ahead(half, halfRefill, tokens, lastRefill)
    PROVE  Ahead(HalfRefilled, HalfRefillTime, tokens, lastRefill)
<1> DEFINE n == HalfIntervals
           paid == half + refillRate * n
           upTo == halfRefill + Double * n
<1>1. halfRefill \in Int /\ now \in Int /\ half \in Int /\ tokens \in Int /\ lastRefill \in Int
      /\ Double \in Nat /\ refillRate \in Nat /\ maxTokens \in Nat
  BY BucketAssumption DEF TypeOK, Double
<1>2. n \in Nat /\ upTo <= now
  BY HalfRefillFacts
<1>3. refillRate * n \in Nat /\ Double * n \in Nat
  BY <1>1, <1>2
<1>4. paid \in Int /\ upTo \in Int
  BY <1>1, <1>3
<1>5. Ahead(paid, upTo, tokens, lastRefill)
  <2>1. Double * (paid - tokens) = Double * (half - tokens) + Double * (refillRate * n)
    BY <1>1, <1>3
  <2>2. refillRate * (Double + upTo - lastRefill)
          = refillRate * (Double + halfRefill - lastRefill) + refillRate * (Double * n)
    BY <1>1, <1>3
  <2>3. Double * (refillRate * n) = refillRate * (Double * n)
    BY <1>1, <1>2
  <2>4. Double * (half - tokens) \in Int /\ refillRate * (Double * n) \in Int
        /\ refillRate * (Double + halfRefill - lastRefill) \in Int
    BY <1>1, <1>3
  <2> QED BY <2>1, <2>2, <2>3, <2>4 DEF Ahead
<1>6. CASE paid >= maxTokens
  <2>1. HalfRefilled = maxTokens /\ HalfRefillTime = now
    BY <1>1, <1>4, <1>6 DEF HalfRefilled, HalfRefillTime, AtMost
  <2> HIDE DEF n, paid, upTo
  <2>2. Double * (maxTokens - tokens) <= Double * (paid - tokens)
    BY <1>1, <1>4, <1>6, TimesMonotone
  <2>3. refillRate * (Double + upTo - lastRefill) <= refillRate * (Double + now - lastRefill)
    BY <1>1, <1>2, <1>4, TimesMonotone
  <2>4. Double * (maxTokens - tokens) \in Int /\ Double * (paid - tokens) \in Int
        /\ refillRate * (Double + upTo - lastRefill) \in Int
        /\ refillRate * (Double + now - lastRefill) \in Int
    BY <1>1, <1>4
  <2> QED BY <1>5, <2>1, <2>2, <2>3, <2>4 DEF Ahead
<1>7. CASE ~(paid >= maxTokens)
  BY <1>1, <1>4, <1>5, <1>7 DEF HalfRefilled, HalfRefillTime, AtMost, Double
<1> QED BY <1>6, <1>7

\* A refill by k whole intervals takes less time than k double ones.
LEMMA RefillKeepsAhead ==
    ASSUME TypeOK, NEW h \in Int, NEW t \in 0..now, h <= maxTokens, now - t < Double,
           Ahead(h, t, tokens, lastRefill)
    PROVE  Ahead(h, t, Refilled, RefillTime)
<1>1. /\ now \in Nat /\ tokens \in Int /\ lastRefill \in 0..now
      /\ t \in Int /\ now - lastRefill \in Nat
      /\ Double \in Nat /\ refillRate \in Nat /\ maxTokens \in Nat /\ intervalMs \in Nat \ {0}
  BY BucketAssumption DEF TypeOK, Double
<1>2. CASE now - lastRefill < intervalMs
  BY <1>1, <1>2, RefillFacts
<1>3. CASE now - lastRefill >= intervalMs
  <2> DEFINE k == Intervals(lastRefill)
             full == tokens + refillRate * k
  <2>1. k \in Nat /\ now - lastRefill < intervalMs * k + intervalMs
    BY <1>1, DivDef DEF Intervals
  <2>2. refillRate * k \in Nat
    BY <1>1, <2>1
  <2>3. RefillTime = now /\ Refilled = AtMost(full, maxTokens) /\ full \in Int
    BY <1>1, <1>3, <2>2 DEF RefillTime, Refilled
  <2>4. CASE full > maxTokens
    <3>1. Refilled = maxTokens
      BY <2>3, <2>4 DEF AtMost
    <3>2. Double * (h - maxTokens) <= Double * 0
      BY <1>1, TimesMonotone
    <3>3. refillRate * 0 <= refillRate * (Double + t - now)
      BY <1>1, TimesMonotone
    <3>4. Double * (h - maxTokens) \in Int /\ refillRate * (Double + t - now) \in Int
      BY <1>1
    <3> QED BY <1>1, <2>3, <3>1, <3>2, <3>3, <3>4 DEF Ahead
  <2>5. CASE ~(full > maxTokens)
    <3>1. Refilled = full
      BY <2>3, <2>5 DEF AtMost
    <3>2. now - lastRefill <= Double * k
      <4>1. k # 0
        BY <1>1, <1>3, <2>1
      <4>2. intervalMs * 1 <= intervalMs * k
        BY <1>1, <2>1, <4>1, TimesMonotone
      <4>3. Double * k = intervalMs * k + intervalMs * k
        BY <1>1, <2>1 DEF Double
      <4>4. intervalMs * k \in Int
        BY <1>1, <2>1
      <4> HIDE DEF k
      <4> QED BY <1>1, <2>1, <4>2, <4>3, <4>4
    <3>3. Double * k \in Nat
      BY <1>1, <2>1
    <3>4. Double * (h - full) = Double * (h - tokens) - Double * (refillRate * k)
      BY <1>1, <2>2
    <3>5. refillRate * (Double + t - lastRefill - Double * k)
            = refillRate * (Double + t - lastRefill) - refillRate * (Double * k)
      BY <1>1, <3>3
    <3>6. Double * (refillRate * k) = refillRate * (Double * k)
      BY <1>1, <2>1
    <3> HIDE DEF k, full
    <3>7. refillRate * (Double + t - lastRefill - Double * k)
              <= refillRate * (Double + t - now)
      BY <1>1, <3>2, <3>3, TimesMonotone
    <3>8. Double * (h - full) \in Int /\ Double * (h - tokens) \in Int
          /\ refillRate * (Double * k) \in Int
          /\ refillRate * (Double + t - lastRefill) \in Int
          /\ refillRate * (Double + t - lastRefill - Double * k) \in Int
          /\ refillRate * (Double + t - now) \in Int
      BY <1>1, <2>3, <3>3
    <3> QED BY <2>3, <3>1, <3>4, <3>5, <3>6, <3>7, <3>8 DEF Ahead
  <2> QED BY <2>4, <2>5
<1> QED BY <1>1, <1>2, <1>3

LEMMA TryAcquireKeepsHalf ==
    ASSUME TypeOK, HalfConserved, TryAcquire
    PROVE  HalfConserved'
<1>1. Ahead(half, halfRefill, tokens, lastRefill)
  BY DEF HalfConserved, Ahead, Double
<1>2. Ahead(HalfRefilled, HalfRefillTime, Refilled, RefillTime)
  BY <1>1, HalfRefillKeepsAhead, HalfRefillFacts, RefillKeepsAhead
<1>3. Refilled \in Int /\ RefillTime \in 0..now /\ HalfRefilled \in Int
      /\ HalfRefillTime \in 0..now /\ now \in Nat /\ lastRefill \in 0..now
      /\ intervalMs \in Nat \ {0} /\ HalfRefilled <= maxTokens /\ maxTokens \in Nat
  BY RefillFacts, HalfRefillFacts, BucketAssumption DEF TypeOK
<1>4. lastRefill' = RefillTime /\ halfRefill' = HalfRefillTime
      /\ (\/ tokens' = Refilled - 1 /\ half' = HalfRefilled - 1
          \/ tokens' = Refilled /\ half' = HalfRefilled)
  BY DEF TryAcquire
<1>5. half' - tokens' = HalfRefilled - Refilled /\ half' <= maxTokens
  BY <1>3, <1>4
<1>6. halfRefill' - lastRefill' < intervalMs
  <2>1. now - RefillTime < intervalMs
    BY <1>3, RefillFacts
  <2> QED BY <1>3, <1>4, <2>1
<1> QED BY <1>2, <1>4, <1>5, <1>6 DEF HalfConserved, Ahead, Double

-----------------------------------------------------------------------------
(* The larger bucket. *)

\* What flows in while an interval runs is less than the lot at its end.
LEMMA FlowWithinInterval ==
    ASSUME NEW t \in Nat, t < intervalMs
    PROVE  refillRate * t <= refillRate * intervalMs /\ refillRate * t \in Nat
BY BucketAssumption, RateMonotone

\* After a refill the larger bucket holds what the code's holds, and the flow.
LEMMA RefillKeepsLevel ==
    ASSUME TypeOK, LevelKept
    PROVE  level >= intervalMs * Refilled + refillRate * (now - RefillTime)
<1>1. /\ tokens \in 0..maxTokens /\ lastRefill \in 0..now /\ now \in Nat /\ level \in Nat
      /\ intervalMs \in Nat \ {0} /\ refillRate \in Nat /\ maxTokens \in Nat
      /\ now - lastRefill \in Nat /\ Refilled \in 0..maxTokens
  BY RefillFacts, BucketAssumption DEF TypeOK
<1>2. /\ intervalMs * tokens \in Nat /\ intervalMs * Refilled \in Nat
      /\ intervalMs * maxTokens \in Nat /\ refillRate * intervalMs \in Nat
      /\ refillRate * (now - lastRefill) \in Nat
  BY <1>1
<1>3. Capacity * intervalMs = intervalMs * maxTokens + refillRate * intervalMs
  BY <1>1 DEF Capacity
<1>4. \A n \in 0..maxTokens : intervalMs * n <= intervalMs * maxTokens
  BY <1>1, TimesMonotone
<1>5. CASE now - lastRefill < intervalMs
  <2>1. RefillTime = lastRefill /\ Refilled = tokens
    BY <1>1, <1>5, RefillFacts
  <2>2. refillRate * (now - lastRefill) <= refillRate * intervalMs
    BY <1>1, <1>5, FlowWithinInterval
  <2>3. intervalMs * tokens <= intervalMs * maxTokens
    BY <1>1, <1>4
  <2> QED BY <1>1, <1>2, <1>3, <2>1, <2>2, <2>3 DEF LevelKept, AtMost
<1>6. CASE now - lastRefill >= intervalMs
  <2> DEFINE k == Intervals(lastRefill)
  <2>1. k \in Nat /\ intervalMs * k <= now - lastRefill
    BY <1>1, DivDef DEF Intervals
  <2>2. RefillTime = now /\ Refilled <= tokens + refillRate * k
    BY <1>6, RefillFacts
  <2>3. refillRate * k \in Nat /\ intervalMs * k \in Nat
    BY <1>1, <2>1
  <2> HIDE DEF k
  <2>4. intervalMs * Refilled <= intervalMs * (tokens + refillRate * k)
    BY <1>1, <2>2, <2>3, TimesMonotone
  <2>5. intervalMs * (tokens + refillRate * k)
            = intervalMs * tokens + refillRate * (intervalMs * k)
    BY <1>1, <2>1
  <2>6. refillRate * (intervalMs * k) <= refillRate * (now - lastRefill)
    BY <1>1, <2>1, <2>3, TimesMonotone
  <2>7. refillRate * (intervalMs * k) \in Nat
    BY <1>1, <2>3
  <2>8. intervalMs * Refilled <= intervalMs * maxTokens
    BY <1>1, <1>4
  <2>9. level >= intervalMs * Refilled
    BY <1>1, <1>2, <1>3, <2>4, <2>5, <2>6, <2>7, <2>8 DEF LevelKept, AtMost
  <2>10. refillRate * (now - RefillTime) = 0
    BY <1>1, <2>2
  <2> QED BY <1>1, <1>2, <2>9, <2>10
<1> QED BY <1>1, <1>5, <1>6

\* A grant is one that the larger bucket can pay.
LEMMA GrantIsPaid ==
    ASSUME TypeOK, LevelKept, Refilled > 0
    PROVE  /\ level - intervalMs
                  >= intervalMs * (Refilled - 1) + refillRate * (now - RefillTime)
           /\ level >= intervalMs
<1>1. /\ level \in Nat /\ intervalMs \in Nat /\ refillRate \in Nat /\ Refilled \in Nat
      /\ now - RefillTime \in Nat
  BY RefillFacts, BucketAssumption DEF TypeOK
<1> DEFINE flow == refillRate * (now - RefillTime)
           kept == intervalMs * (Refilled - 1)
<1>2. flow \in Nat /\ kept \in Nat
  BY <1>1
<1>3. intervalMs * Refilled = kept + intervalMs
  BY <1>1
<1>4. level >= intervalMs * Refilled + flow
  BY RefillKeepsLevel
<1> HIDE DEF flow, kept
<1>5. level - intervalMs >= kept + flow /\ level >= intervalMs
  BY <1>1, <1>2, <1>3, <1>4
<1> QED BY <1>5 DEF flow, kept

LEMMA TryAcquireKeepsLevel ==
    ASSUME TypeOK, LevelKept, TryAcquire
    PROVE  LevelKept' /\ level' \in Nat
<1>1. /\ level \in Nat /\ intervalMs \in Nat /\ refillRate \in Nat /\ Refilled \in Nat
      /\ RefillTime \in 0..now /\ now \in Nat /\ Capacity * intervalMs \in Nat
  BY RefillFacts, BucketAssumption DEF TypeOK, Capacity
<1>2. now' = now /\ lastRefill' = RefillTime
  BY DEF TryAcquire
<1>3. /\ level' \in Nat
      /\ level' >= intervalMs * tokens' + refillRate * (now' - lastRefill')
  <2>1. CASE Refilled > 0 /\ tokens' = Refilled - 1 /\ level' = level - intervalMs
    BY <1>1, <1>2, <2>1, GrantIsPaid
  <2>2. CASE tokens' = Refilled /\ level' = level
    BY <1>1, <1>2, <2>2, RefillKeepsLevel
  <2> QED BY <2>1, <2>2 DEF TryAcquire
<1>4. tokens' \in Nat
  BY <1>1 DEF TryAcquire
<1>5. intervalMs * tokens' + refillRate * (now' - lastRefill') \in Nat
  <2>1. now' - lastRefill' \in Nat
    BY <1>1, <1>2
  <2>2. \A x, y \in Nat : x * y \in Nat
    OBVIOUS
  <2>3. intervalMs * tokens' \in Nat
    BY <1>1, <1>4, <2>2
  <2>4. refillRate * (now' - lastRefill') \in Nat
    BY <1>1, <2>1, <2>2
  <2> QED BY <2>3, <2>4
<1>6. level' >= AtMost(intervalMs * tokens' + refillRate * (now' - lastRefill'),
                       Capacity * intervalMs)
  BY <1>1, <1>3, <1>5 DEF AtMost
<1> QED BY <1>3, <1>6 DEF LevelKept, AtMost, Capacity

LEMMA TickKeepsLevel ==
    ASSUME TypeOK, LevelKept, Tick
    PROVE  LevelKept' /\ level' \in Nat
<1> DEFINE full == Capacity * intervalMs
           due == intervalMs * tokens + refillRate * (now - lastRefill)
<1>1. /\ level \in Nat /\ refillRate \in Nat /\ full \in Nat /\ due \in Nat
      /\ now \in Nat /\ lastRefill \in 0..now /\ tokens \in Nat /\ intervalMs \in Nat
  BY BucketAssumption DEF TypeOK, Capacity
<1>2. /\ now' = now + 1 /\ tokens' = tokens /\ lastRefill' = lastRefill
      /\ level' = AtMost(level + refillRate, full)
  BY DEF Tick, bucket
<1>3. refillRate * (now' - lastRefill') = refillRate * (now - lastRefill) + refillRate
  BY <1>1, <1>2
<1>4. refillRate * (now - lastRefill) \in Nat /\ intervalMs * tokens \in Nat
  BY <1>1
<1>5. intervalMs * tokens' + refillRate * (now' - lastRefill') = due + refillRate
  BY <1>2, <1>3, <1>4, <1>1
<1>6. level >= AtMost(due, full)
  BY DEF LevelKept
<1> HIDE DEF full, due
<1>7. AtMost(level + refillRate, full) >= AtMost(due + refillRate, full)
  BY <1>1, <1>6 DEF AtMost
<1>8. full' = full
  BY DEF full, Capacity
<1>9. level' \in Nat
  BY <1>1, <1>2 DEF AtMost
<1>10. level' >= AtMost(intervalMs * tokens' + refillRate * (now' - lastRefill'), full)
  BY <1>2, <1>5, <1>7
<1> QED BY <1>9, <1>10 DEF LevelKept, full, AtMost, Capacity

-----------------------------------------------------------------------------
(* The invariant. *)

LEMMA InitEstablishesIInv == Init => IInv
<1> SUFFICES ASSUME Init PROVE IInv
  OBVIOUS
<1>1. 0 \div intervalMs \in Nat
  BY BucketAssumption, DivDef
<1>2. refillRate * (0 \div intervalMs) \in Nat
  BY <1>1, RateMonotone
<1>3. TypeOK
  <2>1. now \in 0..MaxTime /\ tokens \in 0..maxTokens /\ half \in Int
    BY BucketAssumption DEF Init
  <2>2. lastRefill \in 0..now /\ halfRefill \in 0..now
    BY DEF Init
  <2>3. granted \in Nat /\ winGranted \in Nat
    BY DEF Init
  <2>4. winStart \in {NoWindow} \cup (0..now)
    BY DEF Init
  <2>5. level \in Nat
    BY BucketAssumption DEF Init
  <2> QED BY <2>1, <2>2, <2>3, <2>4, <2>5 DEF TypeOK
<1>4. Conserved
  BY <1>2, BucketAssumption DEF Init, Conserved
<1>5. HalfConserved
  <2>1. 0 <= refillRate * (2 * intervalMs)
    BY BucketAssumption
  <2> QED BY <2>1, BucketAssumption DEF Init, HalfConserved
<1>6. LevelKept
  <2> DEFINE due == maxTokens * intervalMs
             full == Capacity * intervalMs
  <2>1. due \in Nat /\ full \in Nat
    BY BucketAssumption DEF Capacity
  <2>2. intervalMs * tokens + refillRate * (now - lastRefill) = due
    BY BucketAssumption DEF Init
  <2> HIDE DEF due, full
  <2>3. due >= AtMost(due, full)
    BY <2>1 DEF AtMost
  <2> QED BY <2>2, <2>3 DEF Init, LevelKept, due, full
<1> QED BY <1>3, <1>4, <1>5, <1>6 DEF Init, IInv, WindowConserved

LEMMA TryAcquireKeepsIInv == IInv /\ TryAcquire => IInv'
<1> SUFFICES ASSUME IInv, TryAcquire PROVE IInv'
  OBVIOUS
<1> USE DEF IInv
<1>1. Refilled \in 0..maxTokens /\ RefillTime \in 0..now /\ now' = now
      /\ winStart' = winStart /\ lastRefill' = RefillTime
  BY RefillFacts DEF TryAcquire
<1>2. \/ /\ tokens' = Refilled - 1 /\ Refilled > 0 /\ granted' = granted + 1
         /\ winGranted' = IF winStart = NoWindow THEN 0 ELSE winGranted + 1
      \/ /\ tokens' = Refilled /\ granted' = granted /\ winGranted' = winGranted
  BY DEF TryAcquire
<1>3. TypeOK'
  <2>1. half' \in Int /\ halfRefill' \in 0..now
    BY HalfRefillFacts DEF TryAcquire
  <2>2. now \in 0..MaxTime
    BY DEF TypeOK
  <2>3. level' \in Nat
    BY TryAcquireKeepsLevel
  <2> QED BY <1>1, <1>2, <2>1, <2>2, <2>3, BucketAssumption DEF TypeOK
<1>4. Conserved'
  <2>1. granted + Refilled <= maxTokens + refillRate * (RefillTime \div intervalMs)
    BY RefillConserves
  <2>2. granted' + tokens' = granted + Refilled
    BY <1>1, <1>2, BucketAssumption DEF TypeOK
  <2> QED BY <1>1, <2>1, <2>2 DEF Conserved
<1>5. WindowConserved'
  <2>1. CASE winStart = NoWindow
    BY <1>1, <1>2, <2>1 DEF WindowConserved
  <2>2. CASE winStart # NoWindow
    <3>1. WindowAfter(RefillTime, Refilled)
      BY <2>2, RefillWindow
    <3>2. winGranted' + tokens' = winGranted + Refilled
      BY <1>1, <1>2, <2>2, BucketAssumption DEF TypeOK
    <3> QED BY <1>1, <2>2, <3>1, <3>2 DEF WindowConserved, WindowAfter
  <2> QED BY <2>1, <2>2
<1>6. HalfConserved'
  BY TryAcquireKeepsHalf
<1>7. LevelKept'
  BY TryAcquireKeepsLevel
<1> QED BY <1>3, <1>4, <1>5, <1>6, <1>7

LEMMA NextKeepsIInv == IInv /\ [Next]_vars => IInv'
<1> SUFFICES ASSUME IInv, [Next]_vars PROVE IInv'
  OBVIOUS
<1>1. CASE TryAcquire
  BY <1>1, TryAcquireKeepsIInv
<1>2. CASE Tick
  <2>1. TypeOK'
    <3>1. now' \in 0..MaxTime /\ \A t \in 0..now : t \in 0..now'
      BY <1>2, BucketAssumption DEF Tick, IInv, TypeOK
    <3>2. UNCHANGED <<tokens, lastRefill, granted, winStart, winGranted, half, halfRefill>>
      BY <1>2 DEF Tick, bucket, window, halfBucket
    <3>3. level' \in Nat
      BY <1>2, TickKeepsLevel DEF IInv
    <3> QED BY <3>1, <3>2, <3>3 DEF IInv, TypeOK
  <2>2. LevelKept'
    BY <1>2, TickKeepsLevel DEF IInv
  <2> QED BY <1>2, <2>1, <2>2 DEF Tick, IInv, Conserved, WindowConserved, HalfConserved,
                                  bucket, window, halfBucket
<1>3. CASE Observe
  <2>1. winGranted = 0 /\ now # NoWindow
    BY <1>3, BucketAssumption DEF Observe, IInv, WindowConserved, TypeOK, NoWindow
  <2>2. TypeOK'
    <3>1. now \in 0..now
      BY BucketAssumption DEF IInv, TypeOK
    <3>2. UNCHANGED <<now, tokens, lastRefill, granted, winGranted, half, halfRefill, level>>
          /\ winStart' = now
      BY <1>3 DEF Observe, bucket, halfBucket
    <3> QED BY <3>1, <3>2 DEF IInv, TypeOK
  <2>3. Conserved' /\ WindowConserved' /\ HalfConserved' /\ LevelKept'
    BY <1>3, <2>1 DEF Observe, IInv, Conserved, WindowConserved, HalfConserved, LevelKept,
                      AtMost, Capacity, bucket, halfBucket
  <2> QED BY <2>2, <2>3 DEF IInv
<1>4. CASE UNCHANGED vars
  BY <1>4 DEF vars, bucket, window, halfBucket, IInv, TypeOK, Conserved, WindowConserved,
              HalfConserved, LevelKept, AtMost, Capacity
<1> QED BY <1>1, <1>2, <1>3, <1>4 DEF Next

\* The invariant holds in every reachable state.
THEOREM InductiveInvariant == Spec => []IInv
<1> QED BY InitEstablishesIInv, NextKeepsIInv, PTL DEF Spec

\* From its creation on the limiter grants no more than the burst and the
\* sustained rate, for every pattern of attempts.
THEOREM LifetimeBoundHolds == Spec => []LifetimeBound
<1>1. IInv => LifetimeBound
  <2> SUFFICES ASSUME IInv PROVE LifetimeBound
    OBVIOUS
  <2>1. lastRefill \in Nat /\ now \in Nat /\ lastRefill <= now /\ granted \in Nat
        /\ tokens \in Nat
    BY BucketAssumption DEF IInv, TypeOK
  <2>2. /\ lastRefill \div intervalMs \in Nat
        /\ now \div intervalMs \in Nat
        /\ lastRefill \div intervalMs <= now \div intervalMs
    BY <2>1, BucketAssumption, DivDef, DivMonotone
  <2>3. refillRate * (lastRefill \div intervalMs) <= refillRate * (now \div intervalMs)
        /\ refillRate * (lastRefill \div intervalMs) \in Nat
        /\ refillRate * (now \div intervalMs) \in Nat
    BY <2>2, RateMonotone
  <2> QED BY <2>1, <2>3, BucketAssumption DEF IInv, Conserved, LifetimeBound
<1> QED BY <1>1, InductiveInvariant, PTL

\* Each step of the limiter is one of a token bucket: the refill in lots, at the
\* times of the attempts, never grants what the larger bucket would refuse.
THEOREM ImplementsBucketHolds == Spec => ImplementsBucket
<1>1. Init => Bucket!Init
  BY DEF Init, Bucket!Init
<1>2. ASSUME IInv, [Next]_vars PROVE [Bucket!Next]_(Bucket!vars)
  <2>1. CASE TryAcquire
    <3>1. CASE /\ Refilled > 0 /\ granted' = granted + 1
               /\ level' = level - intervalMs /\ now' = now
      BY <1>2, <3>1, GrantIsPaid DEF IInv, Bucket!Next, Bucket!Take
    <3>2. CASE UNCHANGED <<now, granted, level>>
      BY <3>2 DEF Bucket!vars
    <3> QED BY <2>1, <3>1, <3>2 DEF TryAcquire
  <2>2. CASE Tick
    BY <2>2 DEF Tick, Bucket!Next, Bucket!Tick, Bucket!Full, AtMost
  <2>3. CASE Observe
    BY <2>3 DEF Observe, Bucket!vars
  <2>4. CASE UNCHANGED vars
    BY <2>4 DEF vars, Bucket!vars
  <2> QED BY <1>2, <2>1, <2>2, <2>3, <2>4 DEF Next
<1> QED BY <1>1, <1>2, InductiveInvariant, PTL DEF Spec, ImplementsBucket, Bucket!Spec

\* And in every window of time no more than one lot beyond that.
THEOREM WindowBoundHolds == Spec => []WindowBound
<1>1. IInv => WindowBound
  <2> SUFFICES ASSUME IInv, winStart # NoWindow
               PROVE  winGranted <= maxTokens
                        + refillRate * ((now - winStart) \div intervalMs + 1)
    BY DEF WindowBound
  <2>1. lastRefill \in Nat /\ now \in Nat /\ lastRefill <= now /\ winGranted \in Nat
        /\ tokens \in Nat /\ winStart \in Nat /\ now - winStart \in Nat
    BY BucketAssumption DEF IInv, TypeOK
  <2>2. (now - winStart) \div intervalMs \in Nat
    BY <2>1, BucketAssumption, DivDef
  <2>3. refillRate * ((now - winStart) \div intervalMs + 1) \in Nat
    BY <2>2, RateMonotone
  <2>4. CASE winGranted = 0
    BY <2>3, <2>4, BucketAssumption
  <2>5. CASE winGranted > 0 /\ lastRefill < winStart
    BY <2>1, <2>3, <2>5, BucketAssumption DEF IInv, WindowConserved
  <2>6. CASE winGranted > 0 /\ ~(lastRefill < winStart)
    <3>1. lastRefill - winStart \in Nat /\ lastRefill - winStart <= now - winStart
      BY <2>1, <2>6
    <3>2. /\ (lastRefill - winStart) \div intervalMs \in Nat
          /\ (lastRefill - winStart) \div intervalMs <= (now - winStart) \div intervalMs
      BY <2>1, <3>1, BucketAssumption, DivDef, DivMonotone
    <3>3. refillRate * ((lastRefill - winStart) \div intervalMs + 1)
            <= refillRate * ((now - winStart) \div intervalMs + 1)
          /\ refillRate * ((lastRefill - winStart) \div intervalMs + 1) \in Nat
      BY <2>2, <3>2, RateMonotone
    <3> QED BY <2>1, <2>3, <2>6, <3>3, BucketAssumption DEF IInv, WindowConserved
  <2> QED BY <2>1, <2>4, <2>5, <2>6
<1> QED BY <1>1, InductiveInvariant, PTL

\* A client is never refused for less than half the sustained rate: an exact
\* bucket of that rate is at most one and a half lots ahead.
THEOREM HalfRateKeptHolds == Spec => []HalfRateKept
<1>1. IInv => HalfRateKept
  <2> SUFFICES ASSUME IInv PROVE HalfRateKept
    OBVIOUS
  <2> DEFINE lead == 2 * (half - tokens) - 3 * refillRate
  <2>1. half \in Int /\ tokens \in Int /\ halfRefill \in Int /\ lastRefill \in Int
        /\ refillRate \in Nat /\ intervalMs \in Nat \ {0}
    BY BucketAssumption DEF IInv, TypeOK
  <2>2. refillRate * (2 * intervalMs + halfRefill - lastRefill)
            <= refillRate * (3 * intervalMs)
    BY <2>1, TimesMonotone DEF IInv, HalfConserved
  <2>3. 2 * intervalMs * (half - tokens) <= refillRate * (3 * intervalMs)
    <3>1. 2 * intervalMs * (half - tokens) \in Int /\ refillRate * (3 * intervalMs) \in Int
          /\ refillRate * (2 * intervalMs + halfRefill - lastRefill) \in Int
      BY <2>1
    <3> QED BY <2>2, <3>1 DEF IInv, HalfConserved
  <2>4. intervalMs * lead
          = 2 * intervalMs * (half - tokens) - refillRate * (3 * intervalMs)
    BY <2>1
  <2>5. 2 * intervalMs * (half - tokens) \in Int /\ refillRate * (3 * intervalMs) \in Int
    BY <2>1
  <2>6. lead \in Int
    BY <2>1
  <2>7. lead <= 0
    <3> HIDE DEF lead
    <3>1. intervalMs * lead <= 0
      BY <2>3, <2>4, <2>5
    <3> QED BY <2>1, <2>6, <3>1, TimesCancels
  <2> QED BY <2>1, <2>7 DEF HalfRateKept
<1> QED BY <1>1, InductiveInvariant, PTL
=============================================================================
