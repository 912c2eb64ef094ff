----------------------------- MODULE RateLimiter -----------------------------
(***************************************************************************)
(* streaming/nats_client.go, RateLimiter: the token bucket every           *)
(* publication passes, once for all its messages.  TryAcquire reads the    *)
(* clock and works under r.mu, so it is one action; time is counted in     *)
(* milliseconds.                                                           *)
(*                                                                         *)
(* History variables let the properties speak of the grants, the calls of  *)
(* TryAcquire that returned true: in all, in a window that opens at any    *)
(* moment, and next to two exact buckets:                                  *)
(* the larger one that the limiter never grants more than, and one that is *)
(* refilled at half the rate.                                              *)
(***************************************************************************)
EXTENDS Integers

CONSTANTS
    maxTokens,    \* r.maxTokens: 100 in NewNATSClient
    refillRate,   \* r.refillRate: 10
    intervalMs,   \* r.intervalMs: 1000
    MaxTime       \* bound: the last millisecond

ASSUME BucketAssumption ==
    /\ maxTokens \in Nat
    /\ refillRate \in Nat
    /\ intervalMs \in Nat \ {0}
    /\ MaxTime \in Nat

VARIABLES
    now,          \* milliseconds since the limiter was made
    tokens,       \* r.tokens
    lastRefill,   \* r.lastRefill
    granted,      \* history: grants so far
    winStart,     \* history: when the observed window opened, or NoWindow
    winGranted,   \* history: grants inside it
    half,         \* history: the tokens of a bucket with half the rate, less its debt
    halfRefill,   \* history: the time up to which it was refilled
    level         \* history: what is left in the larger bucket

bucket == <<tokens, lastRefill>>
window == <<winStart, winGranted>>
halfBucket == <<half, halfRefill>>
vars == <<now, bucket, granted, window, halfBucket, level>>

NoWindow == -1

TypeOK ==
    /\ now \in 0..MaxTime
    /\ tokens \in 0..maxTokens
    /\ lastRefill \in 0..now
    /\ granted \in Nat
    /\ winStart \in {NoWindow} \cup (0..now)
    /\ winGranted \in Nat
    /\ half \in Int
    /\ halfRefill \in 0..now
    /\ level \in Nat

Init ==
    /\ now = 0
    /\ tokens = maxTokens
    /\ lastRefill = 0
    /\ granted = 0
    /\ winStart = NoWindow
    /\ winGranted = 0
    /\ half = maxTokens
    /\ halfRefill = 0
    /\ level = maxTokens * intervalMs

AtMost(a, b) == IF a > b THEN b ELSE a

\* How many whole intervals have passed since t.
Intervals(t) == (now - t) \div intervalMs

\* Intervals that are cut short count as whole ones.
RefilledRoundingUp ==
    IF now - lastRefill > 0
    THEN AtMost(tokens + refillRate * (Intervals(lastRefill) + 1), maxTokens)
    ELSE tokens

\* The bucket is not capped.
RefilledUncapped ==
    IF now - lastRefill >= intervalMs
    THEN tokens + refillRate * Intervals(lastRefill)
    ELSE tokens

\* r.tokens after the refill, if one is due.
Refilled ==
    IF now - lastRefill >= intervalMs
    THEN AtMost(tokens + refillRate * Intervals(lastRefill), maxTokens)
    ELSE tokens

\* The time of the refill is not recorded.
RefillTimeForgotten == lastRefill

\* Every attempt restarts the interval, the refused ones included.
RefillTimeRestarted == now

\* The elapsed part of an interval is dropped: the refill counts from now.
RefillTime == IF now - lastRefill >= intervalMs THEN now ELSE lastRefill

\* Time that has passed up to now, in intervals of twice the length; this bucket
\* loses a part of one only while it is full.
HalfIntervals == (now - halfRefill) \div (2 * intervalMs)
HalfRefilled == AtMost(half + refillRate * HalfIntervals, maxTokens)
HalfRefillTime ==
    IF half + refillRate * HalfIntervals >= maxTokens THEN now
    ELSE halfRefill + 2 * intervalMs * HalfIntervals

TryAcquire ==
    /\ lastRefill' = RefillTime
    /\ halfRefill' = HalfRefillTime
    /\ \/ /\ Refilled > 0
          /\ tokens' = Refilled - 1
          /\ granted' = granted + 1
          /\ winGranted' = IF winStart = NoWindow THEN 0 ELSE winGranted + 1
          /\ half' = HalfRefilled - 1
          /\ level' = level - intervalMs
       \/ /\ Refilled = 0
          /\ tokens' = Refilled
          /\ half' = HalfRefilled
          /\ UNCHANGED <<granted, winGranted, level>>
    /\ UNCHANGED <<now, winStart>>

\* One lot beyond the capacity of r, for the interval that runs when a burst
\* begins.
Capacity == maxTokens + refillRate

Tick ==
    /\ now < MaxTime
    /\ now' = now + 1
    /\ level' = AtMost(level + refillRate, Capacity * intervalMs)
    /\ UNCHANGED <<bucket, granted, window, halfBucket>>

\* The observer opens its window.
Observe ==
    /\ winStart = NoWindow
    /\ winStart' = now
    /\ UNCHANGED <<now, bucket, granted, winGranted, halfBucket, level>>

Next == TryAcquire \/ Tick \/ Observe

Spec == Init /\ [][Next]_vars

-----------------------------------------------------------------------------
(* Properties *)

\* Over its whole life the limiter makes as many grants as the burst and the
\* sustained rate allow and no more, whenever the attempts fall.
LifetimeBound == granted <= maxTokens + refillRate * (now \div intervalMs)

\* RateLimiter implements TokenBucket: although the refills come in lots and at
\* times that the attempts decide, TryAcquire makes no grant that a bucket larger by
\* one lot, with a steady flow at the sustained rate, would have refused.  This bounds
\* publications; STREAMING.md:318-319 counts messages, of which one has several.
Bucket == INSTANCE TokenBucket WITH
    capacity <- Capacity, start <- maxTokens, rate <- refillRate, interval <- intervalMs

ImplementsBucket == Bucket!Spec

\* In any window of time the grants are at most the burst and the sustained rate,
\* plus one refill for the interval that was running when the window opened.
WindowBound ==
    winStart # NoWindow =>
        winGranted <= maxTokens + refillRate * ((now - winStart) \div intervalMs + 1)

\* Throttling does not starve: though each refill drops the part of an interval
\* that had passed, an exact bucket of half the rate, charged with the same
\* grants, is never more than one and a half lots ahead.  A client that is
\* refused has therefore used up at least half the sustained rate.
HalfRateKept == 2 * (half - tokens) <= 3 * refillRate

-----------------------------------------------------------------------------
(* The inductive invariant behind the bounds. *)

\* What was granted and what is left never exceeds what was put in.
Conserved ==
    granted + tokens <= maxTokens + refillRate * (lastRefill \div intervalMs)

\* Once the window has seen a grant, the last refill is less than an interval
\* older than the window, and each later refill is paid by time in the window.
WindowConserved ==
    IF winStart = NoWindow THEN winGranted = 0
    ELSE winGranted > 0 =>
            IF lastRefill < winStart
            THEN /\ winStart - lastRefill < intervalMs
                 /\ winGranted + tokens <= maxTokens
            ELSE winGranted + tokens
                    <= maxTokens + refillRate * ((lastRefill - winStart) \div intervalMs + 1)

\* The half bucket's lead is paid by the time it has been refilled for and the
\* code's bucket has not.  A refill by k intervals takes less than 2k of them.
HalfConserved ==
    /\ 2 * intervalMs * (half - tokens) <=
           refillRate * (2 * intervalMs + halfRefill - lastRefill)
    /\ halfRefill - lastRefill < intervalMs
    /\ half <= maxTokens

\* The larger bucket holds, unless it is full, what the code's holds and what has
\* flowed since the last refill.
LevelKept ==
    level >= AtMost(intervalMs * tokens + refillRate * (now - lastRefill),
                    Capacity * intervalMs)

IInv == TypeOK /\ Conserved /\ WindowConserved /\ HalfConserved /\ LevelKept
=============================================================================
