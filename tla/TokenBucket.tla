---------------------------- MODULE TokenBucket ----------------------------
(***************************************************************************)
(* The token bucket of ratelimiter.go as operators on records.             *)
(*                                                                         *)
(* The code counts tokens in float64 and time in seconds.  Here time is a  *)
(* number of ticks and a period lasts `period' ticks, so that one token is *)
(* exactly `period' units and a bucket of `limit' tokens per period gains  *)
(* `limit' units per tick.  Fractions of a token are whole numbers of      *)
(* units; rounding of float64 is abstracted away.                          *)
(***************************************************************************)
EXTENDS Integers

\* The smaller of two numbers: the cap "if tokens > maxTokens".
AtMost(a, cap) == IF a > cap THEN cap ELSE a

\* A bucket.  `unit' is the price of one item, i.e. the period.
TokenBuckets == [tokens : Nat, maxTokens : Nat, refillRate : Nat,
                 lastRefillTime : Nat, unit : Nat \ {0}]

NewTokenBucket(limit, period, now) ==
  [tokens |-> limit * period, maxTokens |-> limit * period,
   refillRate |-> limit, lastRefillTime |-> now, unit |-> period]

\* What the bucket holds once it is brought up to date.
Refilled(tb, now) ==
  AtMost(tb.tokens + (now - tb.lastRefillTime) * tb.refillRate, tb.maxTokens)

refillClockStuck(tb, now) == [tb EXCEPT !.tokens = Refilled(tb, now)]
refillLocked(tb, now) ==
  [tb EXCEPT !.tokens = Refilled(tb, now), !.lastRefillTime = now]

\* How many of n items the bucket can afford at `now' (AllowUpToN's result):
\* all of them, or else the whole tokens there are.
Granted(tb, n, now) ==
  LET t == Refilled(tb, now)
  IN  IF n <= 0 THEN 0 ELSE IF t >= n * tb.unit THEN n ELSE t \div tb.unit

AllowUpToNOverdrawn(tb, n, now) ==
  [refillLocked(tb, now) EXCEPT !.tokens = @ - n * tb.unit]
\* The bucket after AllowUpToN(n).  Nothing is even refilled when n <= 0.
AllowUpToN(tb, n, now) ==
  IF n <= 0 THEN tb
  ELSE [refillLocked(tb, now)
          EXCEPT !.tokens = @ - Granted(tb, n, now) * tb.unit]

\* Refund adds tokens up to the cap; it neither refills nor touches the clock.
Refund(tb, n) ==
  IF n <= 0 THEN tb
  ELSE [tb EXCEPT !.tokens = AtMost(@ + n * tb.unit, tb.maxTokens)]
=============================================================================
