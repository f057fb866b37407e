-------------------------- MODULE AccountingProofs --------------------------
(***************************************************************************)
(* Facts that the proofs of several components rest on: least numbers and  *)
(* induction, sums, and what the operations of a token bucket preserve and *)
(* take.                                                                   *)
(***************************************************************************)
EXTENDS TokenBucket, Totals, FiniteSetTheorems, TLAPS

\* A set of natural numbers has a least one.  (The induction theorems of the
\* library take operators, which the provers cannot instantiate; this one and
\* the next take sets.)
LEMMA LeastNumber ==
  ASSUME NEW S \in SUBSET Nat, S # {}
  PROVE  \E n \in S : \A m \in S : n <= m
<1>1. PICK n \in S : \A m \in S : ~(<<m, n>> \in OpToRel(<, Nat))
  BY NatLessThanWellFounded, WFMin
<1>2. \A m \in S : ~(m < n)
  BY <1>1 DEF OpToRel
<1>3. QED
  BY <1>2

\* Induction on natural numbers.
LEMMA SetInduction ==
  ASSUME NEW S, 0 \in S, \A n \in Nat : n \in S => n + 1 \in S
  PROVE  Nat \subseteq S
<1> SUFFICES ASSUME Nat \ S # {} PROVE FALSE
  OBVIOUS
<1>1. PICK n \in Nat \ S : \A m \in Nat \ S : n <= m
  BY LeastNumber
<1>2. n # 0 /\ n - 1 \in Nat
  OBVIOUS
<1>3. QED
  BY <1>1, <1>2

----------------------------------------------------------------------------
\* The counters of a function over a finite set are finitely many, so that
\* Total is a natural number.
LEMMA TotalType ==
  ASSUME NEW S, IsFiniteSet(S), NEW f \in [S -> Nat]
  PROVE  IsFiniteSet(Counters(f)) /\ Total(f) \in Nat
<1> DEFINE stack == [x \in S |-> {x} \X (1 .. f[x])]
           T == {{x} \X (1 .. f[x]) : x \in S}
<1>1. stack \in Surjection(S, T)
  BY DEF Surjection
<1>2. IsFiniteSet(T)
  BY <1>1, FS_Surjection
<1>3. \A x \in S : IsFiniteSet({x} \X (1 .. f[x]))
  <2> TAKE x \in S
  <2>1. IsFiniteSet(1 .. f[x])
    BY FS_Interval
  <2>2. QED
    BY <2>1, FS_Singleton, FS_Product
<1>4. IsFiniteSet(UNION T)
  BY <1>2, <1>3, FS_UNION
<1>5. Counters(f) = UNION T
  BY DEF Counters
<1>6. QED
  BY <1>4, <1>5, FS_CardinalityType DEF Total

\* The stack of one element is as high as the function says.
LEMMA StackHeight ==
  ASSUME NEW x, NEW n \in Nat
  PROVE  IsFiniteSet({x} \X (1 .. n)) /\ Cardinality({x} \X (1 .. n)) = n
<1>1. IsFiniteSet(1 .. n) /\ Cardinality(1 .. n) = n
  BY FS_Interval
<1>2. IsFiniteSet({x}) /\ Cardinality({x}) = 1
  BY FS_Singleton
<1>3. QED
  BY <1>1, <1>2, FS_Product

\* Total without x's stack plus x's stack.
LEMMA TotalSplit ==
  ASSUME NEW S, IsFiniteSet(S), NEW f \in [S -> Nat], NEW x \in S
  PROVE  LET rest == {c \in Counters(f) : c[1] # x}
         IN  /\ IsFiniteSet(rest) /\ Cardinality(rest) \in Nat
             /\ Total(f) = Cardinality(rest) + f[x]
<1> DEFINE rest == {c \in Counters(f) : c[1] # x}
           mine == {x} \X (1 .. f[x])
<1>1. IsFiniteSet(Counters(f))
  BY TotalType
<1>2. IsFiniteSet(rest) /\ Cardinality(rest) \in Nat
  BY <1>1, FS_Subset, FS_CardinalityType
<1>3. IsFiniteSet(mine) /\ Cardinality(mine) = f[x]
  BY StackHeight
<1>4. Counters(f) = rest \cup mine
  BY DEF Counters
<1>5. rest \cap mine = {}
  OBVIOUS
<1>6. Cardinality(rest \cup mine) = Cardinality(rest) + Cardinality(mine)
  <2> HIDE DEF rest, mine
  <2>1. Cardinality(rest \cup mine)
          = Cardinality(rest) + Cardinality(mine) - Cardinality(rest \cap mine)
    BY <1>2, <1>3, FS_Union
  <2>2. Cardinality(rest \cap mine) = 0
    BY <1>5, FS_EmptySet
  <2>3. f[x] \in Nat
    OBVIOUS
  <2>4. QED
    BY <1>2, <1>3, <2>1, <2>2, <2>3
<1>7. QED
  BY <1>2, <1>3, <1>4, <1>6 DEF Total

\* Changing one value changes the sum by the difference.
THEOREM TotalUpdate ==
  ASSUME NEW S, IsFiniteSet(S), NEW f \in [S -> Nat], NEW x \in S,
         NEW v \in Nat
  PROVE  /\ f[x] <= Total(f)
         /\ Total([f EXCEPT ![x] = v]) = Total(f) - f[x] + v
<1> DEFINE h == [f EXCEPT ![x] = v]
           Rest(F) == {c \in Counters(F) : c[1] # x}
<1>1. h \in [S -> Nat] /\ h[x] = v
  OBVIOUS
<1>2. Rest(h) = Rest(f)
  BY DEF Counters
<1>3. Total(f) = Cardinality(Rest(f)) + f[x] /\ Cardinality(Rest(f)) \in Nat
  BY TotalSplit
<1>4. Total(h) = Cardinality(Rest(h)) + v
  BY <1>1, TotalSplit
<1>5. f[x] \in Nat
  OBVIOUS
<1> HIDE DEF h, Rest
<1>6. f[x] <= Total(f) /\ Total(h) = Total(f) - f[x] + v
  BY <1>2, <1>3, <1>4, <1>5
<1>7. QED
  BY <1>6 DEF h

\* The same for two functions that differ in one place.
LEMMA TotalChange ==
  ASSUME NEW S, IsFiniteSet(S), NEW f \in [S -> Nat], NEW g \in [S -> Nat], NEW x \in S,
         \A y \in S \ {x} : g[y] = f[y]
  PROVE  /\ Total(f) \in Nat /\ Total(g) \in Nat /\ f[x] <= Total(f)
         /\ Total(g) = Total(f) - f[x] + g[x]
<1>1. PICK v \in Nat : v = g[x]
  OBVIOUS
<1>2. g = [f EXCEPT ![x] = v]
  BY <1>1
<1>3. Total([f EXCEPT ![x] = v]) = Total(f) - f[x] + v /\ f[x] <= Total(f)
  BY TotalUpdate
<1>4. Total(f) \in Nat /\ Total(g) \in Nat
  BY TotalType
<1>5. QED
  BY <1>1, <1>2, <1>3, <1>4

\* One more value is added to the sum ...
LEMMA TotalGrow ==
  ASSUME NEW S, IsFiniteSet(S), NEW x, x \notin S, NEW f \in [S -> Nat],
         NEW g \in [S \cup {x} -> Nat], \A y \in S : g[y] = f[y]
  PROVE  Total(f) \in Nat /\ Total(g) \in Nat /\ Total(g) = Total(f) + g[x]
<1> DEFINE rest == {c \in Counters(g) : c[1] # x}
<1>1. IsFiniteSet(S \cup {x})
  BY FS_AddElement
<1>2. rest = Counters(f)
  BY DEF Counters
<1>3. Total(g) = Cardinality(rest) + g[x]
  BY <1>1, TotalSplit
<1> HIDE DEF rest
<1>4. Total(f) \in Nat /\ Total(g) \in Nat
  BY <1>1, TotalType
<1>5. QED
  BY <1>2, <1>3, <1>4 DEF Total

\* ... and without some values the sum is no greater.
LEMMA TotalPart ==
  ASSUME NEW S, IsFiniteSet(S), NEW T \in SUBSET S, NEW f \in [S -> Nat], NEW g \in [T -> Nat],
         \A y \in T : g[y] = f[y]
  PROVE  Total(f) \in Nat /\ Total(g) \in Nat /\ Total(g) <= Total(f)
<1>1. Counters(g) \subseteq Counters(f)
  BY DEF Counters
<1>2. IsFiniteSet(T)
  BY FS_Subset
<1>3. Total(f) \in Nat /\ Total(g) \in Nat /\ IsFiniteSet(Counters(f))
  BY <1>2, TotalType
<1>4. QED
  BY <1>1, <1>3, FS_Subset DEF Total

\* A total of numbers none of which is larger.
LEMMA TotalMore ==
  ASSUME NEW S, IsFiniteSet(S), NEW f \in [S -> Nat], NEW g \in [S -> Nat],
         \A y \in S : g[y] <= f[y]
  PROVE  Total(f) \in Nat /\ Total(g) \in Nat /\ Total(g) <= Total(f)
<1>1. Counters(g) \subseteq Counters(f)
  BY DEF Counters
<1>2. Total(f) \in Nat /\ Total(g) \in Nat /\ IsFiniteSet(Counters(f))
  BY TotalType
<1>3. QED
  BY <1>1, <1>2, FS_Subset DEF Total

\* The sum of a function that is zero everywhere.
LEMMA TotalZero ==
  ASSUME NEW S
  PROVE  Total([x \in S |-> 0]) = 0
<1>1. Counters([x \in S |-> 0]) = {}
  BY DEF Counters
<1>2. QED
  BY <1>1, FS_EmptySet DEF Total

----------------------------------------------------------------------------
\* A bucket that is not overfull and was not refilled in the future.
Sane(tb, now) ==
  /\ tb \in TokenBuckets
  /\ tb.tokens <= tb.maxTokens
  /\ tb.lastRefillTime <= now

\* Two buckets with the same configuration.
SameConfig(a, b) ==
  a.maxTokens = b.maxTokens /\ a.refillRate = b.refillRate /\ a.unit = b.unit

\* A product of naturals is a natural (the provers need to be told).
LEMMA ProductNat == \A a, b \in Nat : a * b \in Nat
OBVIOUS

\* Nothing is added.
LEMMA Unmoved ==
  \A x : x \in Nat \/ x \in Int => x + 0 = x /\ x - 0 = x /\ x - 0 + 0 = x /\ x <= x /\ x >= x
OBVIOUS

\* Products are monotone, and spread over sums.
LEMMA Monotone ==
  ASSUME NEW a \in Nat, NEW b \in Int, NEW c \in Int, b <= c
  PROVE  a * b \in Int /\ a * c \in Int /\ a * b <= a * c
<1>1. a * (b + (c - b)) = a * b + a * (c - b) /\ b + (c - b) = c
  OBVIOUS
<1>2. c - b \in Nat
  OBVIOUS
<1>3. a * (c - b) \in Nat /\ a * b \in Int /\ a * c \in Int
  BY <1>2, ProductNat
<1>4. QED
  BY <1>1, <1>3

LEMMA Spread ==
  ASSUME NEW a \in Nat, NEW b \in Int, NEW c \in Int
  PROVE  /\ a * (b + c) = a * b + a * c /\ a * (b - c) = a * b - a * c
         /\ a * b \in Int /\ a * c \in Int
OBVIOUS

\* Refilling keeps the tokens there are and stops at the cap (refillLocked).
LEMMA RefilledBounds ==
  ASSUME NEW tb, NEW now \in Nat, Sane(tb, now)
  PROVE  /\ Refilled(tb, now) \in Nat
         /\ tb.tokens <= Refilled(tb, now)
         /\ Refilled(tb, now) <= tb.maxTokens
<1>1. now - tb.lastRefillTime \in Nat /\ tb.refillRate \in Nat
  BY DEF Sane, TokenBuckets
<1>2. (now - tb.lastRefillTime) * tb.refillRate \in Nat
  BY <1>1, ProductNat
<1>3. QED
  BY <1>2 DEF Sane, TokenBuckets, Refilled, AtMost

\* AllowUpToN grants between 0 and n, and only what the bucket can pay.
LEMMA GrantedBounds ==
  ASSUME NEW tb, NEW now \in Nat, Sane(tb, now), NEW n \in Nat
  PROVE  /\ Granted(tb, n, now) \in Nat
         /\ Granted(tb, n, now) <= n
         /\ Granted(tb, n, now) * tb.unit \in Nat
         /\ Granted(tb, n, now) * tb.unit <= Refilled(tb, now)
<1> DEFINE t == Refilled(tb, now)
           u == tb.unit
<1>1. t \in Nat /\ u \in Nat /\ u > 0
  BY RefilledBounds DEF Sane, TokenBuckets
<1>2. t \div u \in Nat /\ (t \div u) * u <= t /\ t < (t \div u) * u + u
  <2> HIDE DEF t, u
  <2>1. t \div u \in Nat /\ t % u \in 0 .. u - 1 /\ t = u * (t \div u) + (t % u)
    BY <1>1
  <2>2. u * (t \div u) = (t \div u) * u
    BY <1>1, <2>1
  <2>3. QED
    BY <1>1, <2>1, <2>2
<1>3. t < n * u => t \div u <= n
  <2> HIDE DEF t, u
  <2> SUFFICES ASSUME t < n * u, t \div u >= n + 1 PROVE FALSE
    BY <1>1, <1>2
  <2>1. (t \div u) * u >= (n + 1) * u
    BY <1>1, <1>2
  <2>2. (n + 1) * u = n * u + u
    BY <1>1
  <2>3. QED
    BY <1>1, <1>2, <2>1, <2>2
<1>4. CASE n = 0
  BY <1>1, <1>4 DEF Granted
<1>5. CASE n > 0 /\ t >= n * u
  BY <1>1, <1>5 DEF Granted
<1>6. CASE n > 0 /\ ~(t >= n * u)
  <2>1. Granted(tb, n, now) = t \div u
    BY <1>6 DEF Granted
  <2>2. n * u \in Nat
    BY <1>1, ProductNat
  <2> HIDE DEF t, u
  <2>3. t < n * u
    BY <1>1, <1>6, <2>2
  <2>4. (t \div u) * u \in Nat
    BY <1>1, <1>2, ProductNat
  <2>5. QED
    BY <1>2, <1>3, <2>1, <2>3, <2>4 DEF t, u
<1>7. QED
  BY <1>4, <1>5, <1>6

\* AllowUpToN leaves the bucket sane and takes exactly what it grants.
LEMMA AllowUpToNEffect ==
  ASSUME NEW tb, NEW now \in Nat, Sane(tb, now), NEW n \in Nat
  PROVE  LET after == AllowUpToN(tb, n, now)
         IN  /\ Sane(after, now)
             /\ SameConfig(after, tb)
             /\ Refilled(after, now) = Refilled(tb, now) - Granted(tb, n, now) * tb.unit
<1> DEFINE after == AllowUpToN(tb, n, now)
           t == Refilled(tb, now)
           cost == Granted(tb, n, now) * tb.unit
<1>1. t \in Nat /\ t <= tb.maxTokens /\ cost \in Nat /\ cost <= t
  BY RefilledBounds, GrantedBounds
<1>2. CASE n = 0
  <2>1. after = tb /\ cost = 0
    BY <1>2, <1>1 DEF AllowUpToN, Granted, Sane, TokenBuckets
  <2>2. QED
    BY <1>1, <2>1 DEF SameConfig
<1>3. CASE n > 0
  <2> DEFINE full == refillLocked(tb, now)
  <2>0. /\ full \in TokenBuckets /\ full.tokens = t /\ full.lastRefillTime = now
        /\ SameConfig(full, tb)
    BY <1>1 DEF refillLocked, Sane, TokenBuckets, SameConfig
  <2> HIDE DEF full
  <2>1. after = [full EXCEPT !.tokens = t - cost]
    BY <1>3, <2>0 DEF AllowUpToN, full, TokenBuckets
  <2> HIDE DEF t, cost, after
  <2>2. /\ after \in TokenBuckets /\ after.tokens = t - cost
        /\ after.lastRefillTime = now
        /\ SameConfig(after, tb)
    BY <1>1, <2>0, <2>1 DEF TokenBuckets, SameConfig
  <2>3. Sane(after, now)
    BY <1>1, <2>2 DEF Sane, SameConfig, TokenBuckets
  <2>4. (now - after.lastRefillTime) * after.refillRate = 0
    BY <2>2 DEF TokenBuckets
  <2>5. Refilled(after, now) = t - cost
    BY <1>1, <2>2, <2>3, <2>4 DEF Refilled, AtMost, Sane, TokenBuckets, SameConfig
  <2>6. QED
    BY <2>2, <2>3, <2>5 DEF t, cost, after
<1>4. QED
  BY <1>2, <1>3

\* Refund, although it neither refills nor moves the clock, has the effect of
\* refilling first: capping before or after the refill makes no difference.
LEMMA RefundEffect ==
  ASSUME NEW tb, NEW now \in Nat, Sane(tb, now), NEW n \in Nat
  PROVE  LET after == Refund(tb, n)
         IN  /\ Sane(after, now)
             /\ SameConfig(after, tb)
             /\ Refilled(after, now) =
                  AtMost(Refilled(tb, now) + n * tb.unit, tb.maxTokens)
<1> DEFINE after == Refund(tb, n)
           back == n * tb.unit
           gain == (now - tb.lastRefillTime) * tb.refillRate
<1>1. back \in Nat /\ gain \in Nat
  BY ProductNat DEF Sane, TokenBuckets
<1>2. Refilled(tb, now) \in Nat /\ Refilled(tb, now) <= tb.maxTokens
  BY RefilledBounds
<1>3. CASE n = 0
  <2>1. after = tb /\ back = 0
    BY <1>3 DEF Refund, Sane, TokenBuckets
  <2>2. QED
    BY <1>2, <2>1 DEF SameConfig, AtMost, Sane, TokenBuckets
<1>4. CASE n > 0
  <2>1. after = [tb EXCEPT !.tokens = AtMost(tb.tokens + back, tb.maxTokens)]
    BY <1>4 DEF Refund, Sane, TokenBuckets
  <2> HIDE DEF after, back, gain
  <2>2. /\ after.tokens = AtMost(tb.tokens + back, tb.maxTokens)
        /\ after \in TokenBuckets /\ SameConfig(after, tb)
        /\ after.lastRefillTime = tb.lastRefillTime
        /\ after.tokens <= tb.maxTokens
    BY <1>1, <2>1 DEF Sane, TokenBuckets, AtMost, SameConfig
  <2>3. Sane(after, now)
    BY <2>2 DEF Sane, SameConfig
  <2>4. Refilled(after, now) = AtMost(after.tokens + gain, tb.maxTokens)
    BY <2>2 DEF Refilled, SameConfig, gain
  <2>5. Refilled(tb, now) = AtMost(tb.tokens + gain, tb.maxTokens)
    BY DEF Refilled, gain
  <2>6. Refilled(after, now) = AtMost(Refilled(tb, now) + back, tb.maxTokens)
    BY <1>1, <2>2, <2>4, <2>5 DEF AtMost, Sane, TokenBuckets
  <2>7. QED
    BY <2>2, <2>3, <2>6 DEF after, back
<1>5. QED
  BY <1>3, <1>4

\* One tick refills at most refillRate and takes nothing away.
LEMMA RefilledTick ==
  ASSUME NEW tb, NEW now \in Nat, Sane(tb, now)
  PROVE  /\ Sane(tb, now + 1)
         /\ Refilled(tb, now) <= Refilled(tb, now + 1)
         /\ Refilled(tb, now + 1) <= Refilled(tb, now) + tb.refillRate
<1> DEFINE gain == (now - tb.lastRefillTime) * tb.refillRate
<1>1. gain \in Nat
  BY ProductNat DEF Sane, TokenBuckets
<1>2. (now + 1 - tb.lastRefillTime) * tb.refillRate = gain + tb.refillRate
  BY DEF Sane, TokenBuckets
<1> HIDE DEF gain
<1>3. QED
  BY <1>1, <1>2 DEF Sane, TokenBuckets, Refilled, AtMost, gain

\* Bringing a bucket up to date is no gain and no loss.
LEMMA RefillEffect ==
  ASSUME NEW tb, NEW now \in Nat, Sane(tb, now)
  PROVE  LET after == refillLocked(tb, now)
         IN  /\ Sane(after, now) /\ SameConfig(after, tb)
             /\ Refilled(after, now) = Refilled(tb, now)
<1> DEFINE after == refillLocked(tb, now)
           t == Refilled(tb, now)
<1>1. t \in Nat /\ t <= tb.maxTokens
  BY RefilledBounds
<1>2. /\ after \in TokenBuckets /\ after.tokens = t /\ after.lastRefillTime = now
      /\ SameConfig(after, tb)
  BY <1>1 DEF refillLocked, Sane, TokenBuckets, SameConfig
<1> HIDE DEF after, t
<1>3. Sane(after, now)
  BY <1>1, <1>2 DEF Sane, SameConfig, TokenBuckets
<1>4. (now - after.lastRefillTime) * after.refillRate = 0
  BY <1>2 DEF TokenBuckets
<1>5. Refilled(after, now) = t
  BY <1>1, <1>2, <1>3, <1>4 DEF Refilled, AtMost, Sane, TokenBuckets, SameConfig
<1>6. QED
  BY <1>2, <1>3, <1>5 DEF after, t

\* A new bucket is full.
LEMMA NewBucketFull ==
  ASSUME NEW limit \in Nat, NEW period \in Nat \ {0}, NEW now \in Nat
  PROVE  LET tb == NewTokenBucket(limit, period, now)
         IN  /\ Sane(tb, now) /\ tb.maxTokens = limit * period
             /\ tb.refillRate = limit /\ tb.unit = period
             /\ Refilled(tb, now) = limit * period
<1> DEFINE full == limit * period
           tb == NewTokenBucket(limit, period, now)
<1>1. full \in Nat
  BY ProductNat
<1>2. tb = [tokens |-> full, maxTokens |-> full, refillRate |-> limit,
            lastRefillTime |-> now, unit |-> period]
  BY DEF NewTokenBucket
<1> HIDE DEF full, tb
<1>3. Sane(tb, now)
  BY <1>1, <1>2 DEF Sane, TokenBuckets
<1>4. (now - now) * limit = 0
  OBVIOUS
<1>5. Refilled(tb, now) = full
  BY <1>1, <1>2, <1>4 DEF Refilled, AtMost
<1>6. QED
  BY <1>2, <1>3, <1>5 DEF full, tb
=============================================================================
