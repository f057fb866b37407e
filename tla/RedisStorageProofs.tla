------------------------- MODULE RedisStorageProofs -------------------------
(***************************************************************************)
(* The budget of a fleet of replicas that share their buckets in Redis,    *)
(* for any number of replicas, goroutines and keys, any limits, and        *)
(* scripts that are late, overtake each other or get lost.                 *)
(***************************************************************************)
EXTENDS RedisStorage, AccountingProofs

Calls == [key : Keys, n : Nat \ {0}, whole : BOOLEAN, globalGranted : Nat, keyGranted : Nat]

Takes == {"global", "key"}
GivesBack == {"surplus", "undoKey", "undoGlobal"}

\* What the locals of a goroutine look like at each of its Storage calls.
CallOK(hg, l, c) ==
  /\ l = "idle" => c = NoCall
  /\ l # "idle" => c \in Calls /\ c.globalGranted <= c.n /\ c.keyGranted <= c.globalGranted
  /\ l \in {"global", "surplus", "undoGlobal"} => hg
  /\ l = "global" => c.globalGranted = c.n
  /\ l \in Takes => c.keyGranted = 0 /\ c.globalGranted > 0
  /\ l = "surplus" => c.keyGranted < c.globalGranted
  /\ l \in {"undoKey", "undoGlobal"} => c.whole /\ 0 < c.keyGranted /\ c.keyGranted < c.n

\* Bucket and Amount of a goroutine at label l with locals c.
BucketOf(l, c) == IF l \in {"global", "surplus", "undoGlobal"} THEN globalKey ELSE c.key
AmountOf(l, c) ==
  CASE l = "global" -> c.n
    [] l = "key" -> c.globalGranted
    [] l = "surplus" -> c.globalGranted - c.keyGranted
    [] OTHER -> c.keyGranted

\* What a goroutine was granted by bucket b and has neither admitted nor
\* given back ...
Hold(hg, l, c, b) ==
  CASE l = "key" /\ hg /\ b = globalKey -> c.globalGranted
    [] l = "surplus" /\ b = globalKey -> (c.globalGranted - c.keyGranted) + Undone(c)
    [] l \in {"undoKey", "undoGlobal"} /\ hg /\ b = globalKey -> c.keyGranted
    [] l \in {"surplus", "undoKey"} /\ b = c.key -> Undone(c)
    [] OTHER -> 0

\* ... and what the script it waits for asks of b, or gives back to it.
SentAllow(l, c, o, b) ==
  IF o # None /\ l \in Takes /\ b = BucketOf(l, c) THEN AmountOf(l, c) ELSE 0
SentRefund(l, c, o, b) ==
  IF o # None /\ l \in GivesBack /\ b = BucketOf(l, c) THEN AmountOf(l, c) ELSE 0

\* What a script on its way asks of b, or gives back to it.
Wanted(m, b) == IF m.kind = "allow" /\ m.b = b THEN m.n ELSE 0
Given(m, b) == IF m.kind = "refund" /\ m.b = b THEN m.n ELSE 0

Held(b) == Total([p \in Procs |-> Hold(hasGlobal, pc[p], call[p], b)])
Sending(b) == Total([p \in Procs |-> SentAllow(pc[p], call[p], out[p], b)])
Returning(b) == Total([p \in Procs |-> SentRefund(pc[p], call[p], out[p], b)])
Allowing(b) == Total([m \in msgs |-> Wanted(m, b)])
Refunding(b) == Total([m \in msgs |-> Given(m, b)])

\* The items that bucket b has paid for, and those that it will have back.
Claims(b) == admitted[b] + Held(b) + Refunding(b) - Returning(b)

\* The failures that still outweigh the scripts nobody waits for, and what
\* else accounts for the tokens missing from b.
Backed(b) == failed[b] + Sending(b) - Allowing(b)
Spare(b) == admitted[b] + Held(b) + Backed(b)

\* A script that is run now was stamped at that time or later.
Earliest == IF now > MaxDelay THEN now - MaxDelay ELSE 0

\* Nobody has more from b than b had and was refilled up to its refill clock; a
\* missing bucket has had the time to be full again.
Solvent(b) ==
  IF b \in DOMAIN redis
  THEN Period * Claims(b) + redis[b].t
         <= Limit[b] * (Period + redis[b].r + rewound[b]) + Period * failOpenItems[b]
  ELSE Period * Claims(b)
         <= Limit[b] * (Earliest + rewound[b]) + Period * failOpenItems[b]

\* Nothing has left b that is not accounted for.
Complete(b) ==
  /\ Backed(b) >= 0
  /\ b \in DOMAIN redis => redis[b].t + Period * Spare(b) >= Capacity(b)

\* A key in Redis; it stays for ttl after it was last written.
KeyOK(b) ==
  /\ redis[b] \in [t : 0 .. Capacity(b), r : Nat, exp : Nat]
  /\ redis[b].r <= now + MaxSkew /\ redis[b].r + ttl <= redis[b].exp + MaxSkew

\* A script on its way; one that is waited for is what its sender is at.
Scripts == [p : Procs, slot : 0 .. MaxLate, kind : {"allow", "refund"}, b : Buckets,
            n : Nat \ {0}, stamp : Nat]
MsgOK(m) ==
  /\ m \in Scripts /\ m.stamp <= now + skew[replica[m.p]]
  /\ Awaited(m) =>
       /\ pc[m.p] \in IF m.kind = "allow" THEN Takes ELSE GivesBack
       /\ m.b = BucketOf(pc[m.p], call[m.p]) /\ m.n = AmountOf(pc[m.p], call[m.p])

Typed ==
  /\ now \in 0 .. MaxTime /\ hasGlobal \in BOOLEAN
  /\ pc \in [Procs -> Labels] /\ DOMAIN call = Procs
  /\ out \in [Procs -> (0 .. MaxLate) \cup {None}]
  /\ admitted \in [Buckets -> Nat] /\ rewound \in [Buckets -> Nat]
  /\ failOpenItems \in [Buckets -> Nat] /\ failed \in [Buckets -> Nat]
  /\ DOMAIN redis \subseteq Buckets /\ IsFiniteSet(msgs)

\* The negative cache is bounded, also when all its entries are alive.
NegCacheBounded ==
  \A r \in Replicas : Cardinality(DOMAIN negCache[r]) <= maxNegCacheEntries

CacheOK ==
  /\ DOMAIN negCache = Replicas
  /\ \A r \in Replicas : IsFiniteSet(DOMAIN negCache[r])
  /\ NegCacheBounded

IInv ==
  /\ Typed /\ CacheOK
  /\ \A p \in Procs : CallOK(hasGlobal, pc[p], call[p]) /\ (pc[p] = "idle" => out[p] = None)
  /\ \A m \in msgs : MsgOK(m)
  /\ \A b \in DOMAIN redis : KeyOK(b)
  /\ \A b \in Buckets : Solvent(b) /\ Complete(b)

----------------------------------------------------------------------------
\* What a goroutine has, asks for and gives back are natural numbers.
LEMMA Weights ==
  ASSUME NEW hg \in BOOLEAN, NEW l \in Labels, NEW c, NEW o, NEW b, CallOK(hg, l, c)
  PROVE  /\ Hold(hg, l, c, b) \in Nat
         /\ SentAllow(l, c, o, b) \in Nat /\ SentRefund(l, c, o, b) \in Nat
         /\ l # "idle" => AmountOf(l, c) \in Nat \ {0} /\ BucketOf(l, c) \in Buckets
<1>1. l # "idle" => AmountOf(l, c) \in Nat \ {0} /\ BucketOf(l, c) \in Buckets
  BY DEF CallOK, Calls, AmountOf, BucketOf, Labels, Takes, Buckets
<1>2. Hold(hg, l, c, b) \in Nat
  BY DEF Hold, CallOK, Calls, Undone, Labels
<1>3. SentAllow(l, c, o, b) \in Nat /\ SentRefund(l, c, o, b) \in Nat
  BY <1>1, Zenon DEF SentAllow, SentRefund, Takes, GivesBack
<1>4. QED
  BY <1>1, <1>2, <1>3, Zenon

\* What the sums of the next state need to be numbers.
Base ==
  /\ Typed
  /\ \A p \in Procs : CallOK(hasGlobal, pc[p], call[p]) /\ (pc[p] = "idle" => out[p] = None)
  /\ \A m \in msgs : MsgOK(m)

Summed(b) ==
  /\ Held(b) \in Nat /\ Sending(b) \in Nat /\ Returning(b) \in Nat
  /\ Allowing(b) \in Nat /\ Refunding(b) \in Nat
  /\ admitted[b] \in Nat /\ failed[b] \in Nat /\ failOpenItems[b] \in Nat /\ now \in Nat
  /\ Claims(b) \in Int /\ Spare(b) \in Int /\ Backed(b) \in Int /\ Spare(b) >= Backed(b)

AllSummed == \A b \in Buckets : Summed(b)

LEMMA SumsBase == Base => AllSummed
<1> SUFFICES ASSUME Base, NEW b \in Buckets PROVE Summed(b)
  BY Zenon DEF AllSummed
<1>1. \A p \in Procs : /\ Hold(hasGlobal, pc[p], call[p], b) \in Nat
                       /\ SentAllow(pc[p], call[p], out[p], b) \in Nat
                       /\ SentRefund(pc[p], call[p], out[p], b) \in Nat
  BY Weights, Zenon DEF Base, Typed
<1>2. Held(b) \in Nat /\ Sending(b) \in Nat /\ Returning(b) \in Nat
  <2>1. /\ [p \in Procs |-> Hold(hasGlobal, pc[p], call[p], b)] \in [Procs -> Nat]
        /\ [p \in Procs |-> SentAllow(pc[p], call[p], out[p], b)] \in [Procs -> Nat]
        /\ [p \in Procs |-> SentRefund(pc[p], call[p], out[p], b)] \in [Procs -> Nat]
    BY <1>1, Zenon
  <2>2. IsFiniteSet(Procs)
    BY RedisNames, Zenon
  <2>3. QED
    BY <2>1, <2>2, TotalType, Zenon DEF Held, Sending, Returning
<1>3. Allowing(b) \in Nat /\ Refunding(b) \in Nat
  <2>1. \A m \in msgs : Wanted(m, b) \in Nat /\ Given(m, b) \in Nat
    BY Zenon DEF Base, MsgOK, Scripts, Wanted, Given
  <2>2. /\ [m \in msgs |-> Wanted(m, b)] \in [msgs -> Nat]
        /\ [m \in msgs |-> Given(m, b)] \in [msgs -> Nat]
    BY <2>1, Zenon
  <2>3. IsFiniteSet(msgs)
    BY Zenon DEF Base, Typed
  <2>4. QED
    BY <2>2, <2>3, TotalType, Zenon DEF Allowing, Refunding
<1>4. admitted[b] \in Nat /\ failed[b] \in Nat /\ failOpenItems[b] \in Nat /\ now \in Nat
  BY RedisNumbers DEF Base, Typed
<1>5. Claims(b) \in Int /\ Spare(b) \in Int /\ Backed(b) \in Int /\ Spare(b) >= Backed(b)
  BY <1>2, <1>3, <1>4 DEF Claims, Spare, Backed
<1>6. QED
  BY <1>2, <1>3, <1>4, <1>5, Zenon DEF Summed

LEMMA SumsNext == Base' => AllSummed'
BY SumsBase, PTL

LEMMA Sums ==
  ASSUME IInv, NEW b \in Buckets
  PROVE  /\ Held(b) \in Nat /\ Sending(b) \in Nat /\ Returning(b) \in Nat
         /\ Allowing(b) \in Nat /\ Refunding(b) \in Nat
         /\ admitted[b] \in Nat /\ rewound[b] \in Nat /\ failed[b] \in Nat
         /\ failOpenItems[b] \in Nat /\ Limit[b] \in Nat /\ Period \in Nat /\ Period > 0
         /\ Claims(b) \in Int /\ Spare(b) \in Int /\ Backed(b) \in Int
         /\ Spare(b) >= Backed(b) /\ now \in Nat
<1>1. Base
  BY Zenon DEF IInv, Base
<1>2. Summed(b)
  BY <1>1, SumsBase, Zenon DEF AllSummed
<1>3. rewound[b] \in Nat /\ Limit[b] \in Nat /\ Period \in Nat /\ Period > 0
  BY RedisNumbers DEF IInv, Typed
<1>4. QED
  BY <1>2, <1>3, Zenon DEF Summed

\* What the scripts that are waited for give back, their senders have.
LEMMA ReturningHeld ==
  ASSUME IInv, NEW b \in Buckets
  PROVE  Returning(b) <= Held(b)
<1> DEFINE f == [p \in Procs |-> Hold(hasGlobal, pc[p], call[p], b)]
           g == [p \in Procs |-> SentRefund(pc[p], call[p], out[p], b)]
<1>1. ASSUME NEW p \in Procs
      PROVE  /\ Hold(hasGlobal, pc[p], call[p], b) \in Nat
             /\ SentRefund(pc[p], call[p], out[p], b) \in Nat
             /\ SentRefund(pc[p], call[p], out[p], b) <= Hold(hasGlobal, pc[p], call[p], b)
  <2>1. PICK hg, l, c, o : hg = hasGlobal /\ l = pc[p] /\ c = call[p] /\ o = out[p]
    BY Zenon
  <2>2. CallOK(hg, l, c) /\ l \in Labels /\ hg \in BOOLEAN
    BY <2>1, Zenon DEF IInv, Typed
  <2>3. Hold(hg, l, c, b) \in Nat /\ SentRefund(l, c, o, b) \in Nat
    BY <2>2, Weights, Zenon
  <2>4. SentRefund(l, c, o, b) <= Hold(hg, l, c, b)
    <3>1. CASE l \notin GivesBack
      BY <2>3, <3>1 DEF SentRefund
    <3>2. CASE l \in GivesBack
      <4>1. PICK n, gG, kG \in Nat : n = c.n /\ gG = c.globalGranted /\ kG = c.keyGranted
        BY <2>2, <3>2, Zenon DEF CallOK, Calls, GivesBack
      <4>2. c.key # globalKey /\ kG <= gG /\ gG <= n /\ Undone(c) \in Nat
        BY <2>2, <3>2, <4>1, RedisNames, Zenon DEF CallOK, Calls, GivesBack, Undone
      <4>3. CASE l = "surplus"
        BY <2>2, <2>3, <4>1, <4>2, <4>3 DEF SentRefund, Hold, BucketOf, AmountOf
      <4>4. CASE l = "undoKey"
        <5>1. Undone(c) = kG
          BY <2>2, <4>1, <4>4, Zenon DEF CallOK, Undone
        <5>2. QED
          BY <2>3, <4>1, <4>2, <4>4, <5>1 DEF SentRefund, Hold, BucketOf, AmountOf
      <4>5. CASE l = "undoGlobal"
        <5>1. hg
          BY <2>2, <4>5, Zenon DEF CallOK
        <5>2. QED
          BY <2>3, <4>1, <4>2, <4>5, <5>1 DEF SentRefund, Hold, BucketOf, AmountOf
      <4>6. QED
        BY <3>2, <4>3, <4>4, <4>5, Zenon DEF GivesBack
    <3>3. QED
      BY <3>1, <3>2, Zenon
  <2>5. QED
    BY <2>1, <2>3, <2>4, Zenon
<1>2. f \in [Procs -> Nat] /\ g \in [Procs -> Nat] /\ \A p \in Procs : g[p] <= f[p]
  BY <1>1, Zenon
<1>3. Held(b) = Total(f) /\ Returning(b) = Total(g)
  BY Zenon DEF Held, Returning
<1> HIDE DEF f, g
<1>4. QED
  BY <1>2, <1>3, TotalMore, RedisNames, Zenon

LEMMA AdmittedClaimed ==
  ASSUME IInv, NEW b \in Buckets
  PROVE  Claims(b) \in Int /\ admitted[b] <= Claims(b)
BY Sums, ReturningHeld DEF Claims

\* The entries that the calls make in the account of b: a granted out of an
\* answered or failed Allow of v, ...
LEMMA EnterGrant ==
  ASSUME NEW b, Summed(b), Summed(b)', NEW a \in Nat, NEW v \in Nat,
         admitted'[b] + Held(b)' = admitted[b] + Held(b) + a,
         Sending(b)' = Sending(b) - v, Returning(b)' = Returning(b),
         Refunding(b)' = Refunding(b),
         \/ Allowing(b)' = Allowing(b) - v /\ failed'[b] = failed[b]
         \/ Allowing(b)' = Allowing(b) /\ failed'[b] = failed[b] + v
  PROVE  /\ Claims(b)' <= Claims(b) + a /\ Spare(b)' >= Spare(b) + a
         /\ Backed(b)' >= Backed(b) /\ Spare(b)' >= Spare(b)
BY DEF Claims, Spare, Backed, Summed

\* ... v given back by a Refund that was answered, ...
LEMMA EnterRefund ==
  ASSUME NEW b, Summed(b), Summed(b)', NEW v \in Nat,
         Held(b)' = Held(b) - v, Returning(b)' = Returning(b) - v, Sending(b)' = Sending(b),
         Refunding(b)' = Refunding(b) - v, Allowing(b)' = Allowing(b) - 0,
         admitted'[b] = admitted[b], failed'[b] = failed[b]
  PROVE  Claims(b)' <= Claims(b) - v /\ Spare(b)' >= Spare(b) - v /\ Backed(b)' >= Backed(b)
BY DEF Claims, Spare, Backed, Summed

\* ... or that failed, ...
LEMMA EnterFailure ==
  ASSUME NEW b, Summed(b), Summed(b)', NEW v \in Nat,
         Held(b)' = Held(b) - v, Returning(b)' = Returning(b) - v, Sending(b)' = Sending(b),
         Refunding(b)' = Refunding(b), Allowing(b)' = Allowing(b),
         admitted'[b] = admitted[b], failed'[b] = failed[b] + v
  PROVE  Claims(b)' <= Claims(b) + 0 /\ Spare(b)' >= Spare(b) /\ Backed(b)' >= Backed(b)
BY DEF Claims, Spare, Backed, Summed

\* ... a script sent, that takes v or gives back u, ...
LEMMA EnterSend ==
  ASSUME NEW b, Summed(b), Summed(b)', NEW h \in Nat, NEW v \in Nat, NEW u \in Nat,
         Held(b)' = Held(b) - h + h, Sending(b)' = Sending(b) - 0 + v,
         Returning(b)' = Returning(b) - 0 + u,
         Allowing(b)' = Allowing(b) + v, Refunding(b)' = Refunding(b) + u,
         admitted'[b] = admitted[b], failed'[b] = failed[b]
  PROVE  Claims(b)' <= Claims(b) + 0 /\ Spare(b)' >= Spare(b) /\ Backed(b)' >= Backed(b)
BY DEF Claims, Spare, Backed, Summed

\* ... and scripts that are lost.
LEMMA EnterLoss ==
  ASSUME NEW b, Summed(b), Summed(b)', Held(b)' = Held(b), Sending(b)' = Sending(b),
         Returning(b)' = Returning(b), Allowing(b)' <= Allowing(b),
         Refunding(b)' <= Refunding(b), admitted'[b] = admitted[b], failed'[b] = failed[b]
  PROVE  Claims(b)' <= Claims(b) + 0 /\ Spare(b)' >= Spare(b) /\ Backed(b)' >= Backed(b)
BY DEF Claims, Spare, Backed, Summed

\* A script that nobody waits for any more, and what it may do of what it was
\* sent for.
LEMMA EnterLate ==
  ASSUME NEW b, Summed(b), Summed(b)', NEW v \in Nat, NEW u \in Nat, Held(b)' = Held(b),
         Sending(b)' = Sending(b), Returning(b)' = Returning(b),
         Allowing(b)' = Allowing(b) - v, Refunding(b)' = Refunding(b) - u,
         admitted'[b] = admitted[b], failed'[b] = failed[b]
  PROVE  Claims(b)' = Claims(b) - u /\ Spare(b)' = Spare(b) + v /\ Backed(b)' = Backed(b) + v
BY DEF Claims, Spare, Backed, Summed

LEMMA Slack ==
  \A A, S, B \in Int : \A a, v \in Nat :
    /\ a <= v => A - 0 <= A + a /\ S + v >= S + a /\ B + v >= B
    /\ A - v <= A - v /\ S + 0 >= S - v /\ B + 0 >= B
OBVIOUS

\* The numbers of a key, and a key that a script has written.
LEMMA KeyNumbers ==
  ASSUME IInv, NEW b \in DOMAIN redis
  PROVE  /\ b \in Buckets /\ Capacity(b) \in Nat /\ Limit[b] \in Nat
         /\ redis[b].t \in Nat /\ redis[b].t <= Capacity(b) /\ redis[b].r \in Nat
         /\ redis[b].r <= now + MaxSkew
<1>1. b \in Buckets /\ KeyOK(b)
  BY Zenon DEF IInv, Typed
<1>2. Limit[b] \in Nat /\ Period \in Nat
  BY <1>1, RedisNumbers, Zenon
<1>3. Capacity(b) \in Nat
  BY <1>2, ProductNat, Zenon DEF Capacity
<1>4. QED
  BY <1>1, <1>2, <1>3 DEF KeyOK

\* The clocks of the replicas, and the moment before which no script that is
\* still on its way was stamped.
LEMMA ClockNumbers ==
  ASSUME IInv, NEW p \in Procs
  PROVE  /\ replica[p] \in Replicas /\ skew[replica[p]] \in Nat /\ skew[replica[p]] <= MaxSkew
         /\ now \in Nat /\ now + skew[replica[p]] \in Nat
         /\ now + skew[replica[p]] <= now + skew[replica[p]]
<1>1. replica[p] \in Replicas /\ skew[replica[p]] \in 0 .. MaxSkew
  BY TTLCovers, RedisNames, Zenon
<1>2. now \in 0 .. MaxTime /\ MaxTime \in Nat /\ MaxSkew \in Nat
  BY RedisNumbers, Zenon DEF IInv, Typed
<1>3. QED
  BY <1>1, <1>2

LEMMA EarliestNumbers ==
  ASSUME now \in Nat
  PROVE  /\ Earliest \in Nat /\ Earliest <= now
         /\ \A r, x \in Nat : now >= x /\ r + ttl <= x + MaxSkew => r + Period <= Earliest
<1>1. /\ Period \in Nat /\ MaxDelay \in Nat /\ MaxSkew \in Nat /\ ttl \in Nat
      /\ ttl >= Period + MaxDelay + MaxSkew
  BY RedisNumbers, TTLCovers, Zenon
<1>2. QED
  BY <1>1 DEF Earliest

\* A script in time turns the refill clock back by a delay and a skew at most.
LEMMA RewindSmall ==
  ASSUME NEW n \in Nat, NEW k \in Nat, NEW r \in Nat, NEW st \in Nat, NEW D \in Nat, NEW M \in Nat,
         k <= M, r <= n + M, n + k <= st + D
  PROVE  \A w \in Nat : /\ w + (IF r > st THEN r - st ELSE 0) <= w + (D + M)
                        /\ w <= w + (D + M)
OBVIOUS

LEMMA NotRewound ==
  ASSUME NEW w \in Nat, w <= 0 + (0 + 0)
  PROVE  w = 0
OBVIOUS

LEMMA NothingExtra ==
  ASSUME NEW P \in Nat, NEW a \in Nat, NEW C \in Nat, NEW L \in Nat, NEW n \in Nat, NEW f \in Nat
  PROVE  /\ P * a <= C + L * (n + 0 + 0) + P * f => P * a <= C + L * (n + 0) + P * f
         /\ P * a <= C + L * (n + 0 + 0) + P * 0 => P * a <= C + L * n
<1>1. n + 0 + 0 = n /\ n + 0 = n /\ P * 0 = 0 /\ P * a \in Int /\ L * n \in Int /\ C + L * n + 0 = C + L * n
  OBVIOUS
<1>2. QED
  BY <1>1, Zenon

LEMMA BurstAndRefill ==
  ASSUME NEW P \in Nat, NEW L \in Nat, NEW u \in Nat, NEW M \in Nat, NEW w \in Nat, NEW r \in Nat
  PROVE  /\ r <= u + M => L * (P + r + w) <= L * (P + (u + M + w))
         /\ r <= u => L * (r + w) <= L * (P + (u + M + w))
         /\ L * (P + r + w) \in Int /\ L * (r + w) \in Int /\ L * (P + (u + M + w)) \in Int
<1>1. /\ P + r + w \in Int /\ r + w \in Int /\ P + (u + M + w) \in Int
      /\ r <= u + M => P + r + w <= P + (u + M + w)
      /\ r <= u => r + w <= P + (u + M + w)
  OBVIOUS
<1>2. L * (P + r + w) \in Int /\ L * (r + w) \in Int /\ L * (P + (u + M + w)) \in Int
  BY <1>1
<1>3. QED
  BY <1>1, <1>2, Monotone, Zenon

LEMMA FitsIn ==
  ASSUME NEW x \in Int, NEW y \in Int, NEW z \in Int, NEW f \in Int, y <= z, x <= y + f
  PROVE  x <= z + f
OBVIOUS

LEMMA LeavesRoom ==
  ASSUME NEW x \in Int, NEW y \in Int, NEW t \in Nat, NEW f \in Int, x + t <= y + f
  PROVE  x <= y + f
OBVIOUS

LEMMA NothingHeld ==
  ASSUME NEW x \in Nat, NEW g \in Nat, NEW u \in Nat, g = x, u = 0
  PROVE  (x - g) + u = 0
OBVIOUS

LEMMA KeyWritten ==
  ASSUME NEW b, Capacity(b) \in Nat, NEW x \in 0 .. Capacity(b), NEW r \in Nat, now \in Nat, now' = now,
         r <= now + MaxSkew, redis'[b] = [t |-> x, r |-> r, exp |-> now + ttl]
  PROVE  KeyOK(b)'
<1>1. ttl \in Nat /\ MaxSkew \in Nat
  BY RedisNumbers, Zenon
<1>2. redis'[b].r = r /\ redis'[b].exp = now + ttl
  OBVIOUS
<1>3. redis'[b] \in [t : 0 .. Capacity(b), r : Nat, exp : Nat] /\ r + ttl <= now + ttl + MaxSkew
  BY <1>1
<1>4. Capacity(b)' = Capacity(b)
  BY Zenon DEF Capacity
<1>5. QED
  BY <1>2, <1>3, <1>4, Zenon DEF KeyOK

\* Goroutine p goes on to l, with locals c and script o outstanding.
Moves(p, l, c, o) ==
  /\ l \in Labels /\ CallOK(hasGlobal, l, c) /\ hasGlobal' = hasGlobal
  /\ pc'[p] = l /\ call'[p] = c /\ out'[p] = o
  /\ \A q \in Procs \ {p} : pc'[q] = pc[q] /\ call'[q] = call[q] /\ out'[q] = out[q]

\* What that changes in the sums over the goroutines.
Shifts(p, l, c, o, b) ==
  /\ Held(b)' = Held(b) - Hold(hasGlobal, pc[p], call[p], b) + Hold(hasGlobal, l, c, b)
  /\ Sending(b)' = Sending(b) - SentAllow(pc[p], call[p], out[p], b) + SentAllow(l, c, o, b)
  /\ Returning(b)' = Returning(b) - SentRefund(pc[p], call[p], out[p], b) + SentRefund(l, c, o, b)

LEMMA ProcStep ==
  ASSUME IInv, NEW p \in Procs, NEW l, NEW c, NEW o, Moves(p, l, c, o), NEW b \in Buckets
  PROVE  Shifts(p, l, c, o, b)
<1>1. IsFiniteSet(Procs) /\ \A q \in Procs : CallOK(hasGlobal, pc[q], call[q]) /\ pc[q] \in Labels
  BY RedisNames, Zenon DEF IInv, Typed
<1>2. hasGlobal \in BOOLEAN
  BY Zenon DEF IInv, Typed
<1>3. Held(b)' = Held(b) - Hold(hasGlobal, pc[p], call[p], b) + Hold(hasGlobal, l, c, b)
  <2> DEFINE f == [q \in Procs |-> Hold(hasGlobal, pc[q], call[q], b)]
             g == [q \in Procs |-> Hold(hasGlobal', pc'[q], call'[q], b)]
  <2>1. f \in [Procs -> Nat] /\ g \in [Procs -> Nat]
    BY <1>1, <1>2, Weights, Zenon DEF Moves
  <2>2. /\ \A q \in Procs \ {p} : g[q] = f[q]
        /\ f[p] = Hold(hasGlobal, pc[p], call[p], b) /\ g[p] = Hold(hasGlobal, l, c, b)
    BY Zenon DEF Moves
  <2>3. Held(b) = Total(f) /\ Held(b)' = Total(g)
    BY Zenon DEF Held
  <2> HIDE DEF f, g
  <2>4. QED
    BY <1>1, <2>1, <2>2, <2>3, TotalChange
<1>4. Sending(b)' = Sending(b) - SentAllow(pc[p], call[p], out[p], b) + SentAllow(l, c, o, b)
  <2> DEFINE f == [q \in Procs |-> SentAllow(pc[q], call[q], out[q], b)]
             g == [q \in Procs |-> SentAllow(pc'[q], call'[q], out'[q], b)]
  <2>1. f \in [Procs -> Nat] /\ g \in [Procs -> Nat]
    BY <1>1, <1>2, Weights, Zenon DEF Moves
  <2>2. /\ \A q \in Procs \ {p} : g[q] = f[q]
        /\ f[p] = SentAllow(pc[p], call[p], out[p], b) /\ g[p] = SentAllow(l, c, o, b)
    BY Zenon DEF Moves
  <2>3. Sending(b) = Total(f) /\ Sending(b)' = Total(g)
    BY Zenon DEF Sending
  <2> HIDE DEF f, g
  <2>4. QED
    BY <1>1, <2>1, <2>2, <2>3, TotalChange
<1>5. Returning(b)' = Returning(b) - SentRefund(pc[p], call[p], out[p], b) + SentRefund(l, c, o, b)
  <2> DEFINE f == [q \in Procs |-> SentRefund(pc[q], call[q], out[q], b)]
             g == [q \in Procs |-> SentRefund(pc'[q], call'[q], out'[q], b)]
  <2>1. f \in [Procs -> Nat] /\ g \in [Procs -> Nat]
    BY <1>1, <1>2, Weights, Zenon DEF Moves
  <2>2. /\ \A q \in Procs \ {p} : g[q] = f[q]
        /\ f[p] = SentRefund(pc[p], call[p], out[p], b) /\ g[p] = SentRefund(l, c, o, b)
    BY Zenon DEF Moves
  <2>3. Returning(b) = Total(f) /\ Returning(b)' = Total(g)
    BY Zenon DEF Returning
  <2> HIDE DEF f, g
  <2>4. QED
    BY <1>1, <2>1, <2>2, <2>3, TotalChange
<1>6. QED
  BY <1>3, <1>4, <1>5, Zenon DEF Shifts

\* Goroutines that stay where they are.
LEMMA ProcSame ==
  ASSUME UNCHANGED <<hasGlobal, pc, call, out>>, NEW b
  PROVE  Held(b)' = Held(b) /\ Sending(b)' = Sending(b) /\ Returning(b)' = Returning(b)
BY Zenon DEF Held, Sending, Returning

\* Scripts that stay where they are, one that is sent, one that arrives or is
\* lost, and several that are lost.
LEMMA MsgSame ==
  ASSUME UNCHANGED msgs, NEW b
  PROVE  Allowing(b)' = Allowing(b) /\ Refunding(b)' = Refunding(b)
BY Zenon DEF Allowing, Refunding

LEMMA MsgSent ==
  ASSUME IInv, NEW m \in Scripts, m \notin msgs, msgs' = msgs \cup {m}, NEW b \in Buckets
  PROVE  /\ Allowing(b)' = Allowing(b) + Wanted(m, b)
         /\ Refunding(b)' = Refunding(b) + Given(m, b)
<1>1. \A x \in Scripts : Wanted(x, b) \in Nat /\ Given(x, b) \in Nat
  BY Zenon DEF Scripts, Wanted, Given
<1>2. IsFiniteSet(msgs) /\ msgs \subseteq Scripts
  BY Zenon DEF IInv, Typed, MsgOK
<1>3. Allowing(b)' = Allowing(b) + Wanted(m, b)
  <2> DEFINE f == [x \in msgs |-> Wanted(x, b)]
             g == [x \in msgs \cup {m} |-> Wanted(x, b)]
  <2>1. /\ f \in [msgs -> Nat] /\ g \in [msgs \cup {m} -> Nat] /\ \A y \in msgs : g[y] = f[y]
        /\ g[m] = Wanted(m, b)
    BY <1>1, <1>2, Zenon
  <2>2. Allowing(b) = Total(f) /\ Allowing(b)' = Total(g)
    BY Zenon DEF Allowing
  <2> HIDE DEF f, g
  <2>3. QED
    BY <1>2, <2>1, <2>2, TotalGrow
<1>4. Refunding(b)' = Refunding(b) + Given(m, b)
  <2> DEFINE f == [x \in msgs |-> Given(x, b)]
             g == [x \in msgs \cup {m} |-> Given(x, b)]
  <2>1. /\ f \in [msgs -> Nat] /\ g \in [msgs \cup {m} -> Nat] /\ \A y \in msgs : g[y] = f[y]
        /\ g[m] = Given(m, b)
    BY <1>1, <1>2, Zenon
  <2>2. Refunding(b) = Total(f) /\ Refunding(b)' = Total(g)
    BY Zenon DEF Refunding
  <2> HIDE DEF f, g
  <2>3. QED
    BY <1>2, <2>1, <2>2, TotalGrow
<1>5. QED
  BY <1>3, <1>4, Zenon

LEMMA MsgGone ==
  ASSUME IInv, NEW m \in msgs, msgs' = msgs \ {m}, NEW b \in Buckets
  PROVE  /\ Allowing(b)' = Allowing(b) - Wanted(m, b)
         /\ Refunding(b)' = Refunding(b) - Given(m, b)
<1>1. \A x \in Scripts : Wanted(x, b) \in Nat /\ Given(x, b) \in Nat
  BY Zenon DEF Scripts, Wanted, Given
<1>2. IsFiniteSet(msgs) /\ msgs \subseteq Scripts /\ IsFiniteSet(msgs \ {m})
  BY FS_RemoveElement, Zenon DEF IInv, Typed, MsgOK
<1>3. Wanted(m, b) \in Nat /\ Given(m, b) \in Nat
  BY <1>1, <1>2, Zenon
<1>4. PICK rest : rest = msgs \ {m}
  BY Zenon
<1>5. m \notin rest /\ IsFiniteSet(rest) /\ rest \cup {m} = msgs
  BY <1>2, <1>4, Zenon
<1>6. Allowing(b)' = Allowing(b) - Wanted(m, b)
  <2> DEFINE f == [x \in rest |-> Wanted(x, b)]
             g == [x \in rest \cup {m} |-> Wanted(x, b)]
  <2>1. /\ f \in [rest -> Nat] /\ g \in [rest \cup {m} -> Nat] /\ \A y \in rest : g[y] = f[y]
        /\ g[m] = Wanted(m, b)
    BY <1>1, <1>2, <1>4, <1>5, Zenon
  <2>2. Allowing(b) = Total(g) /\ Allowing(b)' = Total(f)
    BY <1>4, <1>5, Zenon DEF Allowing
  <2> HIDE DEF f, g
  <2>3. Total(f) \in Nat /\ Total(g) = Total(f) + Wanted(m, b)
    BY <1>5, <2>1, TotalGrow
  <2>4. QED
    BY <1>3, <2>2, <2>3
<1>7. Refunding(b)' = Refunding(b) - Given(m, b)
  <2> DEFINE f == [x \in rest |-> Given(x, b)]
             g == [x \in rest \cup {m} |-> Given(x, b)]
  <2>1. /\ f \in [rest -> Nat] /\ g \in [rest \cup {m} -> Nat] /\ \A y \in rest : g[y] = f[y]
        /\ g[m] = Given(m, b)
    BY <1>1, <1>2, <1>4, <1>5, Zenon
  <2>2. Refunding(b) = Total(g) /\ Refunding(b)' = Total(f)
    BY <1>4, <1>5, Zenon DEF Refunding
  <2> HIDE DEF f, g
  <2>3. Total(f) \in Nat /\ Total(g) = Total(f) + Given(m, b)
    BY <1>5, <2>1, TotalGrow
  <2>4. QED
    BY <1>3, <2>2, <2>3
<1>8. QED
  BY <1>6, <1>7, Zenon

LEMMA MsgLess ==
  ASSUME IInv, msgs' \subseteq msgs, NEW b \in Buckets
  PROVE  /\ Allowing(b)' \in Nat /\ Allowing(b)' <= Allowing(b)
         /\ Refunding(b)' \in Nat /\ Refunding(b)' <= Refunding(b)
<1>1. \A x \in msgs : Wanted(x, b) \in Nat /\ Given(x, b) \in Nat
  BY Zenon DEF IInv, MsgOK, Scripts, Wanted, Given
<1>2. IsFiniteSet(msgs)
  BY Zenon DEF IInv, Typed
<1>3. PICK rest : rest = msgs'
  BY Zenon
<1>4. Allowing(b)' \in Nat /\ Allowing(b)' <= Allowing(b)
  <2> DEFINE f == [x \in msgs |-> Wanted(x, b)]
             g == [x \in rest |-> Wanted(x, b)]
  <2>1. /\ f \in [msgs -> Nat] /\ g \in [rest -> Nat] /\ \A y \in rest : g[y] = f[y]
    BY <1>1, <1>3, Zenon
  <2>2. Allowing(b) = Total(f) /\ Allowing(b)' = Total(g)
    BY <1>3, Zenon DEF Allowing
  <2> HIDE DEF f, g
  <2>3. QED
    BY <1>2, <1>3, <2>1, <2>2, TotalPart
<1>5. Refunding(b)' \in Nat /\ Refunding(b)' <= Refunding(b)
  <2> DEFINE f == [x \in msgs |-> Given(x, b)]
             g == [x \in rest |-> Given(x, b)]
  <2>1. /\ f \in [msgs -> Nat] /\ g \in [rest -> Nat] /\ \A y \in rest : g[y] = f[y]
    BY <1>1, <1>3, Zenon
  <2>2. Refunding(b) = Total(f) /\ Refunding(b)' = Total(g)
    BY <1>3, Zenon DEF Refunding
  <2> HIDE DEF f, g
  <2>3. QED
    BY <1>2, <1>3, <2>1, <2>2, TotalPart
<1>6. QED
  BY <1>4, <1>5, Zenon

----------------------------------------------------------------------------
\* The budget of a bucket that holds t, was refilled at r and whose clock went back w
\* ticks, for A items and f items granted by failing open; and of a missing one.
Within(P, L, A, t, r, w, f) == P * A + t <= L * (P + r + w) + P * f
WithinNone(P, L, A, e, w, f) == P * A <= L * (e + w) + P * f

LEMMA WithinQuiet ==
  ASSUME NEW P \in Nat, NEW L \in Nat, NEW A \in Int, NEW t \in Nat, NEW r \in Nat, NEW w \in Nat,
         NEW f \in Nat, Within(P, L, A, t, r, w, f), NEW G \in Nat, NEW B \in Int, B <= A + G
  PROVE  Within(P, L, B, t, r, w, f + G)
<1>1. P * B \in Int /\ P * B <= P * (A + G)
  BY Monotone
<1>2. /\ P * (A + G) = P * A + P * G /\ P * (f + G) = P * f + P * G
      /\ P * A \in Int /\ P * G \in Int /\ P * f \in Int
  BY Spread
<1>3. PICK K \in Int : K = L * (P + r + w)
  BY Spread
<1>4. QED
  BY <1>1, <1>2, <1>3 DEF Within

LEMMA WithinRefund ==
  ASSUME NEW P \in Nat, NEW L \in Nat, NEW A \in Int, NEW t \in Nat, NEW r \in Nat, NEW w \in Nat,
         NEW f \in Nat, Within(P, L, A, t, r, w, f), NEW n \in Nat, NEW B \in Int, B <= A - n,
         NEW s \in Int, s <= t + n * P
  PROVE  Within(P, L, B, s, r, w, f)
<1>1. P * B \in Int /\ P * B <= P * (A - n)
  BY Monotone
<1>2. P * (A - n) = P * A - P * n /\ P * A \in Int /\ P * n \in Int /\ n * P = P * n
  BY Spread
<1>3. PICK K \in Int : K = L * (P + r + w) + P * f
  BY Spread
<1>4. QED
  BY <1>1, <1>2, <1>3 DEF Within

LEMMA WithinAllow ==
  ASSUME NEW P \in Nat, NEW L \in Nat, NEW A \in Int, NEW t \in Nat, NEW r \in Nat, NEW w \in Nat,
         NEW f \in Nat, Within(P, L, A, t, r, w, f), NEW g \in Nat, NEW B \in Int, B <= A + g,
         NEW T \in Nat, NEW e \in Nat, NEW ahead \in Nat, NEW back \in Nat,
         ahead - back = e - r, T <= t + ahead * L
  PROVE  Within(P, L, B, T - g * P, e, w + back, f)
<1>1. P * B \in Int /\ P * B <= P * (A + g)
  BY Monotone
<1>2. P * (A + g) = P * A + P * g /\ P * A \in Int /\ P * g \in Int /\ g * P = P * g
  BY Spread
<1>3. PICK Pf \in Int : Pf = P * f
  BY Spread
<1>4. P + e + (w + back) = (P + r + w) + ahead
  OBVIOUS
<1>5. /\ L * ((P + r + w) + ahead) = L * (P + r + w) + L * ahead
      /\ L * (P + r + w) \in Int /\ L * ahead \in Int /\ ahead * L = L * ahead
  BY Spread
<1>6. PICK K \in Int : K = L * (P + r + w)
  BY <1>5, Zenon
<1>7. P * B + (T - P * g) <= (K + L * ahead) + Pf
  BY <1>1, <1>2, <1>3, <1>5, <1>6 DEF Within
<1>8. P * B + (T - g * P) <= L * (P + e + (w + back)) + P * f
  BY <1>2, <1>3, <1>4, <1>5, <1>6, <1>7, Zenon
<1>9. QED
  BY <1>8, Zenon DEF Within

LEMMA WithinExpire ==
  ASSUME NEW P \in Nat, NEW L \in Nat, NEW A \in Int, NEW t \in Nat, NEW r \in Nat, NEW w \in Nat,
         NEW f \in Nat, Within(P, L, A, t, r, w, f), NEW e \in Nat, r + P <= e
  PROVE  WithinNone(P, L, A, e, w, f)
<1>1. L * (P + r + w) \in Int /\ L * (e + w) \in Int /\ L * (P + r + w) <= L * (e + w)
  BY Monotone
<1>2. P * A \in Int /\ P * f \in Int
  BY Spread
<1>3. QED
  BY <1>1, <1>2 DEF Within, WithinNone

LEMMA WithinNoneQuiet ==
  ASSUME NEW P \in Nat, NEW L \in Nat, NEW A \in Int, NEW e \in Nat, NEW w \in Nat,
         NEW f \in Nat, WithinNone(P, L, A, e, w, f), NEW G \in Nat, NEW B \in Int, B <= A + G,
         NEW d \in Nat, e <= d
  PROVE  WithinNone(P, L, B, d, w, f + G)
<1>1. P * B \in Int /\ P * B <= P * (A + G)
  BY Monotone
<1>2. /\ P * (A + G) = P * A + P * G /\ P * (f + G) = P * f + P * G
      /\ P * A \in Int /\ P * G \in Int /\ P * f \in Int
  BY Spread
<1>3. L * (e + w) \in Int /\ L * (d + w) \in Int /\ L * (e + w) <= L * (d + w)
  BY Monotone
<1>4. QED
  BY <1>1, <1>2, <1>3 DEF WithinNone

LEMMA WithinNoneAllow ==
  ASSUME NEW P \in Nat, NEW L \in Nat, NEW A \in Int, NEW e \in Nat, NEW w \in Nat,
         NEW f \in Nat, WithinNone(P, L, A, e, w, f), NEW g \in Nat, NEW B \in Int, B <= A + g,
         NEW d \in Nat, e <= d
  PROVE  Within(P, L, B, L * P - g * P, d, w, f)
<1>1. P * B \in Int /\ P * B <= P * (A + g)
  BY Monotone
<1>2. P * (A + g) = P * A + P * g /\ P * A \in Int /\ P * g \in Int /\ g * P = P * g
  BY Spread
<1>3. L * (e + w) \in Int /\ L * (d + w) \in Int /\ L * (e + w) <= L * (d + w)
  BY Monotone
<1>4. L * (P + (d + w)) = L * P + L * (d + w) /\ L * P \in Int /\ P + (d + w) = P + d + w
  BY Spread
<1>5. PICK Pf \in Int : Pf = P * f
  BY Spread
<1>6. P * B + (L * P - P * g) <= (L * P + L * (d + w)) + Pf
  BY <1>1, <1>2, <1>3, <1>4, <1>5 DEF WithinNone
<1>7. QED
  BY <1>2, <1>4, <1>5, <1>6, Zenon DEF Within

\* What is missing from a bucket that holds t of C is accounted for by S items.
LEMMA CompleteSteps ==
  ASSUME NEW P \in Nat, NEW C \in Nat, NEW S \in Int, NEW t \in Nat, t + P * S >= C
  PROVE  /\ \A S2 \in Int : S2 >= S => t + P * S2 >= C
         /\ \A S2 \in Int, g \in Nat, T \in Nat :
              S2 >= S + g /\ S >= 0 /\ (T = C \/ T >= t) => (T - g * P) + P * S2 >= C
         /\ \A S2 \in Int, n \in Nat :
              S2 >= S - n /\ S2 >= 0 => AtMost(t + n * P, C) + P * S2 >= C
<1>1. ASSUME NEW S2 \in Int, S2 >= S PROVE t + P * S2 >= C
  <2>1. P * S \in Int /\ P * S2 \in Int /\ P * S <= P * S2
    BY <1>1, Monotone, Zenon
  <2>2. QED
    BY <2>1
<1>2. ASSUME NEW S2 \in Int, NEW g \in Nat, NEW T \in Nat, S2 >= S + g, S >= 0, T = C \/ T >= t
      PROVE  (T - g * P) + P * S2 >= C
  <2>1. P * S2 \in Int /\ P * (S + g) <= P * S2
    BY <1>2, Monotone
  <2>2. P * (S + g) = P * S + P * g /\ P * S \in Int /\ P * g \in Int /\ g * P = P * g
    BY Spread
  <2>3. P * S >= 0
    BY <1>2, ProductNat
  <2>4. QED
    BY <1>2, <2>1, <2>2, <2>3
<1>3. ASSUME NEW S2 \in Int, NEW n \in Nat, S2 >= S - n, S2 >= 0
      PROVE  AtMost(t + n * P, C) + P * S2 >= C
  <2>1. P * S2 \in Int /\ P * (S - n) <= P * S2
    BY <1>3, Monotone
  <2>2. P * (S - n) = P * S - P * n /\ P * S \in Int /\ P * n \in Int /\ n * P = P * n
    BY Spread
  <2>3. P * S2 >= 0
    BY <1>3, ProductNat
  <2>4. QED
    BY <2>1, <2>2, <2>3 DEF AtMost
<1>4. QED
  BY <1>1, <1>2, <1>3, Zenon

\* The same, for a bucket that the script gets first.
LEMMA CompleteNew ==
  ASSUME NEW P \in Nat, NEW C \in Nat, NEW S \in Int, NEW g \in Nat, S >= g
  PROVE  (C - g * P) + P * S >= C
<1>1. P * S \in Int /\ P * g \in Int /\ P * g <= P * S /\ g * P = P * g
  BY Monotone
<1>2. QED
  BY <1>1

\* The accounts of a bucket, before and after.
Account(b) ==
  /\ Claims(b) \in Int /\ Spare(b) \in Int /\ Backed(b) \in Int /\ Spare(b) >= Backed(b)
  /\ Backed(b) >= 0 /\ now \in Nat /\ failOpenItems[b] \in Nat

LEMMA Accounted ==
  ASSUME NEW b, Summed(b), Summed(b)', Backed(b) >= 0, Backed(b)' >= Backed(b)
  PROVE  Account(b)'
BY DEF Summed, Account

\* A step that leaves a bucket alone but for G items granted by failing open.
LEMMA LedgerQuiet ==
  ASSUME IInv, NEW b \in Buckets, NEW G \in Nat, b \in DOMAIN redis' <=> b \in DOMAIN redis,
         b \in DOMAIN redis => redis'[b] = redis[b], rewound'[b] = rewound[b],
         failOpenItems'[b] = failOpenItems[b] + G, Account(b)', now' >= now,
         Claims(b)' <= Claims(b) + G, Spare(b)' >= Spare(b)
  PROVE  Solvent(b)' /\ Complete(b)'
<1>1. PICK P, L, f, w \in Nat : P = Period /\ L = Limit[b] /\ f = failOpenItems[b] /\ w = rewound[b]
  BY Sums, Zenon
<1>2. PICK A, B, S, S2 \in Int : /\ A = Claims(b) /\ B = Claims(b)' /\ S = Spare(b)
                                 /\ S2 = Spare(b)'
  BY Sums, Zenon DEF Account
<1>3. CASE b \in DOMAIN redis
  <2>1. PICK t, r \in Nat : t = redis[b].t /\ r = redis[b].r
    BY <1>3, RedisNumbers, ProductNat DEF IInv, KeyOK, Capacity
  <2>2. Within(P, L, A, t, r, w, f)
    BY <1>1, <1>2, <1>3, <2>1, Zenon DEF IInv, Solvent, Within
  <2>3. Within(P, L, B, t, r, w, f + G)
    BY <1>2, <2>2, WithinQuiet, Zenon
  <2>4. Solvent(b)'
    BY <1>1, <1>2, <1>3, <2>1, <2>3, Zenon DEF Solvent, Within
  <2>5. PICK C \in Nat : C = Capacity(b)
    BY <1>1, ProductNat, Zenon DEF Capacity
  <2>6. t + P * S >= C
    BY <1>1, <1>2, <1>3, <2>1, <2>5, Zenon DEF IInv, Complete
  <2>7. t + P * S2 >= C
    BY <1>2, <2>6, CompleteSteps, Zenon
  <2>8. QED
    BY <1>1, <1>2, <1>3, <2>1, <2>4, <2>5, <2>7, Zenon DEF Complete, Capacity, Account
<1>4. CASE b \notin DOMAIN redis
  <2>1. PICK e, d \in Nat : e = Earliest /\ d = Earliest' /\ e <= d
    BY Sums, RedisNumbers DEF Earliest, Account
  <2>2. WithinNone(P, L, A, e, w, f)
    BY <1>1, <1>2, <1>4, <2>1, Zenon DEF IInv, Solvent, WithinNone
  <2>3. WithinNone(P, L, B, d, w, f + G)
    BY <1>2, <2>1, <2>2, WithinNoneQuiet, Zenon
  <2>4. QED
    BY <1>1, <1>2, <1>4, <2>1, <2>3, Zenon DEF Solvent, WithinNone, Complete, Account
<1>5. QED
  BY <1>3, <1>4, Zenon

----------------------------------------------------------------------------
\* What allowLuaScript finds and grants.
LEMMA AllowEffect ==
  ASSUME IInv, NEW m \in msgs, InTime(m)
  PROVE  /\ m.b \in Buckets /\ m.n \in Nat /\ m.stamp \in Nat /\ m.stamp <= now + MaxSkew
         /\ Earliest <= m.stamp /\ Earliest \in Nat
         /\ Capacity(m.b) \in Nat /\ Tokens(m) \in Nat /\ Tokens(m) <= Capacity(m.b)
         /\ Grant(m) \in Nat /\ Grant(m) <= m.n /\ Grant(m) * Period \in Nat
         /\ Grant(m) * Period <= Tokens(m)
         /\ m.b \notin DOMAIN redis => Tokens(m) = Capacity(m.b)
         /\ m.b \in DOMAIN redis =>
              /\ redis[m.b].t \in Nat /\ redis[m.b].r \in Nat
              /\ Tokens(m) <= redis[m.b].t
                   + (IF m.stamp < redis[m.b].r THEN 0 ELSE m.stamp - redis[m.b].r) * Limit[m.b]
              /\ Tokens(m) = Capacity(m.b) \/ Tokens(m) >= redis[m.b].t
<1>1. /\ m \in Scripts /\ m.b \in Buckets /\ m.n \in Nat /\ m.stamp \in Nat /\ m.p \in Procs
      /\ m.stamp <= now + skew[replica[m.p]] /\ now \in Nat
  BY DEF IInv, MsgOK, Scripts, Typed
<1>2. skew[replica[m.p]] \in Nat /\ skew[replica[m.p]] <= MaxSkew /\ MaxSkew \in Nat /\ MaxDelay \in Nat
  BY <1>1, ClockNumbers, RedisNumbers, Zenon
<1>3. m.stamp <= now + MaxSkew /\ Earliest <= m.stamp /\ Earliest \in Nat
  BY <1>1, <1>2 DEF InTime, Earliest
<1>4. PICK P, L \in Nat : P = Period /\ L = Limit[m.b] /\ P > 0
  BY <1>1, RedisNumbers
<1>5. PICK C \in Nat : C = Capacity(m.b)
  BY <1>4, ProductNat, Zenon DEF Capacity
<1>6. PICK T : T = Tokens(m)
  BY Zenon
<1>7. m.b \notin DOMAIN redis => T = C
  <2>1. SUFFICES ASSUME m.b \notin DOMAIN redis PROVE T = C
    BY Zenon
  <2>2. PICK s : s = Stored(m.b, m.stamp)
    BY Zenon
  <2>3. s.t = C /\ s.r = m.stamp
    BY <1>5, <2>1, <2>2, Zenon DEF Stored
  <2>4. Elapsed(s, m) * L = 0
    BY <1>1, <2>3 DEF Elapsed
  <2>5. QED
    BY <1>4, <1>5, <1>6, <2>2, <2>3, <2>4 DEF Tokens, AtMost
<1>8. m.b \in DOMAIN redis =>
        /\ redis[m.b].t \in Nat /\ redis[m.b].r \in Nat /\ T \in Nat /\ T <= C
        /\ T <= redis[m.b].t
                  + (IF m.stamp < redis[m.b].r THEN 0 ELSE m.stamp - redis[m.b].r) * L
        /\ T = C \/ T >= redis[m.b].t
  <2>1. SUFFICES ASSUME m.b \in DOMAIN redis
                 PROVE  /\ redis[m.b].t \in Nat /\ redis[m.b].r \in Nat /\ T \in Nat /\ T <= C
                        /\ T <= redis[m.b].t
                                  + (IF m.stamp < redis[m.b].r THEN 0
                                     ELSE m.stamp - redis[m.b].r) * L
                        /\ T = C \/ T >= redis[m.b].t
    BY Zenon
  <2>2. PICK t, r \in Nat : t = redis[m.b].t /\ r = redis[m.b].r /\ t <= C
    BY <1>5, <2>1, KeyNumbers, Zenon
  <2>3. PICK e \in Nat : e = IF m.stamp < r THEN 0 ELSE m.stamp - r
    BY <1>1
  <2>4. e * L \in Nat
    BY ProductNat, Zenon
  <2>5. T = AtMost(t + e * L, C)
    BY <1>4, <1>5, <1>6, <2>1, <2>2, <2>3, Zenon DEF Tokens, Stored, Elapsed
  <2>6. T \in Nat /\ T <= C /\ T <= t + e * L /\ (T = C \/ T >= t)
    BY <2>2, <2>4, <2>5 DEF AtMost
  <2>7. QED
    BY <2>2, <2>3, <2>6, Zenon
<1>9. T \in Nat /\ T <= C
  BY <1>7, <1>8
<1>10. PICK q \in Nat : q = T \div P /\ q * P \in Nat /\ q * P <= T
  <2>1. T \div P \in Nat /\ T % P \in 0 .. P - 1 /\ T = P * (T \div P) + (T % P)
    BY <1>4, <1>9
  <2>2. P * (T \div P) = (T \div P) * P /\ (T \div P) * P \in Nat
    BY <1>4, <2>1, ProductNat
  <2>3. QED
    BY <1>4, <1>9, <2>1, <2>2
<1>11. PICK g \in Nat : g = Grant(m) /\ g <= m.n /\ g <= q
  BY <1>1, <1>4, <1>6, <1>10 DEF Grant, AtMost
<1>12. g * P \in Nat /\ g * P <= T
  <2>1. P * g <= P * q /\ P * g = g * P /\ P * q = q * P
    BY <1>11, Monotone
  <2>2. g * P \in Nat
    BY ProductNat, Zenon
  <2>3. QED
    BY <1>9, <1>10, <2>1, <2>2
<1>13. QED
  BY <1>1, <1>3, <1>4, <1>5, <1>6, <1>7, <1>8, <1>9, <1>11, <1>12, Zenon

LEMMA AllowKeys ==
  ASSUME IInv, NEW m \in msgs, InTime(m), allowScript(m), now' = now
  PROVE  /\ DOMAIN redis' = DOMAIN redis \cup {m.b} /\ DOMAIN redis' \subseteq Buckets
         /\ \A b \in DOMAIN redis \ {m.b} : redis'[b] = redis[b]
         /\ redis'[m.b].t = Tokens(m) - Grant(m) * Period /\ redis'[m.b].r = m.stamp
         /\ rewound' \in [Buckets -> Nat]
         /\ \A b \in Buckets \ {m.b} : rewound'[b] = rewound[b]
         /\ rewound'[m.b] = rewound[m.b] +
              (IF m.b \in DOMAIN redis /\ redis[m.b].r > m.stamp THEN redis[m.b].r - m.stamp ELSE 0)
         /\ \A b \in DOMAIN redis' : KeyOK(b)'
<1>1. /\ m.b \in Buckets /\ m.stamp \in Nat /\ m.stamp <= now + MaxSkew
      /\ Capacity(m.b) \in Nat /\ Tokens(m) \in Nat /\ Tokens(m) <= Capacity(m.b)
      /\ Grant(m) * Period \in Nat /\ Grant(m) * Period <= Tokens(m)
      /\ m.b \in DOMAIN redis => redis[m.b].r \in Nat
  BY AllowEffect, Zenon
<1>2. PICK x : x = Tokens(m) - Grant(m) * Period
  BY Zenon
<1>3. x \in 0 .. Capacity(m.b)
  BY <1>1, <1>2
<1>4. /\ DOMAIN redis' = DOMAIN redis \cup {m.b}
      /\ redis'[m.b] = [t |-> x, r |-> m.stamp, exp |-> now + ttl]
      /\ \A b \in DOMAIN redis \ {m.b} : redis'[b] = redis[b]
  BY <1>2, Zenon DEF allowScript, Put
<1>5. DOMAIN redis' \subseteq Buckets
  BY <1>1, <1>4, Zenon DEF IInv, Typed
<1>6. PICK w : w = IF m.b \in DOMAIN redis /\ redis[m.b].r > m.stamp THEN redis[m.b].r - m.stamp ELSE 0
  BY Zenon
<1>7. w \in Nat /\ w = (IF Stored(m.b, m.stamp).r > m.stamp THEN Stored(m.b, m.stamp).r - m.stamp ELSE 0)
  BY <1>1, <1>6 DEF Stored
<1>8. rewound' = [rewound EXCEPT ![m.b] = @ + w]
  BY <1>7, Zenon DEF allowScript
<1>9. /\ rewound' \in [Buckets -> Nat] /\ \A b \in Buckets \ {m.b} : rewound'[b] = rewound[b]
      /\ rewound'[m.b] = rewound[m.b] + w
  BY <1>1, <1>7, <1>8 DEF IInv, Typed
<1>10. ASSUME NEW b \in DOMAIN redis' PROVE KeyOK(b)'
  <2>1. CASE b = m.b
    <3>1. now \in Nat
      BY <1>1, Sums, Zenon
    <3>2. QED
      BY <1>1, <1>3, <1>4, <2>1, <3>1, KeyWritten, Zenon
  <2>2. CASE b # m.b
    <3>1. KeyOK(b) /\ redis'[b] = redis[b]
      BY <1>4, <2>2, Zenon DEF IInv
    <3>2. QED
      BY <3>1, Zenon DEF KeyOK, Capacity
  <2>3. QED
    BY <2>1, <2>2, Zenon
<1>11. redis'[m.b].t = x /\ redis'[m.b].r = m.stamp
  BY <1>4
<1>12. QED
  BY <1>2, <1>4, <1>5, <1>6, <1>9, <1>10, <1>11, Zenon
\* The bucket that allowLuaScript takes from.
LEMMA AllowLedger ==
  ASSUME IInv, NEW m \in msgs, InTime(m), allowScript(m), now' = now, NEW b, b = m.b,
         failOpenItems'[b] = failOpenItems[b], Account(b)',
         Claims(b)' <= Claims(b) + Grant(m), Spare(b)' >= Spare(b) + Grant(m)
  PROVE  Solvent(b)' /\ Complete(b)'
<1>0. b \in Buckets /\ b \in DOMAIN redis'
  BY AllowEffect, AllowKeys, Zenon
<1>1. PICK P, L, f, w \in Nat : P = Period /\ L = Limit[b] /\ f = failOpenItems[b] /\ w = rewound[b]
  BY <1>0, Sums, Zenon
<1>2. PICK A, B, S, S2 \in Int : /\ A = Claims(b) /\ B = Claims(b)' /\ S = Spare(b)
                                 /\ S2 = Spare(b)'
  BY <1>0, Sums, Zenon DEF Account
<1>3. PICK g, T, e, C \in Nat : /\ g = Grant(m) /\ T = Tokens(m) /\ e = m.stamp /\ C = Capacity(b)
                                /\ C = L * P
  BY <1>1, AllowEffect, Zenon DEF Capacity
<1>4. S >= 0 /\ S2 >= S + g /\ B <= A + g
  BY <1>0, <1>2, <1>3, Sums DEF IInv, Complete
<1>5. redis'[b].t = T - g * P /\ redis'[b].r = e
  BY <1>1, <1>3, AllowKeys, Zenon
<1>6. CASE b \in DOMAIN redis
  <2>1. PICK t, r \in Nat :
          /\ t = redis[b].t /\ r = redis[b].r
          /\ T <= t + (IF e < r THEN 0 ELSE e - r) * L /\ (T = C \/ T >= t)
    BY <1>1, <1>3, <1>6, AllowEffect, Zenon
  <2>2. Within(P, L, A, t, r, w, f)
    BY <1>0, <1>1, <1>2, <1>6, <2>1, Zenon DEF IInv, Solvent, Within
  <2>3. PICK ahead \in Nat : ahead = IF e < r THEN 0 ELSE e - r
    <3>1. (~(e < r) => e - r \in Nat) /\ 0 \in Nat
      OBVIOUS
    <3>2. QED
      BY <3>1, Zenon
  <2>4. PICK back \in Nat : back = IF r > e THEN r - e ELSE 0
    <3>1. (r > e => r - e \in Nat) /\ 0 \in Nat
      OBVIOUS
    <3>2. QED
      BY <3>1, Zenon
  <2>5. rewound'[b] = w + back
    BY <1>1, <1>3, <1>6, <2>1, <2>4, AllowKeys, Zenon
  <2>6. T <= t + ahead * L /\ ahead - back = e - r
    BY <2>1, <2>3, <2>4
  <2>7. Within(P, L, B, T - g * P, e, w + back, f)
    BY <1>4, <2>2, <2>6, WithinAllow, Zenon
  <2>8. Solvent(b)'
    BY <1>0, <1>1, <1>2, <1>5, <2>5, <2>7, Zenon DEF Solvent, Within
  <2>9. t + P * S >= C
    BY <1>0, <1>1, <1>2, <1>3, <1>6, <2>1, Zenon DEF IInv, Complete
  <2>10. (T - g * P) + P * S2 >= C
    BY <1>4, <2>1, <2>9, CompleteSteps, Zenon
  <2>11. QED
    BY <1>1, <1>2, <1>3, <1>5, <2>8, <2>10, Zenon DEF Complete, Capacity, Account
<1>7. CASE b \notin DOMAIN redis
  <2>1. T = L * P
    BY <1>3, <1>7, AllowEffect, Zenon
  <2>2. PICK d \in Nat : d = Earliest /\ d <= e
    BY <1>3, AllowEffect, Zenon
  <2>3. WithinNone(P, L, A, d, w, f)
    BY <1>0, <1>1, <1>2, <1>7, <2>2, Zenon DEF IInv, Solvent, WithinNone
  <2>4. Within(P, L, B, L * P - g * P, e, w, f)
    BY <1>4, <2>2, <2>3, WithinNoneAllow, Zenon
  <2>5. rewound'[b] = w
    <3>1. rewound'[b] = rewound[b] +
            (IF b \in DOMAIN redis /\ redis[b].r > m.stamp THEN redis[b].r - m.stamp ELSE 0)
      BY AllowKeys, Zenon
    <3>2. QED
      BY <1>1, <1>7, <3>1
  <2>6. Solvent(b)'
    BY <1>0, <1>1, <1>2, <1>5, <2>1, <2>4, <2>5, Zenon DEF Solvent, Within
  <2>7. S2 >= g
    BY <1>4
  <2>8. (C - g * P) + P * S2 >= C
    BY <2>7, CompleteNew, Zenon
  <2>9. QED
    BY <1>1, <1>2, <1>3, <1>5, <2>1, <2>6, <2>8, Zenon DEF Complete, Capacity, Account
<1>8. QED
  BY <1>6, <1>7, Zenon

\* What refundLuaScript leaves.
LEMMA RefundKeys ==
  ASSUME IInv, NEW m \in msgs, refundScript(m), now' = now
  PROVE  /\ DOMAIN redis' = DOMAIN redis /\ UNCHANGED rewound
         /\ \A b \in DOMAIN redis \ {m.b} : redis'[b] = redis[b]
         /\ m.b \in DOMAIN redis =>
              /\ redis'[m.b].t = AtMost(redis[m.b].t + m.n * Period, Capacity(m.b))
              /\ redis'[m.b].r = redis[m.b].r
         /\ \A b \in DOMAIN redis' : KeyOK(b)'
<1>1. UNCHANGED rewound
  BY Zenon DEF refundScript
<1>2. CASE m.b \notin DOMAIN redis
  <2>1. UNCHANGED redis
    BY <1>2, Zenon DEF refundScript
  <2>2. QED
    BY <1>1, <1>2, <2>1, Zenon DEF IInv, KeyOK, Capacity
<1>3. CASE m.b \in DOMAIN redis
  <2>1. PICK t, r, C, P, n \in Nat : /\ t = redis[m.b].t /\ r = redis[m.b].r /\ C = Capacity(m.b)
                                     /\ P = Period /\ n = m.n /\ t <= C
    <3>1. m.n \in Nat /\ Period \in Nat
      BY RedisNumbers, Zenon DEF IInv, MsgOK, Scripts
    <3>2. QED
      BY <1>3, <3>1, KeyNumbers, Zenon
  <2>2. PICK s \in 0 .. C : s = AtMost(t + n * P, C)
    <3>1. n * P \in Nat
      BY ProductNat, Zenon
    <3>2. QED
      BY <2>1, <3>1 DEF AtMost
  <2>3. /\ DOMAIN redis' = DOMAIN redis
        /\ redis'[m.b] = [t |-> s, r |-> r, exp |-> now + ttl]
        /\ \A b \in DOMAIN redis \ {m.b} : redis'[b] = redis[b]
    BY <1>3, <2>1, <2>2, Zenon DEF refundScript, Put
  <2>4. ASSUME NEW b \in DOMAIN redis' PROVE KeyOK(b)'
    <3>1. CASE b = m.b
      <4>1. now \in Nat /\ r <= now + MaxSkew
        BY <1>3, <2>1, KeyNumbers, Sums, Zenon
      <4>2. QED
        BY <2>1, <2>2, <2>3, <3>1, <4>1, KeyWritten, Zenon
    <3>2. CASE b # m.b
      <4>1. KeyOK(b) /\ redis'[b] = redis[b]
        BY <2>3, <3>2, Zenon DEF IInv
      <4>2. QED
        BY <4>1, Zenon DEF KeyOK, Capacity
    <3>3. QED
      BY <3>1, <3>2, Zenon
  <2>5. redis'[m.b].t = s /\ redis'[m.b].r = r
    BY <2>3
  <2>6. QED
    BY <1>1, <2>1, <2>2, <2>3, <2>4, <2>5, Zenon
<1>4. QED
  BY <1>2, <1>3, Zenon

\* The bucket that refundLuaScript gives to.
LEMMA RefundLedger ==
  ASSUME IInv, NEW m \in msgs, refundScript(m), now' = now, NEW b, b = m.b,
         failOpenItems'[b] = failOpenItems[b], Account(b)',
         Claims(b)' <= Claims(b) - m.n, Spare(b)' >= Spare(b) - m.n
  PROVE  Solvent(b)' /\ Complete(b)'
<1>0. b \in Buckets /\ m.n \in Nat
  BY Zenon DEF IInv, MsgOK, Scripts
<1>1. PICK P, L, f, w \in Nat : P = Period /\ L = Limit[b] /\ f = failOpenItems[b] /\ w = rewound[b]
  BY <1>0, Sums, Zenon
<1>2. PICK A, B, S, S2 \in Int : /\ A = Claims(b) /\ B = Claims(b)' /\ S = Spare(b)
                                 /\ S2 = Spare(b)'
  BY <1>0, Sums, Zenon DEF Account
<1>3. PICK n, C \in Nat : n = m.n /\ C = Capacity(b)
  BY <1>0, <1>1, ProductNat, Zenon DEF Capacity
<1>4. S2 >= 0 /\ S2 >= S - n /\ B <= A - n
  BY <1>2, <1>3 DEF Account
<1>5. CASE b \in DOMAIN redis
  <2>1. PICK t, r \in Nat : t = redis[b].t /\ r = redis[b].r
    BY <1>3, <1>5 DEF IInv, KeyOK
  <2>2. PICK s \in Int : s = AtMost(t + n * P, C) /\ s <= t + n * P
    <3>1. n * P \in Nat
      BY ProductNat, Zenon
    <3>2. QED
      BY <3>1 DEF AtMost
  <2>3. redis'[b].t = s /\ redis'[b].r = r /\ b \in DOMAIN redis' /\ rewound'[b] = w
    BY <1>1, <1>3, <1>5, <2>1, <2>2, RefundKeys, Zenon
  <2>4. Within(P, L, A, t, r, w, f)
    BY <1>0, <1>1, <1>2, <1>5, <2>1, Zenon DEF IInv, Solvent, Within
  <2>5. Within(P, L, B, s, r, w, f)
    BY <1>4, <2>2, <2>4, WithinRefund, Zenon
  <2>6. Solvent(b)'
    BY <1>1, <1>2, <2>3, <2>5, Zenon DEF Solvent, Within
  <2>7. t + P * S >= C
    BY <1>0, <1>1, <1>2, <1>3, <1>5, <2>1, Zenon DEF IInv, Complete
  <2>8. s + P * S2 >= C
    BY <1>4, <2>2, <2>7, CompleteSteps, Zenon
  <2>9. QED
    BY <1>1, <1>2, <1>3, <2>3, <2>6, <2>8, Zenon DEF Complete, Capacity, Account
<1>6. CASE b \notin DOMAIN redis
  <2>1. PICK e \in Nat : e = Earliest /\ e = Earliest'
    BY <1>0, Sums, RedisNumbers DEF Earliest
  <2>2. WithinNone(P, L, A, e, w, f)
    BY <1>0, <1>1, <1>2, <1>6, <2>1, Zenon DEF IInv, Solvent, WithinNone
  <2>3. WithinNone(P, L, B, e, w, f + 0)
    <3>1. B <= A + 0 /\ e <= e /\ 0 \in Nat
      BY <1>4
    <3>2. QED
      BY <2>2, <3>1, WithinNoneQuiet, Zenon
  <2>4. b \notin DOMAIN redis' /\ rewound'[b] = w /\ f + 0 = f
    BY <1>1, <1>6, RefundKeys
  <2>5. QED
    BY <1>1, <1>2, <2>1, <2>3, <2>4, Zenon DEF Solvent, WithinNone, Complete, Account
<1>7. QED
  BY <1>5, <1>6, Zenon

----------------------------------------------------------------------------
\* The limiter goes on to its next Storage call.
LEMMA GotoMoves ==
  ASSUME IInv, NEW p \in Procs, NEW l \in Labels, NEW c, NEW d, d = IF l = "idle" THEN NoCall ELSE c,
         Goto(p, l, c), CallOK(hasGlobal, l, d), hasGlobal' = hasGlobal, NEW o, out'[p] = o,
         \A q \in Procs \ {p} : out'[q] = out[q]
  PROVE  /\ Moves(p, l, d, o) /\ pc' \in [Procs -> Labels] /\ DOMAIN call' = Procs
BY Zenon DEF Goto, Moves, IInv, Typed

\* The goroutines and the scripts after p's move.
LEMMA MovesKeep ==
  ASSUME IInv, NEW p \in Procs, NEW l, NEW c, NEW o, Moves(p, l, c, o), l = "idle" => o = None,
         msgs' \subseteq msgs, o = None \/ UNCHANGED <<pc, call, out>>, now' = now
  PROVE  /\ \A q \in Procs : /\ CallOK(hasGlobal, pc[q], call[q])'
                             /\ pc'[q] = "idle" => out'[q] = None
         /\ \A m \in msgs' : MsgOK(m)'
<1>1. \A q \in Procs : /\ CallOK(hasGlobal', pc'[q], call'[q])
                       /\ pc'[q] = "idle" => out'[q] = None
  BY Zenon DEF Moves, IInv
<1>2. ASSUME NEW m \in msgs' PROVE MsgOK(m)'
  <2>1. MsgOK(m) /\ m.p \in Procs /\ m.slot \in 0 .. MaxLate
    BY Zenon DEF IInv, MsgOK, Scripts
  <2>2. CASE m.p # p
    <3>1. pc'[m.p] = pc[m.p] /\ call'[m.p] = call[m.p] /\ out'[m.p] = out[m.p]
      BY <2>1, <2>2, Zenon DEF Moves
    <3>2. QED
      BY <2>1, <3>1, Zenon DEF MsgOK, Awaited
  <2>3. CASE m.p = p /\ o = None
    <3>1. out'[m.p] # m.slot
      BY <2>1, <2>3, RedisNames, Zenon DEF Moves
    <3>2. QED
      BY <2>1, <3>1, Zenon DEF MsgOK, Awaited
  <2>4. CASE UNCHANGED <<pc, call, out>>
    BY <2>1, <2>4, Zenon DEF MsgOK, Awaited
  <2>5. QED
    BY <2>2, <2>3, <2>4, Zenon
<1>3. QED
  BY <1>1, <1>2, Zenon

\* AllowUpToN returns g: p has them, has passed them on as admitted, or both.
Returned(p, g, l, c) ==
  /\ Moves(p, l, c, None) /\ pc' \in [Procs -> Labels] /\ DOMAIN call' = Procs
  /\ admitted' \in [Buckets -> Nat]
  /\ \A b \in Buckets :
       admitted'[b] + Hold(hasGlobal, l, c, b)
         = admitted[b] + Hold(hasGlobal, pc[p], call[p], b) + (IF b = Bucket(p) THEN g ELSE 0)

LEMMA ReturnGlobal ==
  ASSUME IInv, NEW p \in Procs, pc[p] = "global", NEW g \in Nat, g <= Amount(p), Return(p, g),
         hasGlobal' = hasGlobal, out'[p] = None, \A q \in Procs \ {p} : out'[q] = out[q]
  PROVE  \E l, c : Returned(p, g, l, c)
<1>1. PICK l, c : /\ l = (IF g = 0 THEN "idle" ELSE "key")
                  /\ c = [call[p] EXCEPT !.globalGranted = g]
  BY Zenon
<1>2. PICK d : d = IF l = "idle" THEN NoCall ELSE c
  BY Zenon
<1>3. Goto(p, l, c) /\ UNCHANGED admitted
  BY <1>1, Zenon DEF Return
<1>4. CallOK(hasGlobal, pc[p], call[p])
  BY Zenon DEF IInv
<1>5. call[p] \in Calls /\ call[p].keyGranted = 0 /\ hasGlobal /\ g <= call[p].n
  BY <1>4, Zenon DEF CallOK, Takes, Amount
<1>6. l # "idle" => c \in Calls /\ c.globalGranted = g /\ c.keyGranted = 0 /\ c.n = call[p].n /\ g > 0
  BY <1>1, <1>5 DEF Calls
<1>7. l \in Labels /\ l \in {"idle", "key"} /\ CallOK(hasGlobal, l, d)
  BY <1>1, <1>2, <1>5, <1>6 DEF CallOK, Labels, Takes
<1>8. Moves(p, l, d, None) /\ pc' \in [Procs -> Labels] /\ DOMAIN call' = Procs
  BY <1>2, <1>3, <1>7, GotoMoves, Zenon
<1>9. ASSUME NEW b \in Buckets
      PROVE  admitted'[b] + Hold(hasGlobal, l, d, b)
               = admitted[b] + Hold(hasGlobal, pc[p], call[p], b) + (IF b = Bucket(p) THEN g ELSE 0)
  <2>1. Bucket(p) = globalKey /\ Hold(hasGlobal, pc[p], call[p], b) = 0
    BY Zenon DEF Bucket, Hold
  <2>2. Hold(hasGlobal, l, d, b) = IF b = globalKey THEN g ELSE 0
    <3>1. CASE g = 0
      BY <1>1, <3>1, Zenon DEF Hold
    <3>2. CASE g # 0
      BY <1>1, <1>2, <1>5, <1>6, <3>2, Zenon DEF Hold
    <3>3. QED
      BY <3>1, <3>2, Zenon
  <2>3. admitted[b] \in Nat
    BY Zenon DEF IInv, Typed
  <2>4. QED
    BY <1>3, <2>1, <2>2, <2>3
<1>10. admitted' \in [Buckets -> Nat]
  BY <1>3, Zenon DEF IInv, Typed
<1>11. QED
  BY <1>8, <1>9, <1>10, Zenon DEF Returned

LEMMA ReturnKey ==
  ASSUME IInv, NEW p \in Procs, pc[p] = "key", NEW g \in Nat, g <= Amount(p), Return(p, g),
         hasGlobal' = hasGlobal, out'[p] = None, \A q \in Procs \ {p} : out'[q] = out[q]
  PROVE  \E l, c : Returned(p, g, l, c)
<1>1. PICK hg, k, c : hg = hasGlobal /\ k = call[p].key /\ c = [call[p] EXCEPT !.keyGranted = g]
  BY Zenon
<1>2. PICK l : l = AfterKey(hg, c)
  BY Zenon
<1>3. PICK d : d = IF l = "idle" THEN NoCall ELSE c
  BY Zenon
<1>4. Goto(p, l, c)
  BY <1>1, <1>2, Zenon DEF Return
<1>5. admitted' = [b \in Buckets |->
                     admitted[b] + IF b = k \/ (hg /\ b = globalKey) THEN Admitted(c) ELSE 0]
  BY <1>1, Zenon DEF Return
<1>6. CallOK(hasGlobal, pc[p], call[p])
  BY Zenon DEF IInv
<1>7. PICK n, gG \in Nat : n = call[p].n /\ gG = call[p].globalGranted
  BY <1>6, Zenon DEF CallOK, Calls
<1>8. /\ c \in Calls /\ c.keyGranted = g /\ c.globalGranted = gG /\ c.n = n /\ c.key = k
      /\ k \in Keys /\ k # globalKey /\ g <= gG /\ gG <= n /\ hg \in BOOLEAN /\ c.whole \in BOOLEAN
  BY <1>1, <1>6, <1>7, RedisNames, Zenon DEF CallOK, Calls, Amount, IInv, Typed
<1>9. PICK u \in Nat : /\ u = Undone(c) /\ u <= g /\ Admitted(c) = g - u
                       /\ u = IF c.whole /\ g < n THEN g ELSE 0
  BY <1>8 DEF Undone, Admitted
<1>10. \/ l = "surplus" /\ hg /\ g < gG
       \/ l = "undoKey" /\ (hg => g = gG) /\ c.whole /\ 0 < g /\ g < n /\ u = g
       \/ l = "idle" /\ (hg => g = gG) /\ u = 0
  BY <1>2, <1>8, <1>9 DEF AfterKey, AfterGrant
<1>11. l \in Labels /\ CallOK(hasGlobal, l, d)
  BY <1>1, <1>3, <1>8, <1>10, Zenon DEF CallOK, Labels, Takes
<1>12. Moves(p, l, d, None) /\ pc' \in [Procs -> Labels] /\ DOMAIN call' = Procs
  BY <1>3, <1>4, <1>11, GotoMoves, Zenon
<1>13. admitted' \in [Buckets -> Nat]
  <2>1. PICK m \in Nat : m = Admitted(c)
    BY <1>9
  <2>2. \A b \in Buckets : admitted[b] \in Nat
    BY Zenon DEF IInv, Typed
  <2>3. \A b \in Buckets : admitted[b] + m \in Nat /\ admitted[b] + 0 \in Nat
    BY <2>2
  <2>4. QED
    BY <1>5, <2>1, <2>3, Zenon
<1>14. ASSUME NEW b \in Buckets
       PROVE  admitted'[b] + Hold(hasGlobal, l, d, b)
                = admitted[b] + Hold(hasGlobal, pc[p], call[p], b) + (IF b = Bucket(p) THEN g ELSE 0)
  <2>1. /\ Bucket(p) = k /\ admitted[b] \in Nat
        /\ Hold(hasGlobal, pc[p], call[p], b) = IF hg /\ b = globalKey THEN gG ELSE 0
    BY <1>1, <1>7, Zenon DEF Bucket, Hold, IInv, Typed
  <2>2. admitted'[b] = admitted[b] + (IF b = k \/ (hg /\ b = globalKey) THEN g - u ELSE 0)
    BY <1>5, <1>9, Zenon
  <2>3. Hold(hasGlobal, l, d, b)
          = IF b = k THEN u ELSE IF hg /\ b = globalKey THEN (gG - g) + u ELSE 0
    <3>1. CASE l = "surplus" /\ hg /\ g < gG
      BY <1>1, <1>3, <1>8, <1>9, <3>1 DEF Hold
    <3>2. CASE l = "undoKey" /\ (hg => g = gG) /\ u = g
      BY <1>1, <1>3, <1>8, <1>9, <3>2 DEF Hold
    <3>3. CASE l = "idle" /\ (hg => g = gG) /\ u = 0
      <4>1. Hold(hasGlobal, l, d, b) = 0
        BY <3>3, Zenon DEF Hold
      <4>2. hg => (gG - g) + u = 0
        BY <3>3, NothingHeld, Zenon
      <4>3. QED
        BY <3>3, <4>1, <4>2, Zenon
    <3>4. QED
      BY <1>10, <3>1, <3>2, <3>3, Zenon
  <2>4. QED
    BY <1>8, <1>9, <2>1, <2>2, <2>3
<1>15. QED
  BY <1>12, <1>13, <1>14, Zenon DEF Returned

\* Refund returns: what p gave back it no longer has.
LEMMA RefundedMoves ==
  ASSUME IInv, NEW p \in Procs, pc[p] \in GivesBack, Refunded(p), hasGlobal' = hasGlobal,
         out'[p] = None, \A q \in Procs \ {p} : out'[q] = out[q]
  PROVE  \E l, c :
           /\ Moves(p, l, c, None) /\ pc' \in [Procs -> Labels] /\ DOMAIN call' = Procs
           /\ \A b \in Buckets :
                Hold(hasGlobal, l, c, b) = Hold(hasGlobal, pc[p], call[p], b)
                                             - (IF b = Bucket(p) THEN Amount(p) ELSE 0)
<1>1. PICK hg, k, c, lab : hg = hasGlobal /\ k = call[p].key /\ c = call[p] /\ lab = pc[p]
  BY Zenon
<1>2. PICK l : l = CASE lab = "surplus" -> AfterGrant(c)
                     [] lab = "undoKey" -> AfterUndoKey(hg)
                     [] OTHER -> "idle"
  BY Zenon
<1>3. PICK d : d = IF l = "idle" THEN NoCall ELSE c
  BY Zenon
<1>4. Goto(p, l, c)
  BY <1>1, <1>2, Zenon DEF Refunded
<1>5. CallOK(hg, lab, c) /\ hg \in BOOLEAN /\ lab \in GivesBack
  BY <1>1, Zenon DEF IInv, Typed
<1>6. PICK n, gG, g \in Nat : n = c.n /\ gG = c.globalGranted /\ g = c.keyGranted
  BY <1>5, Zenon DEF CallOK, Calls, GivesBack
<1>7. c \in Calls /\ g <= gG /\ gG <= n /\ k = c.key /\ k \in Keys /\ k # globalKey /\ c.whole \in BOOLEAN
  BY <1>1, <1>5, <1>6, RedisNames, Zenon DEF CallOK, Calls, GivesBack
<1>8. \/ lab = "surplus" /\ hg /\ g < gG /\ l = "undoKey" /\ c.whole /\ 0 < g /\ g < n /\ Undone(c) = g
      \/ lab = "surplus" /\ hg /\ g < gG /\ l = "idle" /\ Undone(c) = 0
      \/ lab = "undoKey" /\ hg /\ l = "undoGlobal" /\ c.whole /\ 0 < g /\ g < n /\ Undone(c) = g
      \/ lab = "undoKey" /\ ~hg /\ l = "idle" /\ Undone(c) = g
      \/ lab = "undoGlobal" /\ hg /\ l = "idle"
  BY <1>2, <1>5, <1>6, <1>7 DEF CallOK, GivesBack, AfterGrant, AfterUndoKey, Undone
<1>9. l \in Labels /\ CallOK(hasGlobal, l, d)
  BY <1>1, <1>3, <1>6, <1>7, <1>8, Zenon DEF CallOK, Labels, Takes
<1>10. Moves(p, l, d, None) /\ pc' \in [Procs -> Labels] /\ DOMAIN call' = Procs
  BY <1>3, <1>4, <1>9, GotoMoves, Zenon
<1>11. Bucket(p) = BucketOf(lab, c) /\ Amount(p) = AmountOf(lab, c)
  BY <1>1, Zenon DEF Bucket, BucketOf, Amount, AmountOf
<1>12. ASSUME NEW b \in Buckets
       PROVE  Hold(hg, l, d, b) = Hold(hg, lab, c, b)
                                    - (IF b = BucketOf(lab, c) THEN AmountOf(lab, c) ELSE 0)
  <2>1. CASE lab = "surplus" /\ hg /\ g < gG /\ l = "undoKey" /\ Undone(c) = g
    BY <1>3, <1>6, <1>7, <2>1 DEF Hold, BucketOf, AmountOf
  <2>2. CASE lab = "surplus" /\ hg /\ g < gG /\ l = "idle" /\ Undone(c) = 0
    BY <1>6, <1>7, <2>2 DEF Hold, BucketOf, AmountOf
  <2>3. CASE lab = "undoKey" /\ hg /\ l = "undoGlobal" /\ Undone(c) = g
    BY <1>3, <1>6, <1>7, <2>3 DEF Hold, BucketOf, AmountOf
  <2>4. CASE lab = "undoKey" /\ ~hg /\ l = "idle" /\ Undone(c) = g
    BY <1>6, <1>7, <2>4 DEF Hold, BucketOf, AmountOf
  <2>5. CASE lab = "undoGlobal" /\ hg /\ l = "idle"
    BY <1>6, <1>7, <2>5 DEF Hold, BucketOf, AmountOf
  <2>6. QED
    BY <1>8, <2>1, <2>2, <2>3, <2>4, <2>5, Zenon
<1>13. QED
  BY <1>1, <1>10, <1>11, <1>12

----------------------------------------------------------------------------
LEMMA BaseHolds ==
  ASSUME IInv, NEW b \in Buckets
  PROVE  Base /\ Summed(b) /\ Backed(b) >= 0
<1>1. Base /\ Backed(b) >= 0
  BY Zenon DEF IInv, Base, Complete
<1>2. QED
  BY <1>1, SumsBase, Zenon DEF AllSummed

\* Redis does nothing, and each bucket fails open for so many items.
LEMMA QuietRun ==
  ASSUME IInv, Base', UNCHANGED <<redis, rewound, now>>, NEW G \in [Buckets -> Nat],
         \A b \in Buckets : /\ failOpenItems'[b] = failOpenItems[b] + G[b]
                            /\ Claims(b)' <= Claims(b) + G[b] /\ Spare(b)' >= Spare(b)
                            /\ Backed(b)' >= Backed(b)
  PROVE  /\ \A b \in DOMAIN redis' : KeyOK(b)'
         /\ \A b \in Buckets : Solvent(b)' /\ Complete(b)'
<1>1. \A b \in DOMAIN redis' : KeyOK(b)'
  BY Zenon DEF IInv, KeyOK, Capacity
<1>2. ASSUME NEW b \in Buckets PROVE Solvent(b)' /\ Complete(b)'
  <2>1. Summed(b)' /\ Summed(b) /\ Backed(b) >= 0 /\ Backed(b)' >= Backed(b)
    BY SumsNext, BaseHolds, Zenon DEF AllSummed
  <2>2. Account(b)' /\ now' >= now
    <3>1. now' >= now
      BY <2>1, Unmoved, Zenon DEF Summed
    <3>2. QED
      BY <2>1, <3>1, Accounted, Zenon
  <2>3. PICK g \in Nat : g = G[b]
    BY Zenon
  <2>4. /\ b \in DOMAIN redis' <=> b \in DOMAIN redis
        /\ b \in DOMAIN redis => redis'[b] = redis[b]
        /\ rewound'[b] = rewound[b] /\ failOpenItems'[b] = failOpenItems[b] + g
        /\ Claims(b)' <= Claims(b) + g /\ Spare(b)' >= Spare(b)
    BY <2>3, Zenon
  <2>5. QED
    BY <2>2, <2>4, LedgerQuiet, Zenon
<1>3. QED
  BY <1>1, <1>2, Zenon

\* allowLuaScript or refundLuaScript runs.
LEMMA AllowRun ==
  ASSUME IInv, Base', NEW m \in msgs, InTime(m), allowScript(m), UNCHANGED <<now, failOpenItems>>,
         NEW g, g = Grant(m),
         \A b \in Buckets : /\ Claims(b)' <= Claims(b) + (IF b = m.b THEN g ELSE 0)
                            /\ Spare(b)' >= Spare(b) + (IF b = m.b THEN g ELSE 0)
                            /\ Backed(b)' >= Backed(b)
  PROVE  /\ \A b \in DOMAIN redis' : KeyOK(b)'
         /\ \A b \in Buckets : Solvent(b)' /\ Complete(b)'
<1>1. \A b \in DOMAIN redis' : KeyOK(b)'
  BY AllowKeys, Zenon
<1>2. ASSUME NEW b \in Buckets PROVE Solvent(b)' /\ Complete(b)'
  <2>1. Summed(b)' /\ Summed(b) /\ Backed(b) >= 0 /\ Backed(b)' >= Backed(b)
    BY SumsNext, BaseHolds, Zenon DEF AllSummed
  <2>2. Account(b)' /\ now' >= now
    <3>1. now' >= now
      BY <2>1, Unmoved, Zenon DEF Summed
    <3>2. QED
      BY <2>1, <3>1, Accounted, Zenon
  <2>3. CASE b = m.b
    <3>1. /\ failOpenItems'[b] = failOpenItems[b]
          /\ Claims(b)' <= Claims(b) + Grant(m) /\ Spare(b)' >= Spare(b) + Grant(m)
      BY <2>3, Zenon
    <3>2. QED
      BY <2>2, <2>3, <3>1, AllowLedger, Zenon
  <2>4. CASE b # m.b
    <3>1. /\ 0 \in Nat /\ failOpenItems'[b] = failOpenItems[b] + 0
          /\ Claims(b)' <= Claims(b) + 0 /\ Spare(b)' >= Spare(b)
      BY <2>1, <2>4 DEF Summed
    <3>2. /\ b \in DOMAIN redis' <=> b \in DOMAIN redis
          /\ b \in DOMAIN redis => redis'[b] = redis[b]
          /\ rewound'[b] = rewound[b]
      BY <2>4, AllowKeys, Zenon
    <3>3. QED
      BY <2>2, <3>1, <3>2, LedgerQuiet, Zenon
  <2>5. QED
    BY <2>3, <2>4, Zenon
<1>3. QED
  BY <1>1, <1>2, Zenon

LEMMA RefundRun ==
  ASSUME IInv, Base', NEW m \in msgs, refundScript(m), UNCHANGED <<now, failOpenItems>>,
         \A b \in Buckets : /\ Claims(b)' <= Claims(b) - (IF b = m.b THEN m.n ELSE 0)
                            /\ Spare(b)' >= Spare(b) - (IF b = m.b THEN m.n ELSE 0)
                            /\ Backed(b)' >= Backed(b)
  PROVE  /\ \A b \in DOMAIN redis' : KeyOK(b)'
         /\ \A b \in Buckets : Solvent(b)' /\ Complete(b)'
<1>1. \A b \in DOMAIN redis' : KeyOK(b)'
  BY RefundKeys, Zenon
<1>2. ASSUME NEW b \in Buckets PROVE Solvent(b)' /\ Complete(b)'
  <2>1. Summed(b)' /\ Summed(b) /\ Backed(b) >= 0 /\ Backed(b)' >= Backed(b)
    BY SumsNext, BaseHolds, Zenon DEF AllSummed
  <2>2. Account(b)' /\ now' >= now
    <3>1. now' >= now
      BY <2>1, Unmoved, Zenon DEF Summed
    <3>2. QED
      BY <2>1, <3>1, Accounted, Zenon
  <2>3. CASE b = m.b
    <3>1. /\ failOpenItems'[b] = failOpenItems[b]
          /\ Claims(b)' <= Claims(b) - m.n /\ Spare(b)' >= Spare(b) - m.n
      BY <2>3, Zenon
    <3>2. QED
      BY <2>2, <2>3, <3>1, RefundLedger, Zenon
  <2>4. CASE b # m.b
    <3>1. /\ 0 \in Nat /\ failOpenItems'[b] = failOpenItems[b] + 0
          /\ Claims(b)' <= Claims(b) + 0 /\ Spare(b)' >= Spare(b)
      BY <2>1, <2>4 DEF Summed
    <3>2. /\ b \in DOMAIN redis' <=> b \in DOMAIN redis
          /\ b \in DOMAIN redis => redis'[b] = redis[b]
          /\ rewound'[b] = rewound[b]
      BY <2>4, RefundKeys, Zenon
    <3>3. QED
      BY <2>2, <3>1, <3>2, LedgerQuiet, Zenon
  <2>5. QED
    BY <2>3, <2>4, Zenon
<1>3. QED
  BY <1>1, <1>2, Zenon

----------------------------------------------------------------------------
\* p goes on and waits for nothing; no script is sent.
LEMMA BaseMoves ==
  ASSUME IInv, NEW p \in Procs, NEW l, NEW c, Moves(p, l, c, None),
         pc' \in [Procs -> Labels], DOMAIN call' = Procs,
         out' \in [Procs -> (0 .. MaxLate) \cup {None}],
         msgs' \subseteq msgs, now' = now, DOMAIN redis' \subseteq Buckets,
         {admitted, rewound, failOpenItems, failed}' \subseteq [Buckets -> Nat]
  PROVE  Base'
<1>1. IsFiniteSet(msgs')
  BY FS_Subset, Zenon DEF IInv, Typed
<1>2. Typed'
  BY <1>1, Zenon DEF Moves, IInv, Typed
<1>3. /\ \A q \in Procs : /\ CallOK(hasGlobal, pc[q], call[q])'
                          /\ pc'[q] = "idle" => out'[q] = None
      /\ \A m \in msgs' : MsgOK(m)'
  BY MovesKeep, Zenon
<1>4. QED
  BY <1>2, <1>3, Zenon DEF Base

\* Nobody goes on, and no script is sent.
LEMMA BaseStays ==
  ASSUME IInv, UNCHANGED <<hasGlobal, pc, call, out, now, admitted, failOpenItems, failed>>,
         rewound' \in [Buckets -> Nat], msgs' \subseteq msgs, DOMAIN redis' \subseteq Buckets
  PROVE  Base'
<1>1. IsFiniteSet(msgs')
  BY FS_Subset, Zenon DEF IInv, Typed
<1>2. Typed'
  BY <1>1, Zenon DEF IInv, Typed
<1>3. \A m \in msgs' : MsgOK(m)'
  BY Zenon DEF IInv, MsgOK, Awaited
<1>4. QED
  BY <1>2, <1>3, Zenon DEF IInv, Base

\* The sums when AllowUpToN returns g, and when Refund returns.
LEMMA ReturnSums ==
  ASSUME IInv, NEW p \in Procs, pc[p] \in Takes, NEW g \in Nat, NEW l, NEW c,
         Returned(p, g, l, c), NEW b \in Buckets
  PROVE  /\ admitted'[b] + Held(b)' = admitted[b] + Held(b) + (IF b = Bucket(p) THEN g ELSE 0)
         /\ Sending(b)' = Sending(b)
                            - (IF out[p] # None /\ b = Bucket(p) THEN Amount(p) ELSE 0)
         /\ Returning(b)' = Returning(b)
<1>1. /\ Moves(p, l, c, None) /\ admitted'[b] \in Nat
      /\ admitted'[b] + Hold(hasGlobal, l, c, b)
           = admitted[b] + Hold(hasGlobal, pc[p], call[p], b) + (IF b = Bucket(p) THEN g ELSE 0)
  BY Zenon DEF Returned
<1>2. PICK h, h2, s, x \in Nat :
        /\ h = Hold(hasGlobal, pc[p], call[p], b) /\ h2 = Hold(hasGlobal, l, c, b)
        /\ s = SentAllow(pc[p], call[p], out[p], b)
        /\ x = IF b = Bucket(p) THEN g ELSE 0
  <2>1. /\ Hold(hasGlobal, pc[p], call[p], b) \in Nat /\ Hold(hasGlobal, l, c, b) \in Nat
        /\ SentAllow(pc[p], call[p], out[p], b) \in Nat
    BY <1>1, Weights, Zenon DEF IInv, Typed, Moves
  <2>2. QED
    BY <2>1, Zenon
<1>3. SentAllow(l, c, None, b) = 0 /\ SentRefund(l, c, None, b) = 0
  BY Zenon DEF SentAllow, SentRefund
<1>4. /\ s = (IF out[p] # None /\ b = Bucket(p) THEN Amount(p) ELSE 0)
      /\ SentRefund(pc[p], call[p], out[p], b) = 0
  BY <1>2, Zenon DEF SentAllow, SentRefund, Bucket, BucketOf, Amount, AmountOf, Takes, GivesBack
<1>5. /\ Held(b)' = Held(b) - h + h2 /\ Sending(b)' = Sending(b) - s + 0
      /\ Returning(b)' = Returning(b) - 0 + 0
  <2>1. Shifts(p, l, c, None, b)
    BY <1>1, ProcStep, Zenon
  <2>2. QED
    BY <1>2, <1>3, <1>4, <2>1, Zenon DEF Shifts
<1>6. /\ Held(b) \in Nat /\ Sending(b) \in Nat /\ Returning(b) \in Nat /\ admitted[b] \in Nat
      /\ admitted'[b] + h2 = admitted[b] + h + x
  BY <1>1, <1>2, Sums, Zenon
<1>7. /\ admitted'[b] + Held(b)' = admitted[b] + Held(b) + x
      /\ Sending(b)' = Sending(b) - s /\ Returning(b)' = Returning(b)
  BY <1>1, <1>5, <1>6
<1>8. QED
  BY <1>2, <1>4, <1>7, Zenon

LEMMA RefundSums ==
  ASSUME IInv, NEW p \in Procs, pc[p] \in GivesBack, NEW l, NEW c, Moves(p, l, c, None),
         NEW b \in Buckets,
         Hold(hasGlobal, l, c, b) = Hold(hasGlobal, pc[p], call[p], b)
                                      - (IF b = Bucket(p) THEN Amount(p) ELSE 0)
  PROVE  /\ Held(b)' = Held(b) - (IF b = Bucket(p) THEN Amount(p) ELSE 0)
         /\ Sending(b)' = Sending(b)
         /\ Returning(b)' = Returning(b)
                              - (IF out[p] # None /\ b = Bucket(p) THEN Amount(p) ELSE 0)
<1>1. PICK h, h2, s, x \in Nat :
        /\ h = Hold(hasGlobal, pc[p], call[p], b) /\ h2 = Hold(hasGlobal, l, c, b)
        /\ s = SentRefund(pc[p], call[p], out[p], b)
        /\ x = IF b = Bucket(p) THEN Amount(p) ELSE 0
  <2>1. /\ Hold(hasGlobal, pc[p], call[p], b) \in Nat /\ Hold(hasGlobal, l, c, b) \in Nat
        /\ SentRefund(pc[p], call[p], out[p], b) \in Nat
        /\ pc[p] # "idle" => AmountOf(pc[p], call[p]) \in Nat
    BY Weights, Zenon DEF IInv, Typed, Moves
  <2>2. Amount(p) \in Nat
    BY <2>1, Zenon DEF Amount, AmountOf, GivesBack
  <2>3. QED
    BY <2>1, <2>2, Zenon
<1>2. SentAllow(l, c, None, b) = 0 /\ SentRefund(l, c, None, b) = 0
  BY Zenon DEF SentAllow, SentRefund
<1>3. /\ s = (IF out[p] # None /\ b = Bucket(p) THEN Amount(p) ELSE 0)
      /\ SentAllow(pc[p], call[p], out[p], b) = 0
  BY <1>1, Zenon DEF SentAllow, SentRefund, Bucket, BucketOf, Amount, AmountOf, Takes, GivesBack
<1>4. /\ Held(b)' = Held(b) - h + h2 /\ Sending(b)' = Sending(b) - 0 + 0
      /\ Returning(b)' = Returning(b) - s + 0
  <2>1. Shifts(p, l, c, None, b)
    BY ProcStep, Zenon
  <2>2. QED
    BY <1>1, <1>2, <1>3, <2>1, Zenon DEF Shifts
<1>5. Held(b) \in Nat /\ Sending(b) \in Nat /\ Returning(b) \in Nat /\ h2 = h - x
  BY <1>1, Sums, Zenon
<1>6. /\ Held(b)' = Held(b) - x /\ Sending(b)' = Sending(b) /\ Returning(b)' = Returning(b) - s
  BY <1>4, <1>5
<1>7. QED
  BY <1>1, <1>3, <1>6, Zenon

LEMMA ReturnMoves ==
  ASSUME IInv, NEW p \in Procs, pc[p] \in Takes, NEW g \in Nat, g <= Amount(p), Return(p, g),
         hasGlobal' = hasGlobal, out'[p] = None, \A q \in Procs \ {p} : out'[q] = out[q]
  PROVE  \E l, c : Returned(p, g, l, c)
BY ReturnGlobal, ReturnKey, Zenon DEF Takes

LEMMA AmountType ==
  ASSUME IInv, NEW p \in Procs, pc[p] # "idle"
  PROVE  Amount(p) \in Nat \ {0} /\ Bucket(p) \in Buckets
BY Weights, Zenon DEF IInv, Typed, Amount, AmountOf, Bucket, BucketOf

----------------------------------------------------------------------------
\* The negative cache of a replica after a denial.
LEMMA CacheSet ==
  ASSUME IInv, NEW r \in Replicas, NEW b, negCache' = [negCache EXCEPT ![r] = negCacheSet(r, b)]
  PROVE  CacheOK'
<1>1. PICK D, N : D = DOMAIN negCache[r] /\ N = maxNegCacheEntries
  BY Zenon
<1>2. IsFiniteSet(D) /\ Cardinality(D) \in Nat /\ Cardinality(D) <= N /\ N \in Nat
  BY <1>1, RedisNumbers, FS_CardinalityType, Zenon DEF IInv, CacheOK, NegCacheBounded
<1>3. PICK keep : keep = IF Cardinality(D) >= N THEN {x \in D : now <= negCache[r][x]} ELSE D
  BY Zenon
<1>4. keep \subseteq D
  BY <1>3, Zenon
<1>5. IsFiniteSet(keep) /\ Cardinality(keep) \in Nat /\ Cardinality(keep) <= N
  <2>1. IsFiniteSet(keep) /\ Cardinality(keep) <= Cardinality(D)
    BY <1>2, <1>4, FS_Subset, Zenon
  <2>2. QED
    BY <1>2, <2>1, FS_CardinalityType
<1>6. PICK E : E = keep \cup (IF Cardinality(keep) < N THEN {b} ELSE {})
  BY Zenon
<1>7. IsFiniteSet(E) /\ Cardinality(E) <= N
  <2>1. CASE Cardinality(keep) < N
    <3>1. E = keep \cup {b}
      BY <1>6, <2>1, Zenon
    <3>2. IsFiniteSet(E) /\ (Cardinality(E) = Cardinality(keep) \/ Cardinality(E) = Cardinality(keep) + 1)
      BY <1>5, <3>1, FS_AddElement, Zenon
    <3>3. QED
      BY <1>2, <1>5, <2>1, <3>2
  <2>2. CASE ~(Cardinality(keep) < N)
    <3>1. E = keep
      BY <1>6, <2>2, Zenon
    <3>2. QED
      BY <1>5, <3>1, Zenon
  <2>3. QED
    BY <2>1, <2>2, Zenon
<1>8. DOMAIN negCacheSet(r, b) = E
  BY <1>1, <1>3, <1>6, Zenon DEF negCacheSet
<1>9. DOMAIN negCache' = Replicas /\ negCache'[r] = negCacheSet(r, b)
      /\ \A q \in Replicas \ {r} : negCache'[q] = negCache[q]
  BY Zenon DEF IInv, CacheOK
<1>10. \A q \in Replicas : IsFiniteSet(DOMAIN negCache'[q]) /\ Cardinality(DOMAIN negCache'[q]) <= N
  <2> TAKE q \in Replicas
  <2>1. CASE q = r
    BY <1>7, <1>8, <1>9, <2>1, Zenon
  <2>2. CASE q # r
    BY <1>1, <1>9, <2>2, Zenon DEF IInv, CacheOK, NegCacheBounded
  <2>3. QED
    BY <2>1, <2>2, Zenon
<1>11. QED
  BY <1>1, <1>9, <1>10, Zenon DEF CacheOK, NegCacheBounded

\* An entry that is dropped.
LEMMA CacheDrop ==
  ASSUME IInv, NEW r \in Replicas, NEW b,
         negCache' = [negCache EXCEPT ![r] = [x \in DOMAIN @ \ {b} |-> @[x]]]
  PROVE  CacheOK'
<1>1. PICK D, N : D = DOMAIN negCache[r] /\ N = maxNegCacheEntries
  BY Zenon
<1>2. IsFiniteSet(D) /\ Cardinality(D) \in Nat /\ Cardinality(D) <= N /\ N \in Nat
  BY <1>1, RedisNumbers, FS_CardinalityType, Zenon DEF IInv, CacheOK, NegCacheBounded
<1>3. PICK E : E = D \ {b}
  BY Zenon
<1>4. IsFiniteSet(E) /\ Cardinality(E) <= N
  <2>1. IsFiniteSet(E) /\ Cardinality(E) <= Cardinality(D)
    BY <1>2, <1>3, FS_Subset, Zenon
  <2>2. QED
    BY <1>2, <2>1, FS_CardinalityType
<1>5. DOMAIN negCache' = Replicas /\ DOMAIN negCache'[r] = E
      /\ \A q \in Replicas \ {r} : negCache'[q] = negCache[q]
  BY <1>1, <1>3, Zenon DEF IInv, CacheOK
<1>6. \A q \in Replicas : IsFiniteSet(DOMAIN negCache'[q]) /\ Cardinality(DOMAIN negCache'[q]) <= N
  <2> TAKE q \in Replicas
  <2>1. CASE q = r
    BY <1>4, <1>5, <2>1, Zenon
  <2>2. CASE q # r
    BY <1>1, <1>5, <2>2, Zenon DEF IInv, CacheOK, NegCacheBounded
  <2>3. QED
    BY <2>1, <2>2, Zenon
<1>7. QED
  BY <1>1, <1>5, <1>6, Zenon DEF CacheOK, NegCacheBounded

LEMMA CacheSame ==
  ASSUME IInv, UNCHANGED negCache
  PROVE  CacheOK'
BY Zenon DEF IInv, CacheOK, NegCacheBounded

\* The parts of the next state's invariant.
LEMMA Assemble ==
  ASSUME Base', CacheOK', \A b \in DOMAIN redis' : KeyOK(b)',
         \A b \in Buckets : Solvent(b)' /\ Complete(b)'
  PROVE  IInv'
BY Zenon DEF Base, IInv

----------------------------------------------------------------------------
\* The actions.
LEMMA BeginStep ==
  ASSUME IInv, NEW p \in Procs, NEW k \in Keys, NEW n \in Requests, NEW w \in BOOLEAN,
         Begin(p, k, n, w)
  PROVE  IInv'
<1>1. PICK hg, l, c : hg = hasGlobal /\ l = FirstLabel(hg) /\ c = NewCall(k, n, w)
  BY Zenon
<1>2. /\ c \in Calls /\ c.globalGranted = c.n /\ c.keyGranted = 0
      /\ l \in Labels /\ ((l = "global" /\ hg) \/ (l = "key" /\ ~hg)) /\ l # "idle" /\ hg \in BOOLEAN
  BY <1>1, RedisNumbers, Zenon DEF NewCall, Calls, FirstLabel, Labels, IInv, Typed
<1>3. CallOK(hasGlobal, l, c)
  BY <1>1, <1>2 DEF CallOK, Calls, Takes
<1>4. Goto(p, l, c) /\ UNCHANGED <<hasGlobal, out>> /\ pc[p] = "idle"
  BY <1>1, Zenon DEF Begin, config
<1>5. out[p] = None
  BY <1>4, Zenon DEF IInv
<1>6. Moves(p, l, c, None) /\ pc' \in [Procs -> Labels] /\ DOMAIN call' = Procs
  <2>1. c = (IF l = "idle" THEN NoCall ELSE c) /\ out'[p] = None
        /\ \A q \in Procs \ {p} : out'[q] = out[q]
    BY <1>2, <1>4, <1>5, Zenon
  <2>2. QED
    BY <1>2, <1>3, <1>4, <2>1, GotoMoves, Zenon
<1>7. UNCHANGED <<redis, msgs, now, rewound, admitted, failOpenItems, failed, negCache>>
  BY Zenon DEF Begin
<1>8. Base'
  <2>1. /\ out' \in [Procs -> (0 .. MaxLate) \cup {None}] /\ msgs' \subseteq msgs
        /\ DOMAIN redis' \subseteq Buckets
        /\ {admitted, rewound, failOpenItems, failed}' \subseteq [Buckets -> Nat]
    BY <1>4, <1>7, Zenon DEF IInv, Typed
  <2>2. QED
    BY <1>6, <1>7, <2>1, BaseMoves, Zenon
<1>9. ASSUME NEW b \in Buckets
      PROVE  Claims(b)' = Claims(b) /\ Spare(b)' = Spare(b) /\ Backed(b)' = Backed(b)
  <2>1. /\ Hold(hasGlobal, pc[p], call[p], b) = 0 /\ Hold(hasGlobal, l, c, b) = 0
        /\ SentAllow(pc[p], call[p], out[p], b) = 0 /\ SentAllow(l, c, None, b) = 0
        /\ SentRefund(pc[p], call[p], out[p], b) = 0 /\ SentRefund(l, c, None, b) = 0
    BY <1>1, <1>2, <1>4, <1>5, Zenon DEF Hold, SentAllow, SentRefund
  <2>2. /\ Held(b)' = Held(b) - 0 + 0 /\ Sending(b)' = Sending(b) - 0 + 0
        /\ Returning(b)' = Returning(b) - 0 + 0
    <3>1. Shifts(p, l, c, None, b)
      BY <1>6, ProcStep, Zenon
    <3>2. QED
      BY <2>1, <3>1, Zenon DEF Shifts
  <2>3. Held(b)' = Held(b) /\ Sending(b)' = Sending(b) /\ Returning(b)' = Returning(b)
    BY <2>2, Sums, Unmoved, Zenon
  <2>4. QED
    BY <1>7, <2>3, MsgSame, Zenon DEF Claims, Spare, Backed
<1>10. PICK G \in [Buckets -> Nat] : G = [b \in Buckets |-> 0]
  BY Zenon
<1>11. \A b \in Buckets : /\ failOpenItems'[b] = failOpenItems[b] + G[b]
                          /\ Claims(b)' <= Claims(b) + G[b] /\ Spare(b)' >= Spare(b)
                          /\ Backed(b)' >= Backed(b)
  BY <1>7, <1>9, <1>10, Sums, Unmoved, Zenon
<1>12. QED
  BY <1>7, <1>8, <1>11, QuietRun, CacheSame, Assemble, Zenon

LEMMA CacheDenyStep ==
  ASSUME IInv, NEW p \in Procs, CacheDeny(p)
  PROVE  IInv'
<1>1. /\ pc[p] \in Takes /\ out[p] = None /\ Return(p, 0) /\ hasGlobal' = hasGlobal
      /\ UNCHANGED <<redis, msgs, now, out, rewound, failOpenItems, failed, negCache>>
  BY Zenon DEF CacheDeny, config, Takes
<1>2. 0 <= Amount(p)
  BY <1>1, AmountType DEF Takes
<1>3. PICK l, c : Returned(p, 0, l, c)
  <2>1. 0 \in Nat /\ out'[p] = None /\ \A q \in Procs \ {p} : out'[q] = out[q]
    BY <1>1, Zenon
  <2>2. QED
    BY <1>1, <1>2, <2>1, ReturnMoves, Zenon
<1>4. Base'
  <2>1. /\ out' \in [Procs -> (0 .. MaxLate) \cup {None}] /\ msgs' \subseteq msgs
        /\ DOMAIN redis' \subseteq Buckets
        /\ {admitted, rewound, failOpenItems, failed}' \subseteq [Buckets -> Nat]
    BY <1>1, <1>3, Zenon DEF IInv, Typed, Returned
  <2>2. QED
    BY <1>1, <1>3, <2>1, BaseMoves, Zenon DEF Returned
<1>5. ASSUME NEW b \in Buckets
      PROVE  Claims(b)' = Claims(b) /\ Spare(b)' = Spare(b) /\ Backed(b)' = Backed(b)
  <2>1. /\ admitted'[b] + Held(b)' = admitted[b] + Held(b) + (IF b = Bucket(p) THEN 0 ELSE 0)
        /\ Sending(b)' = Sending(b)
                           - (IF out[p] # None /\ b = Bucket(p) THEN Amount(p) ELSE 0)
        /\ Returning(b)' = Returning(b)
    <3>1. 0 \in Nat
      BY Zenon
    <3>2. QED
      BY <1>1, <1>3, <3>1, ReturnSums, Zenon
  <2>2. /\ admitted'[b] + Held(b)' = admitted[b] + Held(b) /\ Sending(b)' = Sending(b)
        /\ Allowing(b)' = Allowing(b) /\ Refunding(b)' = Refunding(b)
    <3>1. /\ Held(b) \in Nat /\ Sending(b) \in Nat /\ admitted[b] \in Nat
          /\ admitted[b] + Held(b) \in Nat
      BY Sums
    <3>2. QED
      BY <1>1, <2>1, <3>1, MsgSame, Unmoved, Zenon
  <2>3. Summed(b) /\ Summed(b)'
    BY <1>4, BaseHolds, SumsNext, Zenon DEF AllSummed
  <2>4. QED
    BY <1>1, <2>1, <2>2, <2>3, Zenon DEF Claims, Spare, Backed, Summed
<1>6. PICK G \in [Buckets -> Nat] : G = [b \in Buckets |-> 0]
  BY Zenon
<1>7. \A b \in Buckets : /\ failOpenItems'[b] = failOpenItems[b] + G[b]
                         /\ Claims(b)' <= Claims(b) + G[b] /\ Spare(b)' >= Spare(b)
                         /\ Backed(b)' >= Backed(b)
  BY <1>1, <1>5, <1>6, Sums, Unmoved, Zenon
<1>8. QED
  BY <1>1, <1>4, <1>7, QuietRun, CacheSame, Assemble, Zenon

LEMMA failOpenGrantStep ==
  ASSUME IInv, NEW p \in Procs, failOpenGrant(p)
  PROVE  IInv'
<1>1. PICK n, x, g : n = Amount(p) /\ x = Bucket(p) /\ g = IF failOpen THEN n ELSE 0
  BY Zenon
<1>2. /\ pc[p] \in Takes /\ out[p] # None /\ Return(p, g) /\ hasGlobal' = hasGlobal
      /\ out' = [out EXCEPT ![p] = None]
      /\ failOpenItems' = [failOpenItems EXCEPT ![x] = @ + g]
      /\ failed' = [failed EXCEPT ![x] = @ + n]
      /\ UNCHANGED <<redis, msgs, now, rewound, negCache>>
  BY <1>1, Zenon DEF failOpenGrant, config, Takes
<1>3. n \in Nat /\ g \in Nat /\ g <= n /\ x \in Buckets
  BY <1>1, <1>2, AmountType DEF Takes
<1>4. /\ out' \in [Procs -> (0 .. MaxLate) \cup {None}]
      /\ out'[p] = None /\ \A q \in Procs \ {p} : out'[q] = out[q]
  BY <1>2, Zenon DEF IInv, Typed
<1>5. PICK l, c : Returned(p, g, l, c)
  BY <1>1, <1>2, <1>3, <1>4, ReturnMoves, Zenon
<1>6. /\ failOpenItems' \in [Buckets -> Nat] /\ failed' \in [Buckets -> Nat]
      /\ \A b \in Buckets : /\ failOpenItems'[b] = failOpenItems[b] + (IF b = x THEN g ELSE 0)
                            /\ failed'[b] = failed[b] + (IF b = x THEN n ELSE 0)
  BY <1>2, <1>3 DEF IInv, Typed
<1>7. Base'
  <2>1. /\ msgs' \subseteq msgs /\ DOMAIN redis' \subseteq Buckets
        /\ {admitted, rewound, failOpenItems, failed}' \subseteq [Buckets -> Nat]
    BY <1>2, <1>5, <1>6, Zenon DEF IInv, Typed, Returned
  <2>2. QED
    BY <1>2, <1>4, <1>5, <2>1, BaseMoves, Zenon DEF Returned
<1>8. PICK G \in [Buckets -> Nat] : G = [b \in Buckets |-> IF b = x THEN g ELSE 0]
  BY <1>3, Zenon
<1>9. ASSUME NEW b \in Buckets
      PROVE  /\ failOpenItems'[b] = failOpenItems[b] + G[b]
             /\ Claims(b)' <= Claims(b) + G[b] /\ Spare(b)' >= Spare(b)
             /\ Backed(b)' >= Backed(b)
  <2>1. PICK a, v \in Nat : a = (IF b = x THEN g ELSE 0) /\ v = IF b = x THEN n ELSE 0
    BY <1>3, Zenon
  <2>2. /\ admitted'[b] + Held(b)' = admitted[b] + Held(b) + (IF b = Bucket(p) THEN g ELSE 0)
        /\ Sending(b)' = Sending(b)
                           - (IF out[p] # None /\ b = Bucket(p) THEN Amount(p) ELSE 0)
        /\ Returning(b)' = Returning(b)
    BY <1>2, <1>3, <1>5, ReturnSums, Zenon
  <2>3. /\ admitted'[b] + Held(b)' = admitted[b] + Held(b) + a /\ Sending(b)' = Sending(b) - v
        /\ failed'[b] = failed[b] + v /\ failOpenItems'[b] = failOpenItems[b] + a /\ G[b] = a
    BY <1>1, <1>2, <1>6, <1>8, <2>1, <2>2, Zenon
  <2>4. Allowing(b)' = Allowing(b) /\ Refunding(b)' = Refunding(b)
    BY <1>2, MsgSame, Zenon
  <2>5. Summed(b) /\ Summed(b)'
    BY <1>7, BaseHolds, SumsNext, Zenon DEF AllSummed
  <2>6. /\ Claims(b)' <= Claims(b) + a /\ Spare(b)' >= Spare(b)
        /\ Backed(b)' >= Backed(b)
    BY <2>2, <2>3, <2>4, <2>5, EnterGrant, Zenon
  <2>7. QED
    BY <2>3, <2>6, Zenon
<1>10. QED
  BY <1>2, <1>7, <1>9, QuietRun, CacheSame, Assemble, Zenon

LEMMA RefundFailsStep ==
  ASSUME IInv, NEW p \in Procs, RefundFails(p)
  PROVE  IInv'
<1>1. PICK n, x : n = Amount(p) /\ x = Bucket(p)
  BY Zenon
<1>2. /\ pc[p] \in GivesBack /\ out[p] # None /\ Refunded(p) /\ hasGlobal' = hasGlobal
      /\ out' = [out EXCEPT ![p] = None] /\ failed' = [failed EXCEPT ![x] = @ + n]
      /\ UNCHANGED <<redis, msgs, now, admitted, rewound, failOpenItems, negCache>>
  BY <1>1, Zenon DEF RefundFails, config, GivesBack
<1>3. n \in Nat /\ x \in Buckets
  BY <1>1, <1>2, AmountType, Zenon DEF GivesBack
<1>4. /\ out' \in [Procs -> (0 .. MaxLate) \cup {None}]
      /\ out'[p] = None /\ \A q \in Procs \ {p} : out'[q] = out[q]
  BY <1>2, Zenon DEF IInv, Typed
<1>5. PICK l, c :
        /\ Moves(p, l, c, None) /\ pc' \in [Procs -> Labels] /\ DOMAIN call' = Procs
        /\ \A b \in Buckets :
             Hold(hasGlobal, l, c, b) = Hold(hasGlobal, pc[p], call[p], b)
                                          - (IF b = Bucket(p) THEN Amount(p) ELSE 0)
  BY <1>2, <1>4, RefundedMoves, Zenon
<1>6. /\ failed' \in [Buckets -> Nat]
      /\ \A b \in Buckets : failed'[b] = failed[b] + (IF b = x THEN n ELSE 0)
  BY <1>2, <1>3 DEF IInv, Typed
<1>7. Base'
  <2>1. /\ msgs' \subseteq msgs /\ DOMAIN redis' \subseteq Buckets
        /\ {admitted, rewound, failOpenItems, failed}' \subseteq [Buckets -> Nat]
    BY <1>2, <1>6, Zenon DEF IInv, Typed
  <2>2. QED
    BY <1>2, <1>4, <1>5, <2>1, BaseMoves, Zenon
<1>8. PICK G \in [Buckets -> Nat] : G = [b \in Buckets |-> 0]
  BY Zenon
<1>9. ASSUME NEW b \in Buckets
      PROVE  /\ failOpenItems'[b] = failOpenItems[b] + G[b]
             /\ Claims(b)' <= Claims(b) + G[b] /\ Spare(b)' >= Spare(b)
             /\ Backed(b)' >= Backed(b)
  <2>1. PICK v \in Nat : v = IF b = x THEN n ELSE 0
    BY <1>3, Zenon
  <2>2. /\ Held(b)' = Held(b) - (IF b = Bucket(p) THEN Amount(p) ELSE 0)
        /\ Sending(b)' = Sending(b)
        /\ Returning(b)' = Returning(b)
                             - (IF out[p] # None /\ b = Bucket(p) THEN Amount(p) ELSE 0)
    BY <1>2, <1>5, RefundSums, Zenon
  <2>3. /\ Held(b)' = Held(b) - v /\ Returning(b)' = Returning(b) - v
        /\ failed'[b] = failed[b] + v
    BY <1>1, <1>2, <1>6, <2>1, <2>2, Zenon
  <2>4. /\ Allowing(b)' = Allowing(b) /\ Refunding(b)' = Refunding(b) /\ G[b] = 0
        /\ admitted'[b] = admitted[b] /\ failOpenItems'[b] = failOpenItems[b]
    BY <1>2, <1>8, MsgSame, Zenon
  <2>5. Summed(b) /\ Summed(b)' /\ failOpenItems[b] + 0 = failOpenItems[b]
    BY <1>7, BaseHolds, SumsNext, Unmoved, Zenon DEF AllSummed, Summed
  <2>6. Claims(b)' <= Claims(b) + 0 /\ Spare(b)' >= Spare(b) /\ Backed(b)' >= Backed(b)
    BY <2>2, <2>3, <2>4, <2>5, EnterFailure, Zenon
  <2>7. QED
    BY <2>4, <2>5, <2>6, Zenon
<1>10. QED
  BY <1>2, <1>7, <1>9, QuietRun, CacheSame, Assemble, Zenon

\* A script arrives whose sender still waits ...
LEMMA ExecuteAllowAwaited ==
  ASSUME IInv, NEW m \in msgs, Execute(m), m.kind = "allow", Awaited(m)
  PROVE  IInv'
<1>1. PICK p, n, x, g : p = m.p /\ n = m.n /\ x = m.b /\ g = Grant(m)
  BY Zenon
<1>2. /\ p \in Procs /\ pc[p] \in Takes /\ out[p] # None /\ n = Amount(p) /\ x = Bucket(p)
      /\ x \in Buckets /\ n \in Nat /\ g \in Nat /\ g <= n /\ replica[p] \in Replicas
  <2>1. MsgOK(m) /\ InTime(m)
    BY Zenon DEF IInv, Execute
  <2>2. p \in Procs /\ out[p] # None /\ replica[p] \in Replicas
    BY <1>1, <2>1, RedisNames, Zenon DEF MsgOK, Scripts, Awaited
  <2>3. pc[p] \in Takes /\ n = Amount(p) /\ x = Bucket(p)
    BY <1>1, <2>1, Zenon DEF MsgOK, BucketOf, AmountOf, Bucket, Amount
  <2>4. QED
    BY <1>1, <2>1, <2>2, <2>3, AllowEffect, Zenon
<1>3. /\ InTime(m) /\ allowScript(m) /\ msgs' = msgs \ {m} /\ out' = [out EXCEPT ![p] = None]
      /\ Return(p, g) /\ hasGlobal' = hasGlobal /\ UNCHANGED <<now, failOpenItems, failed>>
      /\ negCache' = (IF g = 0 /\ negCacheTTL > 0
                      THEN [negCache EXCEPT ![replica[p]] = negCacheSet(replica[p], x)] ELSE negCache)
  BY <1>1, <1>2, Zenon DEF Execute, Receive, config, Takes
<1>4. /\ out' \in [Procs -> (0 .. MaxLate) \cup {None}]
      /\ out'[p] = None /\ \A q \in Procs \ {p} : out'[q] = out[q]
  BY <1>2, <1>3, Zenon DEF IInv, Typed
<1>5. PICK l, c : Returned(p, g, l, c)
  BY <1>2, <1>3, <1>4, ReturnMoves, Zenon
<1>6. Base'
  <2>1. rewound' \in [Buckets -> Nat] /\ DOMAIN redis' \subseteq Buckets
    BY <1>3, AllowKeys, Zenon
  <2>2. /\ msgs' \subseteq msgs
        /\ {admitted, rewound, failOpenItems, failed}' \subseteq [Buckets -> Nat]
    BY <1>3, <1>5, <2>1, Zenon DEF IInv, Typed, Returned
  <2>3. QED
    BY <1>2, <1>3, <1>4, <1>5, <2>1, <2>2, BaseMoves, Zenon DEF Returned
<1>7. CacheOK'
  <2>1. CASE g = 0 /\ negCacheTTL > 0
    BY <1>2, <1>3, <2>1, CacheSet, Zenon
  <2>2. CASE ~(g = 0 /\ negCacheTTL > 0)
    BY <1>3, <2>2, CacheSame, Zenon
  <2>3. QED
    BY <2>1, <2>2, Zenon
<1>8. ASSUME NEW b \in Buckets
      PROVE  /\ Claims(b)' <= Claims(b) + (IF b = m.b THEN g ELSE 0)
             /\ Spare(b)' >= Spare(b) + (IF b = m.b THEN g ELSE 0)
             /\ Backed(b)' >= Backed(b)
  <2>1. PICK a, v \in Nat : a = (IF b = x THEN g ELSE 0) /\ v = IF b = x THEN n ELSE 0
    BY <1>2, Zenon
  <2>2. /\ admitted'[b] + Held(b)' = admitted[b] + Held(b) + (IF b = Bucket(p) THEN g ELSE 0)
        /\ Sending(b)' = Sending(b)
                           - (IF out[p] # None /\ b = Bucket(p) THEN Amount(p) ELSE 0)
        /\ Returning(b)' = Returning(b)
    BY <1>2, <1>5, ReturnSums, Zenon
  <2>3. admitted'[b] + Held(b)' = admitted[b] + Held(b) + a /\ Sending(b)' = Sending(b) - v
    BY <1>2, <2>1, <2>2, Zenon
  <2>4. Allowing(b)' = Allowing(b) - v /\ Refunding(b)' = Refunding(b) - 0
    <3>1. Wanted(m, b) = v /\ Given(m, b) = 0
      BY <1>1, <2>1, Zenon DEF Wanted, Given
    <3>2. Allowing(b)' = Allowing(b) - Wanted(m, b) /\ Refunding(b)' = Refunding(b) - Given(m, b)
      BY <1>3, MsgGone, Zenon
    <3>3. QED
      BY <3>1, <3>2, Zenon
  <2>5. Summed(b) /\ Summed(b)' /\ failed'[b] = failed[b] /\ Refunding(b) - 0 = Refunding(b)
    BY <1>3, <1>6, BaseHolds, SumsNext, Unmoved, Zenon DEF AllSummed, Summed
  <2>6. Claims(b)' <= Claims(b) + a /\ Spare(b)' >= Spare(b) + a /\ Backed(b)' >= Backed(b)
    BY <2>2, <2>3, <2>4, <2>5, EnterGrant, Zenon
  <2>7. QED
    BY <1>1, <2>1, <2>6, Zenon
<1>9. QED
  BY <1>1, <1>3, <1>6, <1>7, <1>8, AllowRun, Assemble, Zenon

LEMMA ExecuteRefundAwaited ==
  ASSUME IInv, NEW m \in msgs, Execute(m), m.kind # "allow", Awaited(m)
  PROVE  IInv'
<1>1. PICK p, n, x : p = m.p /\ n = m.n /\ x = m.b
  BY Zenon
<1>2. /\ p \in Procs /\ pc[p] \in GivesBack /\ out[p] # None /\ n = Amount(p) /\ x = Bucket(p)
      /\ x \in Buckets /\ n \in Nat /\ m.kind = "refund"
  <2>1. MsgOK(m)
    BY Zenon DEF IInv
  <2>2. p \in Procs /\ out[p] # None /\ x \in Buckets /\ n \in Nat /\ m.kind = "refund"
    BY <1>1, <2>1, RedisNames, Zenon DEF MsgOK, Scripts, Awaited
  <2>3. pc[p] \in GivesBack /\ n = Amount(p) /\ x = Bucket(p)
    BY <1>1, <2>1, Zenon DEF MsgOK, BucketOf, AmountOf, Bucket, Amount
  <2>4. QED
    BY <2>2, <2>3, Zenon
<1>3. /\ refundScript(m) /\ msgs' = msgs \ {m} /\ out' = [out EXCEPT ![p] = None]
      /\ Refunded(p) /\ hasGlobal' = hasGlobal
      /\ UNCHANGED <<now, failOpenItems, failed, admitted, negCache>>
  BY <1>1, <1>2, Zenon DEF Execute, Receive, config, GivesBack
<1>4. /\ out' \in [Procs -> (0 .. MaxLate) \cup {None}]
      /\ out'[p] = None /\ \A q \in Procs \ {p} : out'[q] = out[q]
  BY <1>2, <1>3, Zenon DEF IInv, Typed
<1>5. PICK l, c :
        /\ Moves(p, l, c, None) /\ pc' \in [Procs -> Labels] /\ DOMAIN call' = Procs
        /\ \A b \in Buckets :
             Hold(hasGlobal, l, c, b) = Hold(hasGlobal, pc[p], call[p], b)
                                          - (IF b = Bucket(p) THEN Amount(p) ELSE 0)
  BY <1>2, <1>3, <1>4, RefundedMoves, Zenon
<1>6. Base'
  <2>1. rewound' = rewound /\ DOMAIN redis' \subseteq Buckets
    BY <1>3, RefundKeys, Zenon DEF IInv, Typed
  <2>2. /\ msgs' \subseteq msgs
        /\ {admitted, rewound, failOpenItems, failed}' \subseteq [Buckets -> Nat]
    BY <1>3, <2>1, Zenon DEF IInv, Typed
  <2>3. QED
    BY <1>2, <1>3, <1>4, <1>5, <2>1, <2>2, BaseMoves, Zenon
<1>7. ASSUME NEW b \in Buckets
      PROVE  /\ Claims(b)' <= Claims(b) - (IF b = m.b THEN m.n ELSE 0)
             /\ Spare(b)' >= Spare(b) - (IF b = m.b THEN m.n ELSE 0)
             /\ Backed(b)' >= Backed(b)
  <2>1. PICK v \in Nat : v = IF b = x THEN n ELSE 0
    BY <1>2, Zenon
  <2>2. /\ Held(b)' = Held(b) - (IF b = Bucket(p) THEN Amount(p) ELSE 0)
        /\ Sending(b)' = Sending(b)
        /\ Returning(b)' = Returning(b)
                             - (IF out[p] # None /\ b = Bucket(p) THEN Amount(p) ELSE 0)
    BY <1>2, <1>5, RefundSums, Zenon
  <2>3. Held(b)' = Held(b) - v /\ Returning(b)' = Returning(b) - v
    BY <1>2, <2>1, <2>2, Zenon
  <2>4. Allowing(b)' = Allowing(b) - 0 /\ Refunding(b)' = Refunding(b) - v
    <3>1. Wanted(m, b) = 0 /\ Given(m, b) = v
      BY <1>1, <1>2, <2>1, Zenon DEF Wanted, Given
    <3>2. Allowing(b)' = Allowing(b) - Wanted(m, b) /\ Refunding(b)' = Refunding(b) - Given(m, b)
      BY <1>3, MsgGone, Zenon
    <3>3. QED
      BY <3>1, <3>2, Zenon
  <2>5. Summed(b) /\ Summed(b)' /\ failed'[b] = failed[b] /\ admitted'[b] = admitted[b]
    BY <1>3, <1>6, BaseHolds, SumsNext, Zenon DEF AllSummed
  <2>6. Claims(b)' <= Claims(b) - v /\ Spare(b)' >= Spare(b) - v /\ Backed(b)' >= Backed(b)
    BY <2>2, <2>3, <2>4, <2>5, EnterRefund, Zenon
  <2>7. QED
    BY <1>1, <2>1, <2>6, Zenon
<1>8. QED
  BY <1>3, <1>6, <1>7, RefundRun, CacheSame, Assemble, Zenon

\* ... or whose sender has given up.
LEMMA ExecuteLate ==
  ASSUME IInv, NEW m \in msgs, Execute(m), ~Awaited(m)
  PROVE  IInv'
<1>1. PICK n, x : n = m.n /\ x = m.b
  BY Zenon
<1>2. x \in Buckets /\ n \in Nat /\ m.kind \in {"allow", "refund"} /\ InTime(m)
  BY <1>1, Zenon DEF IInv, MsgOK, Scripts, Execute
<1>3. /\ msgs' = msgs \ {m}
      /\ UNCHANGED <<hasGlobal, pc, call, out, negCache, now, admitted, failOpenItems, failed>>
  BY Zenon DEF Execute, config
<1>4. m.kind = "allow" => allowScript(m)
  BY Zenon DEF Execute
<1>5. m.kind = "refund" => refundScript(m)
  BY Zenon DEF Execute
<1>6. Base'
  <2>1. rewound' \in [Buckets -> Nat] /\ DOMAIN redis' \subseteq Buckets
    <3>1. CASE m.kind = "allow"
      BY <1>2, <1>3, <1>4, <3>1, AllowKeys, Zenon
    <3>2. CASE m.kind = "refund"
      BY <1>3, <1>5, <3>2, RefundKeys, Zenon DEF IInv, Typed
    <3>3. QED
      BY <1>2, <3>1, <3>2, Zenon
  <2>2. msgs' \subseteq msgs
    BY <1>3, Zenon
  <2>3. QED
    BY <1>3, <2>1, <2>2, BaseStays, Zenon
<1>7. ASSUME NEW b \in Buckets
      PROVE  /\ Summed(b) /\ Summed(b)' /\ Wanted(m, b) \in Nat /\ Given(m, b) \in Nat
             /\ Claims(b)' = Claims(b) - Given(m, b)
             /\ Spare(b)' = Spare(b) + Wanted(m, b) /\ Backed(b)' = Backed(b) + Wanted(m, b)
  <2>1. Summed(b) /\ Summed(b)' /\ failed'[b] = failed[b] /\ admitted'[b] = admitted[b]
    BY <1>3, <1>6, BaseHolds, SumsNext, Zenon DEF AllSummed
  <2>2. Held(b)' = Held(b) /\ Sending(b)' = Sending(b) /\ Returning(b)' = Returning(b)
    BY <1>3, ProcSame, Zenon
  <2>3. PICK v, u \in Nat : v = Wanted(m, b) /\ u = Given(m, b)
    BY <1>1, <1>2, Zenon DEF Wanted, Given
  <2>4. Allowing(b)' = Allowing(b) - v /\ Refunding(b)' = Refunding(b) - u
    BY <1>3, <2>3, MsgGone, Zenon
  <2>5. Claims(b)' = Claims(b) - u /\ Spare(b)' = Spare(b) + v /\ Backed(b)' = Backed(b) + v
    BY <2>1, <2>2, <2>4, EnterLate, Zenon
  <2>6. QED
    BY <2>1, <2>3, <2>5, Zenon
<1>8. CASE m.kind = "allow"
  <2>1. PICK g \in Nat : g = Grant(m) /\ g <= n
    BY <1>1, <1>2, AllowEffect, Zenon
  <2>2. ASSUME NEW b \in Buckets
        PROVE  /\ Claims(b)' <= Claims(b) + (IF b = m.b THEN g ELSE 0)
               /\ Spare(b)' >= Spare(b) + (IF b = m.b THEN g ELSE 0)
               /\ Backed(b)' >= Backed(b)
    <3>1. Given(m, b) = 0 /\ Wanted(m, b) = IF b = x THEN n ELSE 0
      BY <1>1, <1>8, Zenon DEF Given, Wanted
    <3>2. PICK a, v \in Nat : a = (IF b = m.b THEN g ELSE 0) /\ v = Wanted(m, b) /\ a <= v
      <4>1. 0 \in Nat /\ 0 <= 0
        OBVIOUS
      <4>2. QED
        BY <1>1, <1>2, <2>1, <3>1, <4>1, Zenon
    <3>3. /\ Claims(b)' = Claims(b) - 0 /\ Spare(b)' = Spare(b) + v /\ Backed(b)' = Backed(b) + v
          /\ Summed(b)
      BY <1>7, <3>1, <3>2, Zenon
    <3>4. Claims(b)' <= Claims(b) + a /\ Spare(b)' >= Spare(b) + a /\ Backed(b)' >= Backed(b)
      <4>1. PICK A, S, B \in Int : A = Claims(b) /\ S = Spare(b) /\ B = Backed(b)
        BY <3>3, Zenon DEF Summed
      <4>2. A - 0 <= A + a /\ S + v >= S + a /\ B + v >= B
        BY <3>2, Slack, Zenon
      <4>3. QED
        BY <3>3, <4>1, <4>2, Zenon
    <3>5. QED
      BY <3>2, <3>4, Zenon
  <2>3. QED
    BY <1>2, <1>3, <1>4, <1>6, <1>8, <2>1, <2>2, AllowRun, CacheSame, Assemble, Zenon
<1>9. CASE m.kind = "refund"
  <2>1. ASSUME NEW b \in Buckets
        PROVE  /\ Claims(b)' <= Claims(b) - (IF b = m.b THEN m.n ELSE 0)
               /\ Spare(b)' >= Spare(b) - (IF b = m.b THEN m.n ELSE 0)
               /\ Backed(b)' >= Backed(b)
    <3>1. Wanted(m, b) = 0 /\ Given(m, b) = IF b = m.b THEN m.n ELSE 0
      BY <1>9, Zenon DEF Given, Wanted
    <3>2. PICK v \in Nat : v = Given(m, b) /\ v = IF b = m.b THEN m.n ELSE 0
      BY <1>7, <3>1, Zenon
    <3>3. /\ Claims(b)' = Claims(b) - v /\ Spare(b)' = Spare(b) + 0 /\ Backed(b)' = Backed(b) + 0
          /\ Summed(b)
      BY <1>7, <3>1, <3>2, Zenon
    <3>4. Claims(b)' <= Claims(b) - v /\ Spare(b)' >= Spare(b) - v /\ Backed(b)' >= Backed(b)
      <4>1. PICK A, S, B \in Int : A = Claims(b) /\ S = Spare(b) /\ B = Backed(b)
        BY <3>3, Zenon DEF Summed
      <4>2. A - v <= A - v /\ S + 0 >= S - v /\ B + 0 >= B
        BY Slack, Zenon
      <4>3. QED
        BY <3>3, <4>1, <4>2, Zenon
    <3>5. QED
      BY <3>2, <3>4, Zenon
  <2>2. QED
    BY <1>3, <1>5, <1>6, <1>9, <2>1, RefundRun, CacheSame, Assemble, Zenon
<1>10. QED
  BY <1>2, <1>8, <1>9, Zenon

LEMMA LoseStep ==
  ASSUME IInv, NEW m \in msgs, Lose(m)
  PROVE  IInv'
<1>1. /\ msgs' \subseteq msgs
      /\ UNCHANGED <<hasGlobal, pc, call, out, negCache, now, redis, admitted, rewound,
                     failOpenItems, failed>>
  BY Zenon DEF Lose, config, history
<1>2. Base'
  <2>1. rewound' \in [Buckets -> Nat] /\ DOMAIN redis' \subseteq Buckets
    BY <1>1, Zenon DEF IInv, Typed
  <2>2. QED
    BY <1>1, <2>1, BaseStays, Zenon
<1>3. PICK G \in [Buckets -> Nat] : G = [b \in Buckets |-> 0]
  BY Zenon
<1>4. ASSUME NEW b \in Buckets
      PROVE  /\ failOpenItems'[b] = failOpenItems[b] + G[b]
             /\ Claims(b)' <= Claims(b) + G[b] /\ Spare(b)' >= Spare(b)
             /\ Backed(b)' >= Backed(b)
  <2>1. Summed(b) /\ Summed(b)' /\ G[b] = 0 /\ failOpenItems[b] + 0 = failOpenItems[b]
    BY <1>2, <1>3, BaseHolds, SumsNext, Unmoved, Zenon DEF AllSummed, Summed
  <2>2. Held(b)' = Held(b) /\ Sending(b)' = Sending(b) /\ Returning(b)' = Returning(b)
    BY <1>1, ProcSame, Zenon
  <2>3. Allowing(b)' <= Allowing(b) /\ Refunding(b)' <= Refunding(b)
    BY <1>1, MsgLess, Zenon
  <2>4. Claims(b)' <= Claims(b) + 0 /\ Spare(b)' >= Spare(b) /\ Backed(b)' >= Backed(b)
    BY <1>1, <2>1, <2>2, <2>3, EnterLoss, Zenon
  <2>5. QED
    BY <1>1, <2>1, <2>4, Zenon
<1>5. QED
  BY <1>1, <1>2, <1>4, QuietRun, CacheSame, Assemble, Zenon

LEMMA ExpireStep ==
  ASSUME IInv, NEW x \in Buckets, Expire(x)
  PROVE  IInv'
<1>1. /\ x \in DOMAIN redis /\ now >= redis[x].exp
      /\ DOMAIN redis' = DOMAIN redis \ {x} /\ \A b \in DOMAIN redis' : redis'[b] = redis[b]
      /\ UNCHANGED <<hasGlobal, pc, call, out, negCache, now, msgs, admitted, rewound,
                     failOpenItems, failed>>
  BY Zenon DEF Expire, config, history
<1>2. Base'
  <2>1. /\ rewound' \in [Buckets -> Nat] /\ DOMAIN redis' \subseteq Buckets
        /\ msgs' \subseteq msgs
    BY <1>1, Zenon DEF IInv, Typed
  <2>2. QED
    BY <1>1, <2>1, BaseStays, Zenon
<1>3. \A b \in DOMAIN redis' : KeyOK(b)'
  BY <1>1, Zenon DEF IInv, KeyOK, Capacity
<1>4. ASSUME NEW b \in Buckets
      PROVE  Claims(b)' = Claims(b) /\ Spare(b)' = Spare(b) /\ Backed(b)' = Backed(b)
  BY <1>1, ProcSame, MsgSame, Zenon DEF Claims, Spare, Backed
<1>5. ASSUME NEW b \in Buckets PROVE Solvent(b)' /\ Complete(b)'
  <2>1. Summed(b)' /\ Summed(b) /\ Backed(b) >= 0 /\ Backed(b)' = Backed(b)
    BY <1>2, <1>4, SumsNext, BaseHolds, Zenon DEF AllSummed
  <2>2. Account(b)' /\ now' >= now
    <3>1. Backed(b)' >= Backed(b) /\ now' >= now
      BY <1>1, <2>1, Unmoved, Zenon DEF Summed
    <3>2. QED
      BY <2>1, <3>1, Accounted, Zenon
  <2>3. CASE b # x
    <3>1. /\ 0 \in Nat /\ failOpenItems'[b] = failOpenItems[b] + 0
          /\ Claims(b)' <= Claims(b) + 0 /\ Spare(b)' >= Spare(b)
      BY <1>1, <1>4, <2>1, Unmoved, Sums, RedisNumbers, Zenon
    <3>2. /\ b \in DOMAIN redis' <=> b \in DOMAIN redis
          /\ b \in DOMAIN redis => redis'[b] = redis[b]
          /\ rewound'[b] = rewound[b]
      BY <1>1, <2>3, Zenon
    <3>3. QED
      BY <2>2, <3>1, <3>2, LedgerQuiet, Zenon
  <2>4. CASE b = x
    <3>1. PICK P, L, f, w \in Nat : /\ P = Period /\ L = Limit[b] /\ f = failOpenItems[b]
                                    /\ w = rewound[b]
      BY Sums, Zenon
    <3>2. PICK A \in Int : A = Claims(b)
      BY Sums, Zenon
    <3>3. PICK t, r \in Nat : /\ t = redis[b].t /\ r = redis[b].r
      BY <1>1, <2>4, KeyNumbers, Zenon
    <3>4. Within(P, L, A, t, r, w, f)
      BY <1>1, <2>4, <3>1, <3>2, <3>3, Zenon DEF IInv, Solvent, Within
    <3>5. PICK e \in Nat : e = Earliest /\ e = Earliest' /\ r + P <= e
      <4>1. /\ redis[b].exp \in Nat /\ r + ttl <= redis[b].exp + MaxSkew
            /\ now >= redis[b].exp /\ now \in Nat
        BY <1>1, <2>4, <3>3, Sums, Zenon DEF IInv, KeyOK
      <4>2. Earliest \in Nat /\ r + P <= Earliest
        BY <3>1, <4>1, EarliestNumbers, Zenon
      <4>3. QED
        BY <1>1, <4>2, Zenon DEF Earliest
    <3>6. WithinNone(P, L, A, e, w, f)
      BY <3>4, <3>5, WithinExpire, Zenon
    <3>7. b \notin DOMAIN redis' /\ failOpenItems'[b] = f /\ rewound'[b] = w /\ Claims(b)' = A
      BY <1>1, <1>4, <2>4, <3>1, <3>2, Zenon
    <3>8. QED
      BY <2>2, <3>1, <3>5, <3>6, <3>7, Zenon DEF Solvent, WithinNone, Complete, Account
  <2>5. QED
    BY <2>3, <2>4, Zenon
<1>6. QED
  BY <1>1, <1>2, <1>3, <1>5, CacheSame, Assemble, Zenon

LEMMA TickStep ==
  ASSUME IInv, Tick
  PROVE  IInv'
<1>1. /\ now < MaxTime /\ now' = now + 1 /\ msgs' \subseteq msgs
      /\ UNCHANGED <<hasGlobal, pc, call, out, negCache, redis, admitted, rewound,
                     failOpenItems, failed>>
  BY Zenon DEF Tick, config, history
<1>2. /\ now \in Nat /\ now' \in 0 .. MaxTime /\ now' >= now
      /\ \A x, s \in Nat : x <= now + s => x <= now' + s
  <2>1. now \in 0 .. MaxTime /\ MaxTime \in Nat
    BY RedisNumbers, Zenon DEF IInv, Typed
  <2>2. QED
    BY <1>1, <2>1
<1>3. Base'
  <2>1. IsFiniteSet(msgs')
    BY <1>1, FS_Subset, Zenon DEF IInv, Typed
  <2>2. Typed'
    BY <1>1, <1>2, <2>1, Zenon DEF IInv, Typed
  <2>3. ASSUME NEW m \in msgs' PROVE MsgOK(m)'
    <3>1. MsgOK(m) /\ m \in Scripts /\ m.p \in Procs /\ m.stamp \in Nat
      BY <1>1, Zenon DEF IInv, MsgOK, Scripts
    <3>2. skew[replica[m.p]] \in Nat
      BY <3>1, ClockNumbers, Zenon
    <3>3. m.stamp <= now' + skew[replica[m.p]]
      BY <1>2, <3>1, <3>2, Zenon DEF MsgOK
    <3>4. QED
      BY <1>1, <3>1, <3>3, Zenon DEF MsgOK, Awaited
  <2>4. QED
    BY <1>1, <2>2, <2>3, Zenon DEF IInv, Base
<1>4. \A b \in DOMAIN redis' : KeyOK(b)'
  <2> SUFFICES ASSUME NEW b \in DOMAIN redis PROVE KeyOK(b)'
    BY <1>1, Zenon
  <2>1. KeyOK(b) /\ redis' = redis
    BY <1>1, Zenon DEF IInv
  <2>2. redis[b].r \in Nat /\ redis[b].r <= now + MaxSkew /\ MaxSkew \in Nat
    BY KeyNumbers, RedisNumbers, Zenon
  <2>3. redis[b].r <= now' + MaxSkew
    BY <1>2, <2>2, Zenon
  <2>4. QED
    BY <2>1, <2>3, Zenon DEF KeyOK, Capacity
<1>5. ASSUME NEW b \in Buckets PROVE Solvent(b)' /\ Complete(b)'
  <2>1. Summed(b) /\ Summed(b)' /\ Backed(b) >= 0
    BY <1>3, BaseHolds, SumsNext, Zenon DEF AllSummed
  <2>2. Held(b)' = Held(b) /\ Sending(b)' = Sending(b) /\ Returning(b)' = Returning(b)
    BY <1>1, ProcSame, Zenon
  <2>3. Allowing(b)' <= Allowing(b) /\ Refunding(b)' <= Refunding(b)
    BY <1>1, MsgLess, Zenon
  <2>4. Claims(b)' <= Claims(b) + 0 /\ Spare(b)' >= Spare(b) /\ Backed(b)' >= Backed(b)
    BY <1>1, <2>1, <2>2, <2>3, EnterLoss, Zenon
  <2>5. Account(b)' /\ now' >= now
    BY <1>2, <2>1, <2>4, Accounted, Zenon
  <2>6. 0 \in Nat /\ failOpenItems'[b] = failOpenItems[b] + 0
    BY <1>1, Sums, Unmoved, Zenon
  <2>7. /\ b \in DOMAIN redis' <=> b \in DOMAIN redis
        /\ b \in DOMAIN redis => redis'[b] = redis[b]
        /\ rewound'[b] = rewound[b]
    BY <1>1, Zenon
  <2>8. QED
    BY <2>4, <2>5, <2>6, <2>7, LedgerQuiet, Zenon
<1>6. QED
  BY <1>1, <1>3, <1>4, <1>5, CacheSame, Assemble, Zenon

\* A goroutine that left at most MaxLate scripts behind has a slot for one more.
LEMMA FreeSlot ==
  ASSUME IInv, NEW p \in Procs, Cardinality({m \in msgs : m.p = p}) <= MaxLate
  PROVE  \E i \in 0 .. MaxLate : \A m \in msgs : m.p = p => m.slot # i
<1> DEFINE S == {m \in msgs : m.p = p}
           f == [m \in S |-> m.slot]
           T == {f[m] : m \in S}
<1> SUFFICES ASSUME \A i \in 0 .. MaxLate : \E m \in msgs : m.p = p /\ m.slot = i
             PROVE  FALSE
  BY Zenon
<1>1. IsFiniteSet(S)
  BY FS_Subset, Zenon DEF IInv, Typed
<1>2. 0 .. MaxLate \subseteq T
  <2> SUFFICES ASSUME NEW i \in 0 .. MaxLate PROVE i \in T
    BY Zenon
  <2>1. PICK m \in S : m.slot = i
    BY Zenon
  <2>2. f[m] = i
    BY <2>1, Zenon
  <2> HIDE DEF f
  <2>3. QED
    BY <2>2, Zenon
<1>3. f \in Surjection(S, T)
  BY Zenon DEF Surjection
<1>4. Cardinality(S) <= MaxLate /\ MaxLate \in Nat
  BY RedisNumbers, Zenon
<1> HIDE DEF S, T, f
<1>5. IsFiniteSet(T) /\ Cardinality(T) <= Cardinality(S)
  BY <1>1, <1>3, FS_Surjection, Zenon
<1>6. Cardinality(0 .. MaxLate) = MaxLate + 1
  BY <1>4, FS_Interval
<1>7. Cardinality(0 .. MaxLate) <= Cardinality(T)
  BY <1>2, <1>5, FS_Subset, Zenon
<1>8. Cardinality(S) \in Nat /\ Cardinality(T) \in Nat
  BY <1>1, <1>5, FS_CardinalityType, Zenon
<1>9. QED
  BY <1>4, <1>5, <1>6, <1>7, <1>8

LEMMA SendStep ==
  ASSUME IInv, NEW p \in Procs, Send(p)
  PROVE  IInv'
<1>1. PICK r, kind, slot :
        /\ r = replica[p] /\ kind = (IF pc[p] \in Takes THEN "allow" ELSE "refund")
        /\ slot = CHOOSE i \in 0 .. MaxLate : \A m \in msgs : m.p = p => m.slot # i
  BY Zenon
<1>2. PICK l, c, m : /\ l = pc[p] /\ c = call[p]
                     /\ m = [p |-> p, slot |-> slot, kind |-> kind, b |-> Bucket(p),
                             n |-> Amount(p), stamp |-> now + skew[r]]
  BY Zenon
<1>3. /\ l # "idle" /\ out[p] = None /\ msgs' = msgs \cup {m}
      /\ Cardinality({x \in msgs : x.p = p}) <= MaxLate
      /\ out' = [out EXCEPT ![p] = slot]
      /\ UNCHANGED <<hasGlobal, now, redis, pc, call, admitted, rewound, failOpenItems, failed>>
      /\ negCache' = (IF kind = "allow" /\ negCacheTTL > 0
                      THEN [negCache EXCEPT ![r] = [x \in DOMAIN @ \ {Bucket(p)} |-> @[x]]]
                      ELSE negCache)
  BY <1>1, <1>2, Zenon DEF Send, config, history, Takes
<1>4. slot \in 0 .. MaxLate /\ \A x \in msgs : x.p = p => x.slot # slot
  <2>1. \E i \in 0 .. MaxLate : \A x \in msgs : x.p = p => x.slot # i
    BY <1>3, FreeSlot, Zenon
  <2>2. QED
    BY <1>1, <2>1, Zenon
<1>5. slot # None /\ r \in Replicas /\ skew[r] \in Nat /\ now \in Nat
  BY <1>1, <1>4, ClockNumbers, RedisNames, Zenon
<1>6. /\ m \in Scripts /\ m \notin msgs /\ m.p = p /\ m.slot = slot /\ m.kind = kind
      /\ m.b = BucketOf(l, c) /\ m.n = AmountOf(l, c) /\ m.stamp = now + skew[replica[p]]
  <2>1. Amount(p) \in Nat \ {0} /\ Bucket(p) \in Buckets
    BY <1>2, <1>3, AmountType, Zenon
  <2>2. kind \in {"allow", "refund"} /\ now + skew[r] \in Nat
    BY <1>1, ClockNumbers, Zenon
  <2>3. m \in Scripts
    BY <1>2, <1>4, <2>1, <2>2, Zenon DEF Scripts
  <2>4. m.p = p /\ m.slot = slot /\ m.kind = kind /\ m.stamp = now + skew[replica[p]]
    BY <1>1, <1>2, Zenon
  <2>5. m.b = BucketOf(l, c) /\ m.n = AmountOf(l, c)
    BY <1>2, Zenon DEF Bucket, BucketOf, Amount, AmountOf
  <2>6. m \notin msgs
    BY <1>4, <2>4, Zenon
  <2>7. QED
    BY <2>3, <2>4, <2>5, <2>6, Zenon
<1>7. l \in Labels /\ CallOK(hasGlobal, l, c) /\ l \in IF kind = "allow" THEN Takes ELSE GivesBack
  BY <1>1, <1>2, <1>3, Zenon DEF IInv, Typed, Labels, Takes, GivesBack
<1>8. out'[p] = slot /\ \A q \in Procs \ {p} : out'[q] = out[q]
  BY <1>3, Zenon DEF IInv, Typed
<1>9. Moves(p, l, c, slot)
  BY <1>2, <1>3, <1>7, <1>8, Zenon DEF Moves
<1>10. Base'
  <2>1. IsFiniteSet(msgs')
    BY <1>3, FS_AddElement, Zenon DEF IInv, Typed
  <2>2. Typed'
    BY <1>3, <1>4, <2>1, Zenon DEF IInv, Typed
  <2>3. ASSUME NEW q \in Procs
        PROVE  CallOK(hasGlobal, pc[q], call[q])' /\ (pc'[q] = "idle" => out'[q] = None)
    BY <1>2, <1>3, <1>8, Zenon DEF IInv
  <2>4. ASSUME NEW x \in msgs' PROVE MsgOK(x)'
    <3>1. CASE x = m
      <4>1. pc'[x.p] = l /\ call'[x.p] = c /\ now' = now
        BY <1>2, <1>3, <1>6, <3>1, Zenon
      <4>2. x.stamp <= now' + skew[replica[x.p]]
        BY <1>6, <3>1, <4>1, ClockNumbers, Zenon
      <4>3. QED
        BY <1>6, <1>7, <3>1, <4>1, <4>2, Zenon DEF MsgOK
    <3>2. CASE x # m
      <4>1. x \in msgs /\ MsgOK(x) /\ x.p \in Procs
        BY <1>3, <3>2, Zenon DEF IInv, MsgOK, Scripts
      <4>2. CASE x.p = p
        <5>1. out'[x.p] # x.slot
          BY <1>4, <1>8, <4>1, <4>2, Zenon
        <5>2. QED
          BY <1>3, <4>1, <5>1, Zenon DEF MsgOK, Awaited
      <4>3. CASE x.p # p
        <5>1. out'[x.p] = out[x.p]
          BY <1>8, <4>1, <4>3, Zenon
        <5>2. QED
          BY <1>3, <4>1, <5>1, Zenon DEF MsgOK, Awaited
      <4>4. QED
        BY <4>2, <4>3, Zenon
    <3>3. QED
      BY <3>1, <3>2, Zenon
  <2>5. QED
    BY <2>2, <2>3, <2>4, Zenon DEF Base
<1>11. CacheOK'
  <2>1. CASE kind = "allow" /\ negCacheTTL > 0
    BY <1>3, <1>5, <2>1, CacheDrop, Zenon
  <2>2. CASE ~(kind = "allow" /\ negCacheTTL > 0)
    BY <1>3, <2>2, CacheSame, Zenon
  <2>3. QED
    BY <2>1, <2>2, Zenon
<1>12. PICK G \in [Buckets -> Nat] : G = [b \in Buckets |-> 0]
  BY Zenon
<1>13. ASSUME NEW b \in Buckets
       PROVE  /\ failOpenItems'[b] = failOpenItems[b] + G[b]
              /\ Claims(b)' <= Claims(b) + G[b] /\ Spare(b)' >= Spare(b)
              /\ Backed(b)' >= Backed(b)
  <2>1. PICK h, v, u \in Nat : /\ h = Hold(hasGlobal, l, c, b) /\ v = SentAllow(l, c, slot, b)
                               /\ u = SentRefund(l, c, slot, b)
    BY <1>7, Weights, Zenon DEF IInv, Typed
  <2>2. SentAllow(l, c, None, b) = 0 /\ SentRefund(l, c, None, b) = 0
    BY Zenon DEF SentAllow, SentRefund
  <2>3. Wanted(m, b) = v /\ Given(m, b) = u
    <3>1. CASE kind = "allow"
      BY <1>5, <1>6, <1>7, <2>1, <3>1, Zenon DEF Wanted, Given, SentAllow, SentRefund, Takes, GivesBack
    <3>2. CASE kind = "refund"
      BY <1>5, <1>6, <1>7, <2>1, <3>2, Zenon DEF Wanted, Given, SentAllow, SentRefund, Takes, GivesBack
    <3>3. QED
      BY <1>1, <3>1, <3>2, Zenon
  <2>4. Allowing(b)' = Allowing(b) + v /\ Refunding(b)' = Refunding(b) + u
    BY <1>3, <1>6, <2>3, MsgSent, Zenon
  <2>5. /\ Held(b)' = Held(b) - h + h /\ Sending(b)' = Sending(b) - 0 + v
        /\ Returning(b)' = Returning(b) - 0 + u
    <3>1. Shifts(p, l, c, slot, b)
      BY <1>9, ProcStep, Zenon
    <3>2. QED
      BY <1>2, <1>3, <2>1, <2>2, <3>1, Zenon DEF Shifts
  <2>6. Summed(b) /\ Summed(b)' /\ G[b] = 0 /\ failOpenItems[b] + 0 = failOpenItems[b]
    BY <1>10, <1>12, BaseHolds, SumsNext, Unmoved, Zenon DEF AllSummed, Summed
  <2>7. Claims(b)' <= Claims(b) + 0 /\ Spare(b)' >= Spare(b) /\ Backed(b)' >= Backed(b)
    BY <1>3, <2>4, <2>5, <2>6, EnterSend, Zenon
  <2>8. QED
    BY <1>3, <2>6, <2>7, Zenon
<1>14. QED
  BY <1>3, <1>10, <1>11, <1>13, QuietRun, Assemble, Zenon

LEMMA InitHolds == Init => IInv
<1> SUFFICES ASSUME Init PROVE IInv
  BY Zenon
<1>1. /\ DOMAIN redis = {} /\ msgs = {} /\ now = 0 /\ hasGlobal \in BOOLEAN
      /\ \A r \in Replicas : DOMAIN negCache[r] = {}
  BY DEF Init
<1>2. /\ pc = [p \in Procs |-> "idle"] /\ call = [p \in Procs |-> NoCall]
      /\ out = [p \in Procs |-> None] /\ negCache = [r \in Replicas |-> <<>>]
      /\ \A h \in {admitted, rewound, failOpenItems, failed} : h = [b \in Buckets |-> 0]
  BY Zenon DEF Init, Zero
<1>3. Typed /\ CacheOK
  <2>1. \A M \in Nat : 0 \in 0 .. M /\ 0 <= M
    OBVIOUS
  <2>2. 0 \in Nat /\ 0 \in 0 .. MaxTime /\ 0 <= maxNegCacheEntries
    BY <2>1, RedisNumbers, Zenon
  <2>3. /\ admitted \in [Buckets -> Nat] /\ rewound \in [Buckets -> Nat]
        /\ failOpenItems \in [Buckets -> Nat] /\ failed \in [Buckets -> Nat]
    BY <1>2, <2>2, Zenon
  <2>4. /\ pc \in [Procs -> Labels] /\ DOMAIN call = Procs
        /\ out \in [Procs -> (0 .. MaxLate) \cup {None}] /\ DOMAIN negCache = Replicas
    BY <1>2, Zenon DEF Labels
  <2>5. QED
    BY <1>1, <2>2, <2>3, <2>4, FS_EmptySet, Zenon DEF Typed, CacheOK, NegCacheBounded
<1>4. \A p \in Procs : CallOK(hasGlobal, pc[p], call[p]) /\ (pc[p] = "idle" => out[p] = None)
  BY <1>2, Zenon DEF CallOK, Takes
<1>5. Base
  BY <1>1, <1>3, <1>4, Zenon DEF Base
<1>6. ASSUME NEW b \in Buckets PROVE Solvent(b) /\ Complete(b)
  <2>1. \A p \in Procs : /\ Hold(hasGlobal, pc[p], call[p], b) = 0
                         /\ SentAllow(pc[p], call[p], out[p], b) = 0
                         /\ SentRefund(pc[p], call[p], out[p], b) = 0
    BY <1>2, Zenon DEF Hold, SentAllow, SentRefund
  <2>2. /\ [p \in Procs |-> Hold(hasGlobal, pc[p], call[p], b)] = [p \in Procs |-> 0]
        /\ [p \in Procs |-> SentAllow(pc[p], call[p], out[p], b)] = [p \in Procs |-> 0]
        /\ [p \in Procs |-> SentRefund(pc[p], call[p], out[p], b)] = [p \in Procs |-> 0]
    BY <2>1, Zenon
  <2>3. Held(b) = 0 /\ Sending(b) = 0 /\ Returning(b) = 0
    BY <2>2, TotalZero, Zenon DEF Held, Sending, Returning
  <2>4. /\ [m \in msgs |-> Wanted(m, b)] = [m \in msgs |-> 0]
        /\ [m \in msgs |-> Given(m, b)] = [m \in msgs |-> 0]
    BY <1>1, Zenon
  <2>5. Allowing(b) = 0 /\ Refunding(b) = 0
    BY <2>4, TotalZero, Zenon DEF Allowing, Refunding
  <2>6. Claims(b) = 0 /\ Backed(b) = 0
    <3>1. admitted[b] = 0 /\ failed[b] = 0
      BY <1>2, Zenon
    <3>2. QED
      BY <2>3, <2>5, <3>1 DEF Claims, Backed
  <2>7. Earliest \in Nat /\ rewound[b] = 0 /\ failOpenItems[b] = 0
    BY <1>1, <1>2, EarliestNumbers, Zenon
  <2>8. PICK e, L, P \in Nat : e = Earliest /\ L = Limit[b] /\ P = Period
    BY <2>7, RedisNumbers, Zenon
  <2>9. 0 \in Int /\ 0 >= 0 /\ P * 0 <= L * (e + 0) + P * 0
    BY ProductNat
  <2>10. QED
    BY <1>1, <2>6, <2>7, <2>8, <2>9, Zenon DEF Solvent, Complete
<1>7. QED
  BY <1>1, <1>3, <1>4, <1>6, Zenon DEF IInv

LEMMA StutterStep ==
  ASSUME IInv, UNCHANGED vars
  PROVE  IInv'
<1>1. /\ UNCHANGED <<hasGlobal, now, redis, msgs, pc, call, out, negCache, admitted, rewound,
                     failOpenItems, failed>>
  BY Zenon DEF vars, config, history
<1>2. \A b \in Buckets : Claims(b)' = Claims(b) /\ Spare(b)' = Spare(b) /\ Backed(b)' = Backed(b)
  BY <1>1, ProcSame, MsgSame, Zenon DEF Claims, Spare, Backed
<1>3. \A b \in Buckets : Solvent(b)' /\ Complete(b)'
  BY <1>1, <1>2, Zenon DEF IInv, Solvent, Complete, Earliest, Capacity
<1>4. \A b \in DOMAIN redis' : KeyOK(b)'
  BY <1>1, Zenon DEF IInv, KeyOK, Capacity
<1>5. Base'
  <2>1. /\ rewound' \in [Buckets -> Nat] /\ DOMAIN redis' \subseteq Buckets
        /\ msgs' \subseteq msgs
    BY <1>1, Zenon DEF IInv, Typed
  <2>2. QED
    BY <1>1, <2>1, BaseStays, Zenon
<1>6. QED
  BY <1>1, <1>3, <1>4, <1>5, CacheSame, Assemble, Zenon

LEMMA NextStep == IInv /\ [Next]_vars => IInv'
<1> SUFFICES ASSUME IInv, [Next]_vars PROVE IInv'
  BY Zenon
<1>1. CASE \E p \in Procs, k \in Keys, n \in Requests, w \in BOOLEAN : Begin(p, k, n, w)
  BY <1>1, BeginStep, Zenon
<1>2. CASE \E p \in Procs : Step(p)
  BY <1>2, CacheDenyStep, SendStep, failOpenGrantStep, RefundFailsStep, Zenon DEF Step
<1>3. CASE \E m \in msgs : Execute(m) \/ Lose(m)
  BY <1>3, ExecuteAllowAwaited, ExecuteRefundAwaited, ExecuteLate, LoseStep, Zenon
<1>4. CASE \E b \in Buckets : Expire(b)
  BY <1>4, ExpireStep, Zenon
<1>5. CASE Tick
  BY <1>5, TickStep, Zenon
<1>6. CASE Exhausted \/ UNCHANGED vars
  BY <1>6, StutterStep, Zenon DEF Exhausted
<1>7. QED
  BY <1>1, <1>2, <1>3, <1>4, <1>5, <1>6, Zenon DEF Next

LEMMA Invariance == Spec => []IInv
BY InitHolds, NextStep, PTL DEF Spec

----------------------------------------------------------------------------
\* A key of Redis holds at most one burst, the scripts on their way are calls
\* of goroutines, and the limiter returns only when no script is waited for.
THEOREM Types == Spec => []TypeOK
<1>1. IInv => TypeOK
  BY Zenon DEF IInv, Typed, KeyOK, MsgOK, Scripts, TypeOK
<1>2. QED
  BY <1>1, Invariance, PTL

\* The fleet admits no more from a bucket than one burst, the refill up to now
\* on the fastest clock, the refill granted again where a late script turned
\* the refill clock back, and what the replicas granted by failing open: for
\* any number of replicas and goroutines, whatever is late, lost or expired.
THEOREM FleetBudget == Spec => []FleetBound
<1>1. ASSUME IInv, NEW b \in Buckets
      PROVE  Period * admitted[b] <= Capacity(b) + Limit[b] * (now + MaxSkew + rewound[b])
                                       + Period * failOpenItems[b]
  <2>1. PICK P, L, f, w, a, u, M \in Nat :
          /\ P = Period /\ L = Limit[b] /\ f = failOpenItems[b] /\ w = rewound[b]
          /\ a = admitted[b] /\ u = now /\ M = MaxSkew
    BY <1>1, Sums, RedisNumbers, Zenon
  <2>2. PICK A \in Int : A = Claims(b) /\ a <= A
    BY <1>1, <2>1, AdmittedClaimed, Zenon
  <2>3. Capacity(b) = L * P
    BY <2>1, Zenon DEF Capacity
  <2>4. P * a <= P * A /\ P * a \in Int /\ P * A \in Int /\ P * f \in Int
    BY <2>2, Monotone, Spread
  <2>5. L * (P + (u + M + w)) = L * P + L * (u + M + w) /\ L * P \in Int /\ L * (u + M + w) \in Int
    BY Spread
  <2>6. P * A <= L * (P + (u + M + w)) + P * f
    <3>1. CASE b \in DOMAIN redis
      <4>1. PICK t, r \in Nat : t = redis[b].t /\ r = redis[b].r /\ r <= u + M
        BY <1>1, <2>1, <3>1, KeyNumbers, Zenon
      <4>2. P * A + t <= L * (P + r + w) + P * f
        BY <1>1, <2>1, <2>2, <3>1, <4>1, Zenon DEF IInv, Solvent
      <4>3. /\ L * (P + r + w) <= L * (P + (u + M + w)) /\ L * (P + r + w) \in Int
            /\ L * (P + (u + M + w)) \in Int
        BY <4>1, BurstAndRefill, Zenon
      <4>4. P * A <= L * (P + r + w) + P * f
        BY <2>4, <4>1, <4>2, <4>3, LeavesRoom, Zenon
      <4>5. QED
        BY <2>4, <4>3, <4>4, FitsIn, Zenon
    <3>2. CASE b \notin DOMAIN redis
      <4>1. PICK e \in Nat : e = Earliest /\ e <= u
        BY <2>1, EarliestNumbers, Zenon
      <4>2. P * A <= L * (e + w) + P * f
        BY <1>1, <2>1, <2>2, <3>2, <4>1, Zenon DEF IInv, Solvent
      <4>3. /\ L * (e + w) <= L * (P + (u + M + w)) /\ L * (e + w) \in Int
            /\ L * (P + (u + M + w)) \in Int
        BY <4>1, BurstAndRefill, Zenon
      <4>4. QED
        BY <2>4, <4>2, <4>3, FitsIn, Zenon
    <3>3. QED
      BY <3>1, <3>2, Zenon
  <2>7. P * a <= L * P + L * (u + M + w) + P * f
    BY <2>4, <2>5, <2>6
  <2>8. QED
    BY <2>1, <2>3, <2>7, Zenon
<1>2. IInv => FleetBound
  BY <1>1, Zenon DEF FleetBound
<1>3. QED
  BY <1>2, Invariance, PTL

\* Between batches, what is missing from a bucket in Redis was admitted or was
\* asked for by a Storage call that failed: a refund that succeeds gives all
\* back, and no script takes more than its caller was told.
THEOREM NothingIsLost == Spec => []NothingLost
<1>1. ASSUME IInv, \A p \in Procs : pc[p] = "idle", NEW b \in DOMAIN redis
      PROVE  redis[b].t + Period * (admitted[b] + failed[b]) >= Capacity(b)
  <2>1. b \in Buckets
    BY <1>1, Zenon DEF IInv, Typed
  <2>2. \A p \in Procs : /\ Hold(hasGlobal, pc[p], call[p], b) = 0
                         /\ SentAllow(pc[p], call[p], out[p], b) = 0
    BY <1>1, Zenon DEF Hold, SentAllow, Takes
  <2>3. /\ [p \in Procs |-> Hold(hasGlobal, pc[p], call[p], b)] = [p \in Procs |-> 0]
        /\ [p \in Procs |-> SentAllow(pc[p], call[p], out[p], b)] = [p \in Procs |-> 0]
    BY <2>2, Zenon
  <2>4. Held(b) = 0 /\ Sending(b) = 0
    BY <2>3, TotalZero, Zenon DEF Held, Sending
  <2>5. Allowing(b) \in Nat /\ admitted[b] \in Nat /\ failed[b] \in Nat
    BY <1>1, <2>1, Sums, Zenon
  <2>6. PICK S, F \in Int : S = Spare(b) /\ F = admitted[b] + failed[b] /\ S <= F
    BY <2>4, <2>5 DEF Spare, Backed
  <2>7. PICK P, t, C \in Nat : P = Period /\ t = redis[b].t /\ C = Capacity(b)
    BY <1>1, KeyNumbers, RedisNumbers, Zenon
  <2>8. t + P * S >= C
    BY <1>1, <2>1, <2>6, <2>7, Zenon DEF IInv, Complete
  <2>9. P * S <= P * F /\ P * S \in Int /\ P * F \in Int
    BY <2>6, Monotone, Zenon
  <2>10. t + P * F >= C
    BY <2>8, <2>9
  <2>11. QED
    BY <2>6, <2>7, <2>10, Zenon
<1>2. IInv => NothingLost
  BY <1>1, Zenon DEF NothingLost
<1>3. QED
  BY <1>2, Invariance, PTL

\* Where nothing was granted, no whole token is left.
LEMMA NothingToGive ==
  ASSUME NEW P \in Nat, NEW T \in Nat, NEW n \in Nat \ {0}, P > 0, AtMost(T \div P, n) = 0
  PROVE  T - 0 * P < P
BY SMT DEF AtMost

\* The only step that makes or renews an entry of a negative cache.
LEMMA ExecuteCaches ==
  ASSUME IInv, NEW m \in msgs, Execute(m), NEW r \in Replicas, NEW b \in DOMAIN negCache'[r]
  PROVE  \/ b \in DOMAIN negCache[r] /\ negCache'[r][b] = negCache[r][b]
         \/ Refused(r, b) /\ negCache'[r][b] = now + negCacheTTL
<1>1. CASE negCache' = negCache
  BY <1>1, Zenon
<1>2. CASE negCache' # negCache
  <2>1. /\ Awaited(m) /\ pc[m.p] \in {"global", "key"} /\ Grant(m) = 0
        /\ negCache' = [negCache EXCEPT ![replica[m.p]] = negCacheSet(replica[m.p], Bucket(m.p))]
    BY <1>2, Zenon DEF Execute, Receive
  <2>2. /\ m.kind = "allow" /\ m.b = Bucket(m.p) /\ m.p \in Procs /\ m.n \in Nat \ {0}
        /\ replica[m.p] \in Replicas
    <3>1. /\ m \in Scripts /\ m.b = BucketOf(pc[m.p], call[m.p])
          /\ pc[m.p] \in IF m.kind = "allow" THEN Takes ELSE GivesBack
      BY <2>1, Zenon DEF IInv, MsgOK
    <3>2. m.p \in Procs /\ m.n \in Nat \ {0}
      BY <3>1 DEF Scripts
    <3>3. m.b = Bucket(m.p)
      BY <3>1, Zenon DEF Bucket, BucketOf
    <3>4. m.kind = "allow"
      BY <2>1, <3>1 DEF Takes, GivesBack
    <3>5. QED
      BY <3>2, <3>3, <3>4, RedisNames, Zenon
  <2>3. Refused(replica[m.p], m.b)
    <3>1. m \in msgs \ msgs'
      BY Zenon DEF Execute
    <3>2. redis' = Put(m.b, Tokens(m) - Grant(m) * Period, m.stamp)
      BY <2>2, Zenon DEF Execute, allowScript
    <3>3. m.b \in DOMAIN redis' /\ redis'[m.b].t = Tokens(m) - Grant(m) * Period
      BY <3>2, Zenon DEF Put
    <3>4. Tokens(m) \in Nat /\ Period \in Nat /\ Period > 0
      <4>1. Tokens(m) \in Nat
        BY AllowEffect, Zenon DEF Execute
      <4>2. QED
        BY <4>1, RedisNumbers
    <3>5. Tokens(m) - 0 * Period < Period
      BY <2>1, <2>2, <3>4, NothingToGive, Zenon DEF Grant
    <3>6. QED
      BY <2>1, <2>2, <3>1, <3>3, <3>5, Zenon DEF Refused
  <2>4. CASE r = replica[m.p]
    <3>1. negCache'[r] = negCacheSet(r, m.b)
      BY <2>1, <2>2, <2>4, Zenon DEF IInv, CacheOK
    <3>2. \/ b \in DOMAIN negCache[r] /\ negCacheSet(r, m.b)[b] = negCache[r][b]
          \/ b = m.b /\ negCacheSet(r, m.b)[b] = now + negCacheTTL
      BY <3>1, SMT DEF negCacheSet
    <3>3. QED
      BY <2>3, <2>4, <3>1, <3>2, Zenon
  <2>5. CASE r # replica[m.p]
    BY <2>1, <2>2, <2>5, Zenon DEF IInv, CacheOK
  <2>6. QED
    BY <2>4, <2>5, Zenon
<1>3. QED
  BY <1>1, <1>2, Zenon

LEMMA NextCaches ==
  ASSUME IInv, [Next]_vars, NEW r \in Replicas, NEW b \in DOMAIN negCache'[r]
  PROVE  \/ b \in DOMAIN negCache[r] /\ negCache'[r][b] = negCache[r][b]
         \/ Refused(r, b) /\ negCache'[r][b] = now + negCacheTTL
<1>1. CASE \E m \in msgs : Execute(m)
  BY <1>1, ExecuteCaches, Zenon
<1>2. CASE \E p \in Procs : Send(p)
  <2>1. PICK p \in Procs : Send(p)
    BY <1>2, Zenon
  <2>2. PICK q, B : q = replica[p] /\ B = Bucket(p)
    BY Zenon
  <2>3. \/ negCache' = negCache
        \/ negCache' = [negCache EXCEPT ![q] = [x \in DOMAIN negCache[q] \ {B} |-> negCache[q][x]]]
    BY <2>1, <2>2, Zenon DEF Send
  <2>4. QED
    BY <2>3, Zenon DEF IInv, CacheOK
<1>3. CASE ~(\E m \in msgs : Execute(m)) /\ ~(\E p \in Procs : Send(p))
  <2>1. negCache' = negCache
    BY <1>3, Zenon DEF Next, Step, Begin, CacheDeny, failOpenGrant, RefundFails, Lose, Expire, Tick,
                       Exhausted, vars
  <2>2. QED
    BY <2>1, Zenon
<1>4. QED
  BY <1>1, <1>2, <1>3, Zenon

\* A replica denies by itself for one cooldown after Redis had nothing to give and
\* no longer, and its negative cache keeps to its cap, for every fleet.
THEOREM DenialsAreFresh == Spec => CachedDenials
<1>1. IInv /\ IInv' /\ [Next]_vars =>
        [\A r \in Replicas :
           /\ Cardinality(DOMAIN negCache'[r]) <= maxNegCacheEntries
           /\ \A b \in DOMAIN negCache'[r] :
                \/ b \in DOMAIN negCache[r] /\ negCache'[r][b] = negCache[r][b]
                \/ Refused(r, b) /\ negCache'[r][b] = now + negCacheTTL]_vars
  <2> SUFFICES ASSUME IInv, IInv', [Next]_vars, NEW r \in Replicas
               PROVE  /\ Cardinality(DOMAIN negCache'[r]) <= maxNegCacheEntries
                      /\ \A b \in DOMAIN negCache'[r] :
                           \/ b \in DOMAIN negCache[r] /\ negCache'[r][b] = negCache[r][b]
                           \/ Refused(r, b) /\ negCache'[r][b] = now + negCacheTTL
    BY Zenon
  <2>1. Cardinality(DOMAIN negCache'[r]) <= maxNegCacheEntries
    BY Zenon DEF IInv, CacheOK, NegCacheBounded
  <2>2. QED
    BY <2>1, NextCaches, Zenon
<1>2. QED
  BY <1>1, Invariance, PTL DEF Spec, CachedDenials

----------------------------------------------------------------------------
\* No step turns a bucket's refill clock back by more than the longest delay of
\* a script and the largest skew between two replicas.
RewindBounded ==
  [][\A b \in Buckets : rewound'[b] <= rewound[b] + (MaxDelay + MaxSkew)]_vars

\* What takes the excuses out of FleetBound: a replica that fails closed grants
\* nothing by itself, and with one clock and no delays no script is late.
NoExcuse ==
  /\ ~failOpen => \A b \in Buckets : failOpenItems[b] = 0
  /\ MaxDelay = 0 /\ MaxSkew = 0 => \A b \in Buckets : rewound[b] = 0

\* With one clock and no delays there is no race between refill and consume, and
\* a fleet that also fails closed keeps the budget of a single limiter.
OneClockBudget ==
  MaxDelay = 0 /\ MaxSkew = 0 =>
    /\ NoRefillRace
    /\ ~failOpen => \A b \in Buckets : Period * admitted[b] <= Capacity(b) + Limit[b] * now

LEMMA ExecuteRewinds ==
  ASSUME IInv, NEW m \in msgs, Execute(m), NEW b \in Buckets
  PROVE  rewound'[b] <= rewound[b] + (MaxDelay + MaxSkew)
<1>1. m \in Scripts /\ m.stamp <= now + skew[replica[m.p]]
  BY Zenon DEF IInv, MsgOK
<1>2. m.p \in Procs /\ m.stamp \in Nat
  BY <1>1, Zenon DEF Scripts
<1>3. PICK n, k, st, D, M \in Nat : /\ n = now /\ k = skew[replica[m.p]] /\ st = m.stamp
                                   /\ D = MaxDelay /\ M = MaxSkew /\ k <= M
  BY <1>2, ClockNumbers, RedisNumbers, Zenon
<1>4. n + k <= st + D /\ st <= n + k
  BY <1>1, <1>3, Zenon DEF Execute, InTime
<1>5. PICK r \in Nat : r = Stored(m.b, m.stamp).r /\ r <= n + M
  <2>1. CASE m.b \in DOMAIN redis
    BY <1>3, <2>1, KeyNumbers, Zenon DEF Stored
  <2>2. CASE m.b \notin DOMAIN redis
    <3>1. st <= n + M
      BY <1>3, <1>4
    <3>2. Stored(m.b, m.stamp).r = st
      BY <1>3, <2>2, Zenon DEF Stored
    <3>3. QED
      BY <3>1, <3>2, Zenon
  <2>3. QED
    BY <2>1, <2>2, Zenon
<1>6. \A w \in Nat : w + (IF r > st THEN r - st ELSE 0) <= w + (D + M) /\ w <= w + (D + M)
  BY <1>3, <1>4, <1>5, RewindSmall, Zenon
<1>7. rewound \in [Buckets -> Nat]
  BY Zenon DEF IInv, Typed
<1>8. \/ rewound' = rewound
      \/ rewound' = [rewound EXCEPT ![m.b] = rewound[m.b] + (IF r > st THEN r - st ELSE 0)]
  BY <1>3, <1>5, Zenon DEF Execute, allowScript, refundScript
<1>9. rewound'[b] = rewound[b] \/ rewound'[b] = rewound[b] + (IF r > st THEN r - st ELSE 0)
  BY <1>7, <1>8, Zenon
<1>10. QED
  BY <1>3, <1>6, <1>7, <1>9, Zenon

LEMMA NextRewinds ==
  ASSUME IInv, [Next]_vars, NEW b \in Buckets
  PROVE  rewound'[b] <= rewound[b] + (MaxDelay + MaxSkew)
<1>1. CASE \E m \in msgs : Execute(m)
  BY <1>1, ExecuteRewinds, Zenon
<1>2. CASE ~(\E m \in msgs : Execute(m))
  <2>1. rewound' = rewound
    BY <1>2, Zenon DEF Next, Step, Begin, CacheDeny, Send, failOpenGrant, RefundFails, Lose, Expire,
                       Tick, Exhausted, vars, history
  <2>2. rewound[b] \in Nat /\ MaxDelay \in Nat /\ MaxSkew \in Nat
    BY RedisNumbers, Zenon DEF IInv, Typed
  <2>3. QED
    BY <2>1, <2>2
<1>3. QED
  BY <1>1, <1>2, Zenon

\* A script that is late, or from a slow clock, turns a bucket's refill clock
\* back by at most the time it spent on the way and the skew of the clocks.
THEOREM RewindIsBounded == Spec => RewindBounded
<1>1. IInv /\ [Next]_vars =>
        [\A b \in Buckets : rewound'[b] <= rewound[b] + (MaxDelay + MaxSkew)]_vars
  BY NextRewinds, Zenon
<1>2. QED
  BY <1>1, Invariance, PTL DEF Spec, RewindBounded

LEMMA NoExcuseKept == IInv /\ IInv' /\ NoExcuse /\ [Next]_vars => NoExcuse'
<1> SUFFICES ASSUME IInv, IInv', NoExcuse, [Next]_vars
             PROVE  NoExcuse'
  BY Zenon
<1>1. UNCHANGED failOpen
  BY Zenon DEF Next, Step, Begin, CacheDeny, Send, failOpenGrant, RefundFails, Execute, Lose, Expire,
               Tick, Exhausted, vars, config
<1>2. ASSUME ~failOpen, NEW b \in Buckets
      PROVE  failOpenItems'[b] = 0
  <2>1. failOpenItems \in [Buckets -> Nat] /\ failOpenItems[b] = 0
    BY <1>2, Zenon DEF IInv, Typed, NoExcuse
  <2>2. \/ failOpenItems' = failOpenItems
        \/ \E x : failOpenItems' = [failOpenItems EXCEPT ![x] = failOpenItems[x] + 0]
    BY <1>2, Zenon DEF Next, Step, Begin, CacheDeny, Send, failOpenGrant, RefundFails, Execute, Lose,
                       Expire, Tick, Exhausted, vars, history
  <2>3. failOpenItems'[b] = failOpenItems[b] \/ failOpenItems'[b] = failOpenItems[b] + 0
    BY <2>1, <2>2, Zenon
  <2>4. QED
    BY <2>1, <2>3
<1>3. ASSUME MaxDelay = 0, MaxSkew = 0, NEW b \in Buckets
      PROVE  rewound'[b] = 0
  <2>1. rewound'[b] \in Nat /\ rewound[b] = 0
    BY <1>3, Zenon DEF IInv, Typed, NoExcuse
  <2>2. rewound'[b] <= 0 + (0 + 0)
    BY <1>3, <2>1, NextRewinds, Zenon
  <2>3. QED
    BY <2>1, <2>2, NotRewound, Zenon
<1>4. QED
  BY <1>1, <1>2, <1>3, Zenon DEF NoExcuse

\* "no race between refill and consume" holds of a fleet whose clocks agree and
\* whose scripts run at once; if it also fails closed, it admits no more than
\* one limiter would, whatever calls fail and whatever keys expire.
THEOREM OneClock == Spec => []OneClockBudget
<1>1. Init => NoExcuse
  BY Zenon DEF Init, Zero, NoExcuse
<1>2. IInv /\ NoExcuse /\ FleetBound => OneClockBudget
  <2> SUFFICES ASSUME IInv, NoExcuse, FleetBound, MaxDelay = 0, MaxSkew = 0, NEW b \in Buckets
               PROVE  /\ Period * admitted[b] <= Capacity(b) + Limit[b] * (now + MaxSkew)
                                                   + Period * failOpenItems[b]
                      /\ ~failOpen => Period * admitted[b] <= Capacity(b) + Limit[b] * now
    BY Zenon DEF OneClockBudget, NoRefillRace
  <2>1. PICK P, L, f, a, n \in Nat : /\ P = Period /\ L = Limit[b] /\ f = failOpenItems[b]
                                     /\ a = admitted[b] /\ n = now
    BY Sums, Zenon
  <2>2. PICK C \in Nat : C = Capacity(b)
    BY <2>1, ProductNat, Zenon DEF Capacity
  <2>3. P * a <= C + L * (n + 0 + 0) + P * f
    BY <2>1, <2>2, Zenon DEF FleetBound, NoExcuse
  <2>4. ~failOpen => f = 0
    BY <2>1, Zenon DEF NoExcuse
  <2>5. QED
    BY <2>1, <2>2, <2>3, <2>4, NothingExtra, Zenon
<1>3. QED
  BY <1>1, <1>2, NoExcuseKept, Invariance, FleetBudget, PTL DEF Spec
=============================================================================
