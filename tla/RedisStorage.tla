---------------------------- MODULE RedisStorage ----------------------------
(***************************************************************************)
(* The rate limiter of several collector replicas over redisStorage of     *)
(* storage_redis.go.  The buckets live in Redis.  Every Storage call sends *)
(* one Lua script, stamped with the clock of the replica that sends it,    *)
(* and waits for the reply until its timeout.  Redis runs the scripts one  *)
(* at a time, in whatever order they arrive; one whose sender has given up *)
(* may still run later, or be lost, and so may its reply.                  *)
(*                                                                         *)
(* Tokens are counted in units as in TokenBucket.  Within one script `now' *)
(* of the code is m.stamp; `now' below is real time, which the expiry of a *)
(* Redis key follows.                                                      *)
(***************************************************************************)
EXTENDS TokenBucket, LimiterCalls, FiniteSets

CONSTANTS
  Procs,              \* goroutines serving batches
  Replicas, replica,  \* the collectors, and the one each goroutine runs in
  skew, MaxSkew,      \* replica -> ticks its clock is ahead, at most MaxSkew
  Keys, globalKey,    \* rate-limit keys and the reserved bucket name
  Limit,              \* bucket -> limit per Period
  Period,             \* ticks in a period
  Requests,           \* batch sizes
  None,               \* no script outstanding
  ttl,                \* ticks after which an unused Redis key expires
  negCacheTTL,        \* cooldown of the negative cache; 0 turns it off
  maxNegCacheEntries, \* its cap
  MaxDelay,           \* bound on the time a script spends on the way
  MaxLate,            \* bound on the scripts of a goroutine left behind
  MaxErrors,          \* bound on the Storage calls that fail early
  MaxCalls, MaxTime   \* bounds on the batches served and on the clock

Buckets == Keys \cup {globalKey}

ASSUME RedisNumbers ==
  /\ Period \in Nat \ {0} /\ Limit \in [Buckets -> Nat] /\ Requests \subseteq Nat \ {0}
  /\ {ttl, negCacheTTL, maxNegCacheEntries} \subseteq Nat
  /\ {MaxSkew, MaxDelay, MaxLate, MaxTime} \subseteq Nat

ASSUME RedisNames ==
  /\ IsFiniteSet(Procs) /\ replica \in [Procs -> Replicas]
  /\ globalKey \notin Keys /\ None \notin 0 .. MaxLate

\* AllowUpToN and Refund keep a key for at least ten periods: an expired
\* bucket is one that would be full.
ASSUME TTLCovers ==
  /\ skew \in [Replicas -> 0 .. MaxSkew]
  /\ ttl >= Period + MaxDelay + MaxSkew

VARIABLES
  hasGlobal, failOpen,  \* the configuration
  now,
  redis,                \* bucket -> [t, r, exp], for the keys that exist
  msgs,                 \* scripts that were sent and not run
  pc, call,             \* goroutine -> its next Storage call and its locals
  out,                  \* goroutine -> the slot of its outstanding script
  negCache,             \* replica -> bucket -> expiry of the cached denial
  errorCount,           \* redisStorage.errorCount, of all replicas together
  calls,                \* history: batches begun
  asked, admitted,      \* history: items received; bucket -> items admitted
  rewound,              \* history: bucket -> ticks its refill clock went back
  failOpenItems,        \* metric, per bucket: items granted by failing open
  failed                \* history: bucket -> items of calls that failed

config == <<hasGlobal, failOpen>>
history == <<errorCount, calls, asked, admitted, rewound, failOpenItems, failed>>
vars == <<config, now, redis, msgs, pc, call, out, negCache, history>>

NoCall == [n |-> 0]

Capacity(b) == Limit[b] * Period

\* The Storage call a goroutine is at: its bucket and its number of items.
Bucket(p) ==
  IF pc[p] \in {"global", "surplus", "undoGlobal"} THEN globalKey ELSE call[p].key

Amount(p) ==
  LET c == call[p] IN
  CASE pc[p] = "global" -> c.n
    [] pc[p] = "key" -> c.globalGranted
    [] pc[p] = "surplus" -> c.globalGranted - c.keyGranted
    [] OTHER -> c.keyGranted

Zero == [b \in Buckets |-> 0]

Init ==
  /\ hasGlobal \in BOOLEAN /\ failOpen \in BOOLEAN
  /\ now = 0
  /\ redis = <<>> /\ msgs = {}
  /\ pc = [p \in Procs |-> "idle"] /\ call = [p \in Procs |-> NoCall]
  /\ out = [p \in Procs |-> None]
  /\ negCache = [r \in Replicas |-> <<>>]
  /\ errorCount = 0 /\ calls = 0 /\ asked = 0
  /\ admitted = Zero /\ rewound = Zero /\ failOpenItems = Zero /\ failed = Zero

----------------------------------------------------------------------------
\* The negative cache.  A denial is served from it until its expiry.
negCacheHit(r, b) ==
  negCacheTTL > 0 /\ b \in DOMAIN negCache[r] /\ now <= negCache[r][b]

\* Entries are only looked at and dropped when the cache is full.
negCacheSet(r, b) ==
  LET live == {x \in DOMAIN negCache[r] : now <= negCache[r][x]}
      keep == IF Cardinality(DOMAIN negCache[r]) >= maxNegCacheEntries
              THEN live ELSE DOMAIN negCache[r]
      room == Cardinality(keep) < maxNegCacheEntries
  IN  [x \in keep \cup (IF room THEN {b} ELSE {}) |->
         IF x = b /\ room THEN now + negCacheTTL ELSE negCache[r][x]]

----------------------------------------------------------------------------
\* The scripts.  HMGET of a missing key yields nil: a full bucket.
Stored(b, stamp) ==
  IF b \in DOMAIN redis THEN redis[b] ELSE [t |-> Capacity(b), r |-> stamp]

Elapsed(s, m) == IF m.stamp < s.r THEN 0 ELSE m.stamp - s.r

\* tokens after the refill, and what the script grants.
Tokens(m) ==
  LET s == Stored(m.b, m.stamp)
  IN  AtMost(s.t + Elapsed(s, m) * Limit[m.b], Capacity(m.b))

Grant(m) == AtMost(Tokens(m) \div Period, m.n)

Put(b, t, r) ==
  [x \in DOMAIN redis \cup {b} |->
     IF x = b THEN [t |-> t, r |-> r, exp |-> now + ttl] ELSE redis[x]]

allowScriptStaleStamp(m) ==
  /\ redis' = Put(m.b, Tokens(m) - Grant(m) * Period, Stored(m.b, m.stamp).r)
  /\ UNCHANGED rewound
allowScript(m) ==
  /\ redis' = Put(m.b, Tokens(m) - Grant(m) * Period, m.stamp)
  /\ rewound' = [rewound EXCEPT ![m.b] =
       LET s == Stored(m.b, m.stamp) IN
       @ + IF s.r > m.stamp THEN s.r - m.stamp ELSE 0]

refundScriptUncapped(m) ==
  /\ m.b \in DOMAIN redis
  /\ redis' = Put(m.b, redis[m.b].t + m.n * Period, redis[m.b].r)
  /\ UNCHANGED rewound
\* A refund to a missing key does nothing; the refill clock stays.
refundScript(m) ==
  /\ IF m.b \in DOMAIN redis
     THEN redis' = Put(m.b, AtMost(redis[m.b].t + m.n * Period, Capacity(m.b)),
                       redis[m.b].r)
     ELSE UNCHANGED redis
  /\ UNCHANGED rewound

----------------------------------------------------------------------------
\* The Storage call of p is over; the limiter goes on with label l, locals c.
Goto(p, l, c) ==
  /\ pc' = [pc EXCEPT ![p] = l]
  /\ call' = [call EXCEPT ![p] = IF l = "idle" THEN NoCall ELSE c]

\* AllowUpToN returns g.
Return(p, g) ==
  LET c == call[p]
      d == [c EXCEPT !.keyGranted = g] IN
  IF pc[p] = "global"
  THEN /\ Goto(p, IF g = 0 THEN "idle" ELSE "key", [c EXCEPT !.globalGranted = g])
       /\ UNCHANGED admitted
  ELSE /\ Goto(p, AfterKey(hasGlobal, d), d)
       /\ admitted' = [b \in Buckets |-> admitted[b] +
            IF b = c.key \/ (hasGlobal /\ b = globalKey) THEN Admitted(d) ELSE 0]

\* Refund returns; whether it failed makes no difference to the limiter.
Refunded(p) ==
  Goto(p, CASE pc[p] = "surplus" -> AfterGrant(call[p])
            [] pc[p] = "undoKey" -> AfterUndoKey(hasGlobal)
            [] OTHER -> "idle", call[p])

Begin(p, k, n, whole) ==
  /\ pc[p] = "idle" /\ calls < MaxCalls
  /\ Goto(p, FirstLabel(hasGlobal), NewCall(k, n, whole))
  /\ calls' = calls + 1 /\ asked' = asked + n
  /\ UNCHANGED <<config, now, redis, msgs, out, negCache, errorCount, admitted,
                 rewound, failOpenItems, failed>>

CacheDenyRenewing(p) ==
  /\ pc[p] \in {"global", "key"} /\ out[p] = None
  /\ negCacheHit(replica[p], Bucket(p))
  /\ Return(p, 0)
  /\ negCache' = [negCache EXCEPT ![replica[p]][Bucket(p)] = now + negCacheTTL]
  /\ UNCHANGED <<config, now, redis, msgs, out, errorCount, calls, asked, rewound,
                 failOpenItems, failed>>
\* A denial from the negative cache costs no script.
CacheDeny(p) ==
  /\ pc[p] \in {"global", "key"} /\ out[p] = None
  /\ negCacheHit(replica[p], Bucket(p))
  /\ Return(p, 0)
  /\ UNCHANGED <<config, now, redis, msgs, out, negCache, errorCount, calls, asked,
                 rewound, failOpenItems, failed>>

\* The script leaves with the replica's clock; an expired entry of the
\* negative cache is dropped on the way.
Send(p) ==
  LET kind == IF pc[p] \in {"global", "key"} THEN "allow" ELSE "refund"
      r == replica[p]
      slot == CHOOSE i \in 0 .. MaxLate :
                \A m \in msgs : m.p = p => m.slot # i IN
  /\ pc[p] # "idle" /\ out[p] = None
  /\ kind = "allow" => ~negCacheHit(r, Bucket(p))
  /\ Cardinality({m \in msgs : m.p = p}) <= MaxLate
  /\ msgs' = msgs \cup {[p |-> p, slot |-> slot, kind |-> kind, b |-> Bucket(p),
                         n |-> Amount(p), stamp |-> now + skew[r]]}
  /\ out' = [out EXCEPT ![p] = slot]
  /\ negCache' = IF kind = "allow" /\ negCacheTTL > 0
                 THEN [negCache EXCEPT ![r] =
                         [b \in DOMAIN @ \ {Bucket(p)} |-> @[b]]]
                 ELSE negCache
  /\ UNCHANGED <<config, now, redis, pc, call, history>>

\* The sender of m still waits for its reply.
Awaited(m) == out[m.p] = m.slot

\* The reply arrives: a denial is cached, the limiter goes on.
Receive(p, g) ==
  /\ out' = [out EXCEPT ![p] = None]
  /\ IF pc[p] \in {"global", "key"}
     THEN /\ Return(p, g)
          /\ negCache' = IF g = 0 /\ negCacheTTL > 0
                         THEN [negCache EXCEPT ![replica[p]] =
                                 negCacheSet(replica[p], Bucket(p))]
                         ELSE negCache
     ELSE Refunded(p) /\ UNCHANGED <<admitted, negCache>>

\* How long a script may spend on the way (m.stamp is in the sender's clock).
InTime(m) == now + skew[replica[m.p]] <= m.stamp + MaxDelay

\* Redis runs a script, and a sender that still waits gets the reply.  (A
\* reply that is lost or late is a sender that gave up before.)
Execute(m) ==
  /\ InTime(m)
  /\ IF m.kind = "allow" THEN allowScript(m) ELSE refundScript(m)
  /\ msgs' = msgs \ {m}
  /\ IF Awaited(m)
     THEN Receive(m.p, Grant(m))
     ELSE UNCHANGED <<pc, call, out, negCache, admitted>>
  /\ UNCHANGED <<config, now, errorCount, calls, asked, failOpenItems, failed>>

\* A call fails for any reason, up to MaxErrors times, and whenever its script
\* can no longer run in time.
recordError(p) ==
  /\ errorCount < MaxErrors \/ \E m \in msgs : m.p = p /\ Awaited(m) /\ ~InTime(m)
  /\ errorCount' = errorCount + 1

\* failOpenGrant: the timeout expires or the connection fails; the script may
\* have been lost or may yet run.
failOpenGrant(p) ==
  LET n == Amount(p)
      b == Bucket(p) IN
  /\ pc[p] \in {"global", "key"} /\ out[p] # None
  /\ recordError(p)
  /\ Return(p, IF failOpen THEN n ELSE 0)
  /\ failOpenItems' = [failOpenItems EXCEPT ![b] = @ + IF failOpen THEN n ELSE 0]
  /\ failed' = [failed EXCEPT ![b] = @ + n]
  /\ out' = [out EXCEPT ![p] = None]
  /\ UNCHANGED <<config, now, redis, msgs, negCache, calls, asked, rewound>>

\* A refund that fails is given up.
RefundFails(p) ==
  /\ pc[p] \in {"surplus", "undoKey", "undoGlobal"} /\ out[p] # None
  /\ recordError(p)
  /\ failed' = [failed EXCEPT ![Bucket(p)] = @ + Amount(p)]
  /\ Refunded(p)
  /\ out' = [out EXCEPT ![p] = None]
  /\ UNCHANGED <<config, now, redis, msgs, negCache, calls, asked, admitted,
                 rewound, failOpenItems>>

----------------------------------------------------------------------------
\* A script that nobody waits for is lost.
Lose(m) ==
  /\ ~Awaited(m)
  /\ msgs' = msgs \ {m}
  /\ UNCHANGED <<config, now, redis, pc, call, out, negCache, history>>

\* Redis drops keys that have not been written for ttl.
Expire(b) ==
  /\ b \in DOMAIN redis /\ now >= redis[b].exp
  /\ redis' = [x \in DOMAIN redis \ {b} |-> redis[x]]
  /\ UNCHANGED <<config, now, msgs, pc, call, out, negCache, history>>

\* Time passes; scripts that nobody waits for and that are overdue are lost.
Tick ==
  /\ now < MaxTime
  /\ now' = now + 1
  /\ msgs' = {m \in msgs : Awaited(m) \/ InTime(m)'}
  /\ UNCHANGED <<config, redis, pc, call, out, negCache, history>>

\* The bounds are used up and nobody waits for anything.
Exhausted ==
  /\ calls = MaxCalls /\ now = MaxTime /\ \A p \in Procs : pc[p] = "idle"
  /\ UNCHANGED vars

Step(p) ==
  \/ CacheDeny(p) \/ Send(p) \/ failOpenGrant(p) \/ RefundFails(p)

Next ==
  \/ \E p \in Procs, k \in Keys, n \in Requests, w \in BOOLEAN : Begin(p, k, n, w)
  \/ \E p \in Procs : Step(p)
  \/ \E m \in msgs : Execute(m) \/ Lose(m)
  \/ \E b \in Buckets : Expire(b)
  \/ Tick
  \/ Exhausted

Spec == Init /\ [][Next]_vars

----------------------------------------------------------------------------
\* Types: a bucket in Redis holds between zero tokens and its capacity (the scripts cap
\* and never overdraw), and a goroutine that is done awaits no script.
TypeOK ==
  /\ now \in 0 .. MaxTime
  /\ DOMAIN redis \subseteq Buckets
  /\ \A b \in DOMAIN redis : redis[b] \in [t : 0 .. Capacity(b), r : Nat, exp : Nat]
  /\ \A m \in msgs : m.p \in Procs /\ m.b \in Buckets /\ m.n \in Nat \ {0}
  /\ pc \in [Procs -> Labels]
  /\ \A p \in Procs : pc[p] = "idle" => out[p] = None
  /\ {admitted, rewound, failOpenItems, failed} \subseteq [Buckets -> Nat]

\* The whole fleet admits no more from a bucket than one burst, the refill and
\* what was granted by failing open; and the refill once more for every tick
\* by which a script that arrived late, or from a slower clock, turned back
\* the bucket's refill clock (allowLuaScript stores `now' as it comes).
\* Timeouts, late scripts, lost replies and expired keys add nothing.
FleetBound ==
  \A b \in Buckets :
    Period * admitted[b] <= Capacity(b) + Limit[b] * (now + MaxSkew + rewound[b])
                              + Period * failOpenItems[b]

\* Between batches every token missing from Redis was admitted, or asked for
\* by a call that failed: scripts that succeed lose nothing.
NothingLost ==
  (\A p \in Procs : pc[p] = "idle") =>
    \A b \in DOMAIN redis :
      redis[b].t + Period * (admitted[b] + failed[b]) >= Capacity(b)

\* The denial of bucket b that replica r caches in a step is the reply to a script
\* of its own, which Redis has just run and which left no whole token in b.
Refused(r, b) ==
  /\ \E m \in msgs \ msgs' :
       m.kind = "allow" /\ m.b = b /\ replica[m.p] = r /\ Awaited(m)
  /\ b \in DOMAIN redis' /\ redis'[b].t < Period

\* A replica denies by itself for at most one cooldown after Redis had nothing
\* to give: an entry of the negative cache is made or renewed by such a reply
\* alone, never by a hit, a call that failed or a script nobody awaits, and
\* however many keys are denied the cache keeps to maxNegCacheEntries.
CachedDenials ==
  [][\A r \in Replicas :
       /\ Cardinality(DOMAIN negCache'[r]) <= maxNegCacheEntries
       /\ \A b \in DOMAIN negCache'[r] :
            \/ b \in DOMAIN negCache[r] /\ negCache'[r][b] = negCache[r][b]
            \/ Refused(r, b) /\ negCache'[r][b] = now + negCacheTTL]_vars

\* "Atomic Lua: one RTT per decision, no race between refill and consume":
\* scripts that arrive in another order than they were stamped in make no
\* difference to what is admitted.
NoRefillRace ==
  \A b \in Buckets :
    Period * admitted[b] <= Capacity(b) + Limit[b] * (now + MaxSkew)
                              + Period * failOpenItems[b]

\* The fail-open counter tells "exactly how much traffic bypassed the limit":
\* at most what was received at all.
FailOpenExact ==
  \A k \in Keys : failOpenItems[k] + failOpenItems[globalKey] <= asked
=============================================================================
