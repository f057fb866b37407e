--------------------------- MODULE SendersProofs ---------------------------
(***************************************************************************)
(* Every limit that config.go can resolve respects the fair share, and     *)
(* clients that retry are told an honest delay and have stable series, for *)
(* any number of clients and keys, any batches and any configuration.      *)
(***************************************************************************)
EXTENDS Senders, AccountingProofs

\* Dividing and rounding down stays within the share.
LEMMA RoundedDown ==
  ASSUME NEW a \in Nat, NEW d \in Nat, d > 0
  PROVE  a \div d \in Nat /\ (a \div d) * d <= a
<1>1. a \div d \in Nat /\ a % d \in 0 .. d - 1 /\ a = d * (a \div d) + (a % d)
  OBVIOUS
<1>2. d * (a \div d) = (a \div d) * d
  BY <1>1
<1>3. QED
  BY <1>1, <1>2

\* What a limit is that GetLimit may return.
Resolved(cf, l) ==
  l.limit > 0 =>
    /\ l.limit \in Nat /\ l.period \in {second, minute}
    /\ HasShare(cf) => WithinShare(cf, l) \/ l.limit = 1

LEMMA GlobalResolved ==
  ASSUME NEW S, NEW cf, IsConfig(cf, S)
  PROVE  /\ GlobalLimit(cf).limit \in Nat /\ GlobalLimit(cf).period \in Nat
         /\ GlobalLimit(cf).limit > 0 => GlobalLimit(cf).period \in {second, minute}
BY Periods DEF GlobalLimit, OrElse, Lim, NoLimit, IsConfig

LEMMA LimitResolved ==
  ASSUME NEW S, NEW cf, IsConfig(cf, S), NEW k \in S
  PROVE  GetLimit(cf, k).limit > 0 /\ Resolved(cf, GetLimit(cf, k))
<1> DEFINE g == GlobalLimit(cf)
           Good(l) == Resolved(cf, l)
<1> USE DEF Resolved
<1>1. /\ g.limit \in Nat
      /\ g.limit > 0 => g.period \in {second, minute}
      /\ cf.num \in Nat /\ cf.den \in Nat /\ cf.den > 0
  BY GlobalResolved DEF IsConfig
<1>2. HasShare(cf) => /\ g.limit \in Nat /\ g.period \in Nat /\ g.period > 0
                       /\ g.period * cf.den \in Nat /\ g.period * cf.den > 0
  BY <1>1, Periods DEF HasShare
<1>3. ASSUME NEW n \in Int, NEW period \in {second, minute}
      PROVE  Good(capToShare(cf, Lim(n, period)))
  <2>1. CASE ~HasShare(cf) \/ WithinShare(cf, Lim(n, period))
    <3>1. capToShare(cf, Lim(n, period)) = Lim(n, period)
      BY <2>1, Zenon DEF capToShare
    <3>2. QED
      BY <2>1, <3>1 DEF Lim
  <2>2. CASE HasShare(cf) /\ ~WithinShare(cf, Lim(n, period))
    <3> DEFINE a == g.limit * cf.num * period
               d == g.period * cf.den
               q == a \div d
    <3>1. capToShare(cf, Lim(n, period)) = Lim(AtLeastOne(q), period)
      BY <2>2, Zenon DEF capToShare, ShareIn, Lim
    <3>2. a \in Nat
      <4>1. g.limit * cf.num \in Nat /\ period \in Nat
        BY <1>1, Periods
      <4>2. QED
        BY <4>1
    <3>3. d \in Nat /\ d > 0
      BY <1>2, <2>2, Zenon
    <3> HIDE DEF a, d
    <3>4. q \in Nat /\ q * d <= a
      BY <3>2, <3>3, RoundedDown, Zenon
    <3> HIDE DEF q
    <3>5. CASE q < 1
      BY <3>1, <3>4, <3>5 DEF AtLeastOne, Lim
    <3>6. CASE ~(q < 1)
      <4>1. AtLeastOne(q) = q
        BY <3>6, Zenon DEF AtLeastOne
      <4>2. WithinShare(cf, Lim(q, period))
        BY <3>4, Zenon DEF WithinShare, Lim, a, d
      <4>3. QED
        BY <3>1, <3>4, <4>1, <4>2 DEF Lim
    <3>7. QED
      BY <3>5, <3>6, Zenon
  <2>3. QED
    BY <2>1, <2>2, Zenon
<1>4. HasShare(cf) => Good(share(cf)) /\ share(cf).limit > 0
  <2> SUFFICES ASSUME HasShare(cf)
               PROVE  Good(share(cf)) /\ share(cf).limit > 0
    BY Zenon
  <2> DEFINE a == g.limit * cf.num
             q == a \div cf.den
  <2>1. share(cf) = Lim(AtLeastOne(q), g.period)
    BY Zenon DEF share
  <2>2. a \in Nat
    BY <1>1
  <2>3. q \in Nat /\ q * cf.den <= a
    BY <1>1, <2>2, RoundedDown, Zenon
  <2>4. g.period \in {second, minute} /\ g.period \in Nat
    BY <1>1, <1>2, Zenon DEF HasShare
  <2> HIDE DEF q
  <2>5. CASE q < 1
    BY <2>1, <2>3, <2>4, <2>5 DEF AtLeastOne, Lim
  <2>6. CASE ~(q < 1)
    <3>1. AtLeastOne(q) = q
      BY <2>6, Zenon DEF AtLeastOne
    <3>2. q * (g.period * cf.den) <= a * g.period
      <4> DEFINE p == g.period
                 e == cf.den
      <4>1. p \in Nat /\ e \in Nat
        BY <1>1, <2>4, Zenon
      <4> HIDE DEF a, p, e
      <4>2. q * (p * e) = (q * e) * p
        BY <2>3, <4>1
      <4>3. (q * e) * p <= a * p
        BY <2>2, <2>3, <4>1 DEF e
      <4>4. QED
        BY <4>2, <4>3, Zenon DEF p, e
    <3>3. WithinShare(cf, Lim(q, g.period))
      BY <3>2, Zenon DEF WithinShare, Lim
    <3>4. QED
      BY <2>1, <2>3, <2>4, <2>6, <3>1, <3>3 DEF Lim
  <2>7. QED
    BY <2>5, <2>6, Zenon
<1>5. ~HasShare(cf) => Good(g) /\ Good(Lim(100, second))
  BY <1>1, Zenon DEF Lim
<1>6. /\ cf.specificLimits[k].requestsPerSecond \in Int
      /\ cf.specificLimits[k].requestsPerMinute \in Int
      /\ cf.requestsPerSecond \in Int /\ cf.requestsPerMinute \in Int
      /\ cf.defaultLimit \in Int /\ cf.defaultLimitPeriod \in {second, minute}
  BY Zenon DEF IsConfig
<1> DEFINE s1 == capToShare(cf, Lim(cf.specificLimits[k].requestsPerSecond, second))
           s2 == capToShare(cf, Lim(cf.specificLimits[k].requestsPerMinute, minute))
           c1 == capToShare(cf, Lim(cf.requestsPerSecond, second))
           c2 == capToShare(cf, Lim(cf.requestsPerMinute, minute))
           c3 == capToShare(cf, Lim(cf.defaultLimit, cf.defaultLimitPeriod))
           last == Lim(100, second)
<1>7. Good(s1) /\ Good(s2) /\ Good(c1) /\ Good(c2) /\ Good(c3)
  BY <1>3, <1>6, Zenon
<1>8. GetLimit(cf, k) = OrElse(s1, OrElse(s2, OrElse(share(cf),
                           OrElse(c1, OrElse(c2, OrElse(c3, OrElse(g, last)))))))
  BY Zenon DEF GetLimit
<1>9. last.limit > 0 /\ (~HasShare(cf) => share(cf).limit = 0)
  BY DEF Lim, share, NoLimit
<1> HIDE DEF Resolved, s1, s2, c1, c2, c3, last, g
<1>10. QED
  BY <1>4, <1>5, <1>7, <1>8, <1>9 DEF OrElse, last

\* For every configuration, with any numbers in it: GetLimit gives each key at
\* least one item per period and, when there is a share, no more than the share
\* or that one item.
THEOREM FairShareHolds ==
  ASSUME NEW S, NEW cf, IsConfig(cf, S)
  PROVE  FairShare(cf, S)
BY LimitResolved DEF FairShare, Resolved

----------------------------------------------------------------------------
\* The limits that cfg determines: those of keys are positive, and a global
\* limit comes with a period.
LimitsOK ==
  /\ DOMAIN limits = Buckets
  /\ \A b \in Buckets : limits[b].limit \in Nat /\ limits[b].period \in Nat
  /\ \A k \in Keys : limits[k].limit > 0 /\ limits[k].period > 0
  /\ configHasGlobal => limits[globalKey].period > 0

\* The functions over clients and signals.
Framed ==
  /\ DOMAIN call = Clients /\ DOMAIN wait = Clients /\ DOMAIN labels = Signals
  /\ disturbed \in [Clients -> BOOLEAN]

\* A request under way asks for the whole batch, and has no more of it from the
\* key than from the global bucket.
UnderWay == {"global", "key", "surplus", "undoKey", "undoGlobal", "answer"}
Calls(n) == [key : Keys, n : {n}, whole : BOOLEAN, globalGranted : 0 .. n, keyGranted : 0 .. n]
CallOK(c) ==
  pc[c] \in UnderWay =>
    /\ call[c] \in Calls(load[c].n) /\ call[c].keyGranted <= call[c].globalGranted
    /\ pc[c] \in {"global", "key"} => call[c].keyGranted = 0
    /\ pc[c] \in {"global", "surplus", "undoGlobal"} => configHasGlobal

\* The label that a key has from now on: it is settled by the list, or once the
\* key is seen or there is no room for it any more.
LabelNow(s, k) ==
  IF IF cfg.hasList THEN k \in cfg.list ELSE k \in seenMetricKeys[s] \/ cfg.maxMetricKeys < 0
  THEN k ELSE "other"
Settled(s, k) ==
  ~cfg.hasList /\ cfg.maxMetricKeys >= 0
    => k \in seenMetricKeys[s] \/ ~Room(seenMetricKeys[s])
Series(s) ==
  /\ IsFiniteSet(seenMetricKeys[s])
  /\ cfg.maxMetricKeys >= 0 => Cardinality(seenMetricKeys[s]) <= cfg.maxMetricKeys
  /\ \A x \in labels[s] : \E k \in Keys : x = <<k, LabelNow(s, k)>> /\ Settled(s, k)

\* The inductive invariant.
IInv ==
  /\ TypeOK /\ LimitsOK /\ Framed /\ DelayCovers
  /\ \A c \in Clients : CallOK(c)
  /\ \A s \in Signals : Series(s)

----------------------------------------------------------------------------
\* Rounding up covers what is divided (limitExceededError).
LEMMA RoundedUp ==
  ASSUME NEW a \in Nat, NEW b \in Nat, b > 0
  PROVE  CeilDiv(a, b) \in Nat /\ CeilDiv(a, b) * b >= a
<1> DEFINE t == a + (b - 1)
           q == t \div b
<1>1. t \in Nat
  OBVIOUS
<1>2. q \in Nat /\ t % b \in 0 .. b - 1 /\ t = b * q + (t % b)
  BY <1>1
<1>3. b * q = q * b /\ b * q \in Nat
  BY <1>2
<1>4. CeilDiv(a, b) = q
  BY Zenon DEF CeilDiv
<1> HIDE DEF q
<1>5. QED
  BY <1>2, <1>3, <1>4

\* The limits and the batches do not change.
Quiet == UNCHANGED <<cfg, limits, load>>

LEMMA Constant ==
  ASSUME Quiet
  PROVE  /\ LimitsOK' <=> LimitsOK
         /\ configHasGlobal' <=> configHasGlobal
         /\ \A b : Full(b)' = Full(b)
         /\ \A c, d : refillTime(c, d)' = refillTime(c, d)
BY Zenon DEF Quiet, LimitsOK, configHasGlobal, Full, refillTime

LEMMA Sizes ==
  ASSUME LimitsOK, load \in Loads
  PROVE  /\ \A b \in Buckets : limits[b].limit \in Nat /\ limits[b].period \in Nat /\ Full(b) \in Nat
         /\ \A c \in Clients : /\ load[c].key \in Keys /\ load[c].key \in Buckets
                               /\ load[c].key # globalKey
                               /\ load[c].n \in Nat /\ load[c].n > 0
BY SendersInputs, ProductNat DEF LimitsOK, Full, Buckets

\* A bucket grants no more than it is asked for and can pay.
LEMMA GrantAffordable ==
  ASSUME LimitsOK, load \in Loads, NEW b \in Buckets, tokens[b] \in 0 .. Full(b),
         limits[b].period > 0, NEW n \in Nat
  PROVE  /\ Grant(b, n) \in 0 .. n
         /\ Grant(b, n) * limits[b].period \in Nat
         /\ Grant(b, n) * limits[b].period <= tokens[b]
<1>1. PICK p \in Nat : p = limits[b].period
  BY Sizes, Zenon
<1>2. PICK t \in Nat : t = tokens[b]
  BY Sizes
<1>3. PICK q \in Nat : q = t \div p /\ q * p <= t
  BY <1>1, <1>2, RoundedDown, Zenon
<1>4. Grant(b, n) = AtMost(q, n)
  BY <1>1, <1>2, <1>3, Zenon DEF Grant
<1>5. PICK g \in Nat : g = AtMost(q, n) /\ g <= n /\ g <= q
  BY <1>3 DEF AtMost
<1>6. p * g <= p * q /\ p * g = g * p /\ p * q = q * p /\ g * p \in Nat /\ q * p \in Nat
  BY <1>5, Monotone, ProductNat
<1>7. QED
  BY <1>1, <1>2, <1>3, <1>4, <1>5, <1>6

\* The delay of a rejected batch stays within the clamp, and is long enough for
\* the batch unless the clamp cuts it.
LEMMA DelayLongEnough ==
  ASSUME LimitsOK, load \in Loads, NEW c \in Clients
  PROVE  LET n == load[c].n
             lim == limits[load[c].key] IN
         /\ retryDelay(c, n) \in 0 .. maxDelay
         /\ refillTime(c, n) <= maxDelay
              => /\ retryDelay(c, n) * lim.limit \in Nat
                 /\ retryDelay(c, n) * lim.limit >= n * lim.period
<1>1. PICK p \in Nat : p = limits[load[c].key].period
  BY Sizes, Zenon
<1>2. PICK l \in Nat : l = limits[load[c].key].limit /\ l > 0
  BY Sizes, Zenon DEF LimitsOK
<1>3. PICK n \in Nat : n = load[c].n
  BY Sizes, Zenon
<1>4. PICK a \in Nat : a = n * p
  BY ProductNat, Zenon
<1>5. PICK r \in Nat : r = CeilDiv(a, l) /\ r * l >= a
  BY <1>2, RoundedUp, Zenon
<1>6. refillTime(c, n) = r
  BY <1>1, <1>2, <1>4, <1>5, Zenon DEF refillTime
<1>7. PICK d \in Nat : d = retryDelay(c, n) /\ d <= maxDelay /\ (r <= maxDelay => r <= d)
  BY <1>6, SendersInputs DEF retryDelay, AtMost, AtLeast
<1>8. r <= maxDelay => d * l \in Nat /\ d * l >= a
  <2>1. l * r = r * l /\ l * d = d * l /\ d * l \in Nat /\ r * l \in Nat
    BY ProductNat
  <2>2. r <= maxDelay => l * r <= l * d
    BY <1>7, Monotone
  <2>3. QED
    BY <1>5, <2>1, <2>2
<1>9. QED
  BY <1>1, <1>2, <1>3, <1>4, <1>6, <1>7, <1>8

----------------------------------------------------------------------------
\* What DelayCovers says of one client.
Covered(c) ==
  LET lim == limits[load[c].key] IN
  /\ pc[c] = "waiting" /\ ~disturbed[c]
  /\ load[c].n <= lim.limit /\ refillTime(c, load[c].n) <= maxDelay
  => tokens[load[c].key] + wait[c] * lim.limit >= load[c].n * lim.period

LEMMA CoveredAll == DelayCovers <=> \A c \in Clients : Covered(c)
BY Zenon DEF DelayCovers, Covered

\* A client stays covered that waits on, and whose bucket loses nothing.
LEMMA CoveredStays ==
  ASSUME LimitsOK, load \in Loads, Quiet, NEW c \in Clients, Covered(c),
         tokens[load[c].key] \in Nat, tokens'[load[c].key] \in Nat, wait[c] \in Nat,
         pc'[c] = "waiting" /\ ~disturbed'[c]
           => /\ pc[c] = "waiting" /\ ~disturbed[c] /\ wait'[c] = wait[c]
              /\ tokens'[load[c].key] >= tokens[load[c].key]
  PROVE  Covered(c)'
<1>1. PICK k : k = load[c].key /\ load'[c].key = k
  BY Zenon DEF Quiet
<1>2. PICK n \in Nat : n = load[c].n /\ load'[c].n = n
  BY Sizes, Zenon DEF Quiet
<1>3. PICK l \in Nat, p \in Nat : /\ l = limits[k].limit /\ limits'[k].limit = l
                                  /\ p = limits[k].period /\ limits'[k].period = p
  BY <1>1, Sizes, Zenon DEF Quiet
<1>4. refillTime(c, n)' = refillTime(c, n)
  BY Constant, Zenon
<1> SUFFICES ASSUME pc'[c] = "waiting", ~disturbed'[c], n <= l, refillTime(c, n) <= maxDelay
             PROVE  tokens'[k] + wait'[c] * l >= n * p
  BY <1>1, <1>2, <1>3, <1>4, Zenon DEF Covered, Quiet
<1>5. tokens[k] + wait[c] * l >= n * p
  BY <1>1, <1>2, <1>3, Zenon DEF Covered
<1>6. wait[c] * l \in Nat /\ n * p \in Nat
  BY ProductNat, Zenon
<1>7. QED
  BY <1>1, <1>5, <1>6

\* The requests of the others are where they were.
LEMMA CallsStay ==
  ASSUME Quiet, NEW c \in Clients, \A o \in Clients : CallOK(o),
         \A o \in Clients \ {c} : pc'[o] = pc[o] /\ call'[o] = call[o],
         CallOK(c)'
  PROVE  \A o \in Clients : CallOK(o)'
<1> SUFFICES ASSUME NEW o \in Clients, o # c PROVE CallOK(o)'
  BY Zenon
<1>1. pc'[o] = pc[o] /\ call'[o] = call[o] /\ load' = load
  BY Zenon DEF Quiet
<1>2. QED
  BY <1>1, Constant, Zenon DEF CallOK

\* Series stay what they are when no counter is labelled.
LEMMA SeriesStay ==
  ASSUME \A s \in Signals : Series(s), UNCHANGED <<cfg, seenMetricKeys, labels>>
  PROVE  \A s \in Signals : Series(s)'
BY DEF Series, LabelNow, Settled, Room

\* A labelled counter: the key is seen if there is room, and its label and those
\* of all keys before it are settled (metricAttrs).
LEMMA SeriesLabelled ==
  ASSUME \A s \in Signals : Series(s), NEW c \in Clients, NEW counters, load \in Loads,
         cfg \in Configs, seenMetricKeys \in [Signals -> SUBSET Keys], DOMAIN labels = Signals,
         metricAttrs(c, counters), UNCHANGED cfg
  PROVE  /\ \A s \in Signals : Series(s)'
         /\ seenMetricKeys' \in [Signals -> SUBSET Keys] /\ DOMAIN labels' = Signals
<1>0. PICK sig, key : sig = signal(load[c]) /\ key = load[c].key
  BY Zenon
<1> DEFINE seen == seenMetricKeys[sig]
           room == ~cfg.hasList /\ cfg.maxMetricKeys >= 0 /\ Room(seen)
<1>1. CASE counters \cap cfg.keyLabelOn = {}
  BY <1>1, SeriesStay, Zenon DEF metricAttrs
<1>2. CASE ~(counters \cap cfg.keyLabelOn = {})
  <2>1. /\ labels' = [labels EXCEPT ![sig] = @ \cup {<<key, metricKey(seen, key)>>}]
        /\ seenMetricKeys' = IF room THEN [seenMetricKeys EXCEPT ![sig] = @ \cup {key}]
                             ELSE seenMetricKeys
    BY <1>0, <1>2, Zenon DEF metricAttrs
  <2>2. sig \in Signals /\ key \in Keys /\ cfg.maxMetricKeys \in Int
    BY <1>0, SendersInputs, Zenon DEF signal, Signals
  <2>3. /\ IsFiniteSet(seen) /\ Cardinality(seen) \in Nat
        /\ cfg.maxMetricKeys >= 0 => Cardinality(seen) <= cfg.maxMetricKeys
    BY <2>2, FS_CardinalityType, Zenon DEF Series
  <2>4. seenMetricKeys' \in [Signals -> SUBSET Keys] /\ DOMAIN labels' = Signals
    BY <2>1, <2>2, Zenon
  <2>5. ASSUME NEW s \in Signals, s # sig PROVE Series(s)'
    <3>1. seenMetricKeys'[s] = seenMetricKeys[s] /\ labels'[s] = labels[s]
      BY <2>1, <2>5, Zenon
    <3>2. QED
      BY <3>1 DEF Series, LabelNow, Settled, Room
  <2>6. Series(sig)'
    <3>1. labels'[sig] = labels[sig] \cup {<<key, metricKey(seen, key)>>}
      BY <2>1, <2>2, Zenon
    <3>2. CASE room
      <4>1. seenMetricKeys'[sig] = seen \cup {key}
        BY <2>1, <2>2, <3>2, Zenon
      <4>2. /\ IsFiniteSet(seen \cup {key}) /\ Cardinality(seen \cup {key}) \in Nat
            /\ Cardinality(seen \cup {key}) <= Cardinality(seen) + 1
        <5> HIDE DEF seen
        <5>1. /\ IsFiniteSet(seen \cup {key})
              /\ Cardinality(seen \cup {key}) =
                   IF key \in seen THEN Cardinality(seen) ELSE Cardinality(seen) + 1
          BY <2>3, FS_AddElement, Zenon
        <5>2. QED
          BY <2>3, <5>1
      <4>3. Cardinality(seen \cup {key}) <= cfg.maxMetricKeys
        BY <2>2, <2>3, <3>2, <4>2 DEF Room
      <4>4. metricKey(seen, key) = key /\ LabelNow(sig, key)' = key /\ Settled(sig, key)'
        BY <3>2, <4>1, Zenon DEF metricKey, LabelNow, Settled
      <4>5. \A k \in Keys : Settled(sig, k) => /\ LabelNow(sig, k)' = LabelNow(sig, k)
                                               /\ Settled(sig, k)'
        BY <3>2, <4>1, Zenon DEF LabelNow, Settled
      <4>6. QED
        BY <2>2, <3>1, <4>1, <4>2, <4>3, <4>4, <4>5 DEF Series
    <3>3. CASE ~room
      <4>1. seenMetricKeys' = seenMetricKeys
        BY <2>1, <3>3, Zenon
      <4>2. \A k : LabelNow(sig, k)' = LabelNow(sig, k) /\ (Settled(sig, k)' <=> Settled(sig, k))
        BY <4>1, Zenon DEF LabelNow, Settled, Room
      <4>3. metricKey(seen, key) = LabelNow(sig, key) /\ Settled(sig, key)
        BY <2>2, <3>3 DEF metricKey, LabelNow, Settled, Room
      <4>4. QED
        BY <2>2, <3>1, <4>1, <4>2, <4>3 DEF Series
    <3>4. QED
      BY <3>2, <3>3, Zenon
  <2>7. QED
    BY <2>4, <2>5, <2>6, Zenon
<1>3. QED
  BY <1>1, <1>2, Zenon

----------------------------------------------------------------------------
LEMMA InitHolds == Init => IInv
<1> SUFFICES ASSUME Init PROVE IInv
  BY Zenon
<1>1. cfg \in Configs /\ load \in Loads /\ IsConfig(cfg, Keys)
  BY SendersInputs, Zenon DEF Init
<1>2. PICK g : g = GlobalLimit(cfg)
  BY Zenon
<1>3. g.limit \in Nat /\ g.period \in Nat /\ (g.limit > 0 => g.period > 0)
  BY <1>1, <1>2, GlobalResolved, Periods
<1>4. \A k \in Keys : /\ GetLimit(cfg, k).limit \in Nat /\ GetLimit(cfg, k).limit > 0
                      /\ GetLimit(cfg, k).period \in Nat /\ GetLimit(cfg, k).period > 0
  <2> TAKE k \in Keys
  <2>1. GetLimit(cfg, k).limit > 0 /\ Resolved(cfg, GetLimit(cfg, k))
    BY <1>1, LimitResolved, Zenon
  <2>2. QED
    BY <2>1, Periods DEF Resolved
<1>5. LimitsOK
  <2>1. limits = [b \in Buckets |-> IF b = globalKey THEN g ELSE GetLimit(cfg, b)]
    BY <1>2, Zenon DEF Init
  <2>2. limits[globalKey] = g /\ \A k \in Keys : limits[k] = GetLimit(cfg, k)
    BY <2>1, SendersInputs, Zenon DEF Buckets
  <2>3. QED
    BY <1>3, <1>4, <2>1, <2>2, Zenon DEF LimitsOK, Buckets, configHasGlobal
<1>6. DOMAIN tokens = Buckets /\ \A b \in Buckets : tokens[b] \in 0 .. Full(b)
  <2>1. tokens = [b \in Buckets |-> Full(b)]
    BY Zenon DEF Init
  <2>2. \A b \in Buckets : Full(b) \in Nat
    BY <1>1, <1>5, Sizes, Zenon
  <2>3. QED
    BY <2>1, <2>2
<1>7. \A c \in Clients : pc[c] = "free" /\ wait[c] = 0
  BY Zenon DEF Init
<1>8. TypeOK
  <2>1. sent \in [Clients -> 0 .. MaxBatches] /\ \A c \in Clients : wait[c] \in 0 .. maxDelay
    BY SendersInputs DEF Init
  <2>2. pc \in [Clients -> (Labels \ {"idle"}) \cup {"free", "waiting", "answer"}]
    BY Zenon DEF Init
  <2>3. seenMetricKeys \in [Signals -> SUBSET Keys]
    BY Zenon DEF Init
  <2>4. QED
    BY <1>1, <1>6, <2>1, <2>2, <2>3, Zenon DEF TypeOK
<1>9. Framed
  BY Zenon DEF Init, Framed
<1>10. DelayCovers /\ \A c \in Clients : CallOK(c)
  BY <1>7, Zenon DEF DelayCovers, CallOK, UnderWay
<1>11. \A s \in Signals : Series(s)
  <2> TAKE s \in Signals
  <2>1. seenMetricKeys[s] = {} /\ labels[s] = {} /\ cfg.maxMetricKeys \in Int
    BY <1>1, SendersInputs, Zenon DEF Init
  <2>2. IsFiniteSet({}) /\ Cardinality({}) = 0
    BY FS_EmptySet, Zenon
  <2>3. QED
    BY <2>1, <2>2, Zenon DEF Series
<1>12. QED
  BY <1>5, <1>8, <1>9, <1>10, <1>11, Zenon DEF IInv

\* A request arrives (Send, Retry).
LEMMA RequestStep ==
  ASSUME IInv, NEW c \in Clients, Request(c), sent' \in [Clients -> 0 .. MaxBatches]
  PROVE  IInv'
<1>1. Quiet /\ UNCHANGED <<tokens, wait>>
  BY Zenon DEF Request, Quiet
<1>2. load \in Loads /\ cfg \in Configs /\ LimitsOK /\ TypeOK /\ Framed
  BY Zenon DEF IInv, TypeOK
<1>3. LimitsOK'
  BY <1>1, <1>2, Constant, Zenon
<1>4. /\ \A s \in Signals : Series(s)'
      /\ seenMetricKeys' \in [Signals -> SUBSET Keys] /\ DOMAIN labels' = Signals
  <2>1. metricAttrs(c, {"received"}) /\ cfg' = cfg /\ \A s \in Signals : Series(s)
    BY Zenon DEF Request, IInv
  <2>2. seenMetricKeys \in [Signals -> SUBSET Keys] /\ DOMAIN labels = Signals
    BY <1>2, Zenon DEF TypeOK, Framed
  <2>3. QED
    BY <1>2, <2>1, <2>2, SeriesLabelled, Zenon
<1>5. PICK label : label = FirstLabel(configHasGlobal)
  BY Zenon
<1>6. label \in {"global", "key"} /\ (label = "global" => configHasGlobal)
  BY <1>5, Zenon DEF FirstLabel
<1>7. PICK d : d = NewCall(load[c].key, load[c].n, load[c].kind = "metrics")
  BY Zenon
<1>8. pc' = [pc EXCEPT ![c] = label] /\ call' = [call EXCEPT ![c] = d]
  BY <1>5, <1>7, Zenon DEF Request
<1>9. d \in Calls(load[c].n) /\ d.keyGranted = 0 /\ d.globalGranted = load[c].n
  BY <1>2, <1>7, Sizes DEF NewCall, Calls
<1>10. TypeOK'
  <2>1. pc' \in [Clients -> (Labels \ {"idle"}) \cup {"free", "waiting", "answer"}]
    BY <1>2, <1>6, <1>8, Zenon DEF TypeOK, Labels
  <2>2. DOMAIN tokens' = Buckets /\ \A b \in Buckets : tokens'[b] \in 0 .. Full(b)'
    BY <1>1, <1>2, Constant, Zenon DEF TypeOK
  <2>3. cfg' \in Configs /\ load' \in Loads /\ \A o \in Clients : wait'[o] \in 0 .. maxDelay
    BY <1>1, <1>2, Zenon DEF TypeOK, Quiet
  <2>4. QED
    BY <1>4, <2>1, <2>2, <2>3, Zenon DEF TypeOK
<1>11. Framed'
  BY <1>1, <1>2, <1>4, <1>8, Zenon DEF Framed, Request
<1>12. pc'[c] = label /\ call'[c] = d
  BY <1>2, <1>8, Zenon DEF TypeOK, Framed
<1>13. \A o \in Clients \ {c} : pc'[o] = pc[o] /\ call'[o] = call[o]
  BY <1>2, <1>8, Zenon DEF TypeOK, Framed
<1>14. \A o \in Clients : CallOK(o)'
  <2>1. CallOK(c)'
    BY <1>1, <1>2, <1>6, <1>9, <1>12, Constant, Sizes DEF CallOK, Quiet
  <2>2. QED
    BY <1>1, <1>13, <2>1, CallsStay, Zenon DEF IInv
<1>15. DelayCovers'
  <2>1. \A o \in Clients : Covered(o)'
    <3> TAKE o \in Clients
    <3>1. CASE o = c
      BY <1>6, <1>12, <3>1, Zenon DEF Covered
    <3>2. CASE o # c
      <4>1. pc'[o] = pc[o] /\ disturbed'[o] = disturbed[o]
        BY <1>2, <1>13, <3>2, Zenon DEF Request, Framed
      <4>2. Covered(o) /\ tokens[load[o].key] \in Nat /\ wait[o] \in Nat
        BY <1>2, Sizes, CoveredAll, SendersInputs DEF IInv, TypeOK
      <4>3. QED
        BY <1>1, <1>2, <4>1, <4>2, CoveredStays
    <3>3. QED
      BY <3>1, <3>2, Zenon
  <2>2. QED
    BY <2>1, Zenon DEF DelayCovers, Covered
<1>16. QED
  BY <1>3, <1>4, <1>10, <1>11, <1>14, <1>15, Zenon DEF IInv

\* A Storage call moves the request on.
LEMMA CallStep ==
  ASSUME IInv, NEW c \in Clients, Quiet, UNCHANGED <<sent, wait, seenMetricKeys, labels>>,
         NEW label \in UnderWay, NEW d \in Calls(load[c].n),
         pc' = [pc EXCEPT ![c] = label], call' = [call EXCEPT ![c] = d],
         d.keyGranted <= d.globalGranted,
         label \in {"global", "key"} => d.keyGranted = 0,
         label \in {"global", "surplus", "undoGlobal"} => configHasGlobal,
         DOMAIN tokens' = Buckets, \A b \in Buckets : tokens'[b] \in 0 .. Full(b),
         disturbed' \in [Clients -> BOOLEAN],
         \A o \in Clients : pc[o] = "waiting" /\ ~disturbed'[o]
           => ~disturbed[o] /\ tokens'[load[o].key] >= tokens[load[o].key]
  PROVE  IInv'
<1>1. load \in Loads /\ cfg \in Configs /\ LimitsOK /\ TypeOK /\ Framed
  BY Zenon DEF IInv, TypeOK
<1>2. LimitsOK'
  BY <1>1, Constant, Zenon
<1>3. \A s \in Signals : Series(s)'
  BY SeriesStay, Zenon DEF IInv, Quiet
<1>4. TypeOK'
  <2>1. pc' \in [Clients -> (Labels \ {"idle"}) \cup {"free", "waiting", "answer"}]
    BY <1>1, Zenon DEF TypeOK, Labels, UnderWay
  <2>2. \A b \in Buckets : tokens'[b] \in 0 .. Full(b)'
    BY Constant, Zenon
  <2>3. QED
    BY <1>1, <2>1, <2>2, Zenon DEF TypeOK, Quiet
<1>5. Framed'
  BY <1>1, Zenon DEF Framed
<1>6. pc'[c] = label /\ call'[c] = d
  BY <1>1, Zenon DEF TypeOK, Framed
<1>7. \A o \in Clients \ {c} : pc'[o] = pc[o] /\ call'[o] = call[o]
  BY <1>1, Zenon DEF TypeOK, Framed
<1>8. \A o \in Clients : CallOK(o)'
  <2>1. load' = load /\ (configHasGlobal' <=> configHasGlobal)
    BY Constant, Zenon DEF Quiet
  <2>2. CallOK(c)'
    BY <1>6, <2>1, Zenon DEF CallOK
  <2>3. QED
    BY <1>7, <2>2, CallsStay, Zenon DEF IInv
<1>9. \A o \in Clients : Covered(o)'
  <2> TAKE o \in Clients
  <2>1. CASE o = c
    BY <1>6, <2>1, Zenon DEF Covered, UnderWay
  <2>2. CASE o # c
    <3>1. pc'[o] = pc[o] /\ wait'[o] = wait[o]
      BY <1>7, <2>2, Zenon
    <3>2. /\ Covered(o) /\ tokens[load[o].key] \in Nat /\ wait[o] \in Nat
          /\ tokens'[load[o].key] \in Nat
      BY <1>1, Sizes, CoveredAll, SendersInputs DEF IInv, TypeOK
    <3>3. QED
      BY <1>1, <3>1, <3>2, CoveredStays, Zenon
  <2>3. QED
    BY <2>1, <2>2, Zenon
<1>10. DelayCovers'
  BY <1>9, Zenon DEF DelayCovers, Covered
<1>11. QED
  BY <1>2, <1>3, <1>4, <1>5, <1>8, <1>10, Zenon DEF IInv

\* Where Goto leads.
LEMMA GotoLabel ==
  ASSUME NEW c, NEW label \in Labels, NEW d, Goto(c, label, d)
  PROVE  \E l \in UnderWay : /\ pc' = [pc EXCEPT ![c] = l] /\ call' = [call EXCEPT ![c] = d]
                             /\ l = IF label = "idle" THEN "answer" ELSE label
BY Zenon DEF Goto, Labels, UnderWay

\* AllowUpToN of a bucket: it pays for what it grants.
LEMMA Taken ==
  ASSUME TypeOK, LimitsOK, NEW b \in Buckets, limits[b].period > 0, NEW n \in Nat,
         NEW g, g = Grant(b, n), Take(b, g)
  PROVE  /\ g \in 0 .. n /\ DOMAIN tokens' = Buckets
         /\ \A x \in Buckets : tokens'[x] \in 0 .. Full(x)
         /\ \A x \in Buckets \ {b} : tokens'[x] = tokens[x]
         /\ g = 0 => tokens'[b] = tokens[b]
<1>1. /\ DOMAIN tokens = Buckets /\ load \in Loads
      /\ \A x \in Buckets : tokens[x] \in 0 .. Full(x) /\ Full(x) \in Nat
  BY Sizes, Zenon DEF TypeOK
<1>2. PICK cost \in Nat : cost = g * limits[b].period /\ cost <= tokens[b]
  BY <1>1, GrantAffordable, Zenon
<1>3. g \in 0 .. n
  BY <1>1, GrantAffordable, Zenon
<1>4. tokens' = [tokens EXCEPT ![b] = tokens[b] - cost]
  BY <1>2, Zenon DEF Take
<1>5. g = 0 => cost = 0
  BY <1>2, Sizes, <1>1
<1>6. QED
  BY <1>1, <1>2, <1>3, <1>4, <1>5

\* Refund of a bucket: it gains, up to its capacity.
LEMMA GivenBack ==
  ASSUME TypeOK, LimitsOK, NEW b \in Buckets, NEW n \in Nat, GiveBack(b, n)
  PROVE  /\ DOMAIN tokens' = Buckets
         /\ \A x \in Buckets : tokens'[x] \in 0 .. Full(x) /\ tokens'[x] >= tokens[x]
<1>1. /\ DOMAIN tokens = Buckets /\ load \in Loads
      /\ \A x \in Buckets : tokens[x] \in 0 .. Full(x) /\ Full(x) \in Nat
  BY Sizes, Zenon DEF TypeOK
<1>2. PICK back \in Nat : back = n * limits[b].period
  BY <1>1, Sizes, ProductNat, Zenon
<1>3. tokens' = [tokens EXCEPT ![b] = AtMost(tokens[b] + back, Full(b))]
  BY <1>2, Zenon DEF GiveBack
<1>4. /\ AtMost(tokens[b] + back, Full(b)) \in 0 .. Full(b)
      /\ AtMost(tokens[b] + back, Full(b)) >= tokens[b]
  BY <1>1 DEF AtMost
<1>5. QED
  BY <1>1, <1>3, <1>4

LEMMA TakeGlobalStep ==
  ASSUME IInv, NEW c \in Clients, TakeGlobal(c)
  PROVE  IInv'
<1>1. load \in Loads /\ LimitsOK /\ TypeOK /\ Framed
  BY Zenon DEF IInv, TypeOK
<1>2. /\ pc[c] = "global" /\ call[c] \in Calls(load[c].n) /\ call[c].keyGranted = 0
      /\ configHasGlobal
  BY Zenon DEF TakeGlobal, IInv, CallOK, UnderWay
<1>3. PICK n \in Nat : n = load[c].n /\ n = call[c].n
  BY <1>1, <1>2, Sizes, Zenon DEF Calls
<1>4. PICK g : g = Grant(globalKey, n)
  BY Zenon
<1>5. Take(globalKey, g)
  BY <1>3, <1>4, Zenon DEF TakeGlobal
<1>6. globalKey \in Buckets /\ limits[globalKey].period > 0
  BY <1>1, <1>2, Zenon DEF Buckets, LimitsOK
<1>7. /\ g \in 0 .. n /\ DOMAIN tokens' = Buckets
      /\ \A x \in Buckets : tokens'[x] \in 0 .. Full(x)
      /\ \A x \in Buckets \ {globalKey} : tokens'[x] = tokens[x]
  BY <1>1, <1>4, <1>5, <1>6, Taken, Zenon
<1>8. PICK d : d = [call[c] EXCEPT !.globalGranted = g]
  BY Zenon
<1>9. d \in Calls(load[c].n) /\ d.keyGranted = 0 /\ d.globalGranted = g
  BY <1>2, <1>3, <1>7, <1>8, Zenon DEF Calls
<1>10. PICK label \in {"idle", "key"} : Goto(c, label, d)
  BY <1>3, <1>4, <1>8, Zenon DEF TakeGlobal
<1>11. PICK l \in UnderWay : /\ pc' = [pc EXCEPT ![c] = l] /\ call' = [call EXCEPT ![c] = d]
                             /\ l \in {"answer", "key"}
  BY <1>10, GotoLabel DEF Labels
<1>12. Quiet /\ UNCHANGED <<sent, wait, seenMetricKeys, labels, disturbed>>
  BY Zenon DEF TakeGlobal, Quiet
<1>13. disturbed' \in [Clients -> BOOLEAN]
  BY <1>1, <1>12, Zenon DEF Framed
<1>14. \A o \in Clients : pc[o] = "waiting" /\ ~disturbed'[o]
         => ~disturbed[o] /\ tokens'[load[o].key] >= tokens[load[o].key]
  <2>1. \A o \in Clients : /\ tokens[load[o].key] \in Nat
                           /\ tokens'[load[o].key] = tokens[load[o].key]
    BY <1>1, <1>7, Sizes DEF TypeOK
  <2>2. QED
    BY <1>12, <2>1
<1>15. d.keyGranted <= d.globalGranted
  BY <1>3, <1>7, <1>9
<1>16. QED
  BY <1>7, <1>9, <1>11, <1>12, <1>13, <1>14, <1>15, CallStep, Zenon

LEMMA TakeKeyStep ==
  ASSUME IInv, NEW c \in Clients, TakeKey(c)
  PROVE  IInv'
<1>1. load \in Loads /\ LimitsOK /\ TypeOK /\ Framed
  BY Zenon DEF IInv, TypeOK
<1>2. pc[c] = "key" /\ call[c] \in Calls(load[c].n)
  BY Zenon DEF TakeKey, IInv, CallOK, UnderWay
<1>3. PICK n \in Nat : n = call[c].globalGranted /\ n <= load[c].n /\ load[c].n \in Nat
  BY <1>1, <1>2, Sizes DEF Calls
<1>4. PICK key : key = load[c].key /\ key \in Keys /\ key \in Buckets
  BY <1>1, Sizes, Zenon
<1>5. PICK g : g = Grant(key, n)
  BY Zenon
<1>6. Take(key, g) /\ limits[key].period > 0
  BY <1>1, <1>3, <1>4, <1>5, Zenon DEF TakeKey, LimitsOK
<1>7. /\ g \in 0 .. n /\ DOMAIN tokens' = Buckets
      /\ \A x \in Buckets : tokens'[x] \in 0 .. Full(x)
      /\ \A x \in Buckets \ {key} : tokens'[x] = tokens[x]
      /\ g = 0 => tokens'[key] = tokens[key]
  BY <1>1, <1>4, <1>5, <1>6, Taken, Zenon
<1>8. PICK d : d = [call[c] EXCEPT !.keyGranted = g]
  BY Zenon
<1>9. d \in Calls(load[c].n) /\ d.keyGranted = g /\ d.globalGranted = n
  BY <1>2, <1>3, <1>7, <1>8 DEF Calls
<1>10. PICK label : label = AfterKey(configHasGlobal, d)
  BY Zenon
<1>11. label \in {"surplus", "undoKey", "idle"} /\ (label = "surplus" => configHasGlobal)
  BY <1>10, Zenon DEF AfterKey, AfterGrant
<1>12. Goto(c, label, d)
  BY <1>3, <1>4, <1>5, <1>8, <1>10, Zenon DEF TakeKey
<1>13. PICK l \in UnderWay : /\ pc' = [pc EXCEPT ![c] = l] /\ call' = [call EXCEPT ![c] = d]
                             /\ l \in {"surplus", "undoKey", "answer"}
                             /\ l = "surplus" => configHasGlobal
  BY <1>11, <1>12, GotoLabel DEF Labels
<1>14. Quiet /\ UNCHANGED <<sent, wait, seenMetricKeys, labels>>
  BY Zenon DEF TakeKey, Quiet
<1>15. disturbed' = [o \in Clients |->
         disturbed[o] \/ (g > 0 /\ pc[o] = "waiting" /\ load[o].key = key)]
  BY <1>3, <1>4, <1>5, Zenon DEF TakeKey
<1>16. disturbed' \in [Clients -> BOOLEAN]
  BY <1>1, <1>15, Zenon DEF Framed
<1>17. ASSUME NEW o \in Clients, pc[o] = "waiting", ~disturbed'[o]
       PROVE  ~disturbed[o] /\ tokens'[load[o].key] >= tokens[load[o].key]
  <2>1. ~disturbed[o] /\ ~(g > 0 /\ load[o].key = key)
    BY <1>15, <1>17, Zenon
  <2>2. load[o].key \in Buckets /\ tokens[load[o].key] \in Nat
    BY <1>1, Sizes DEF TypeOK
  <2>3. tokens'[load[o].key] = tokens[load[o].key]
    BY <1>7, <2>1, <2>2
  <2>4. QED
    BY <2>1, <2>2, <2>3
<1>18. d.keyGranted <= d.globalGranted
  BY <1>7, <1>9
<1>19. QED
  BY <1>7, <1>9, <1>13, <1>14, <1>16, <1>17, <1>18, CallStep, Zenon

\* A refund moves the request on.
LEMMA GiveBackOne ==
  ASSUME IInv, NEW c \in Clients, pc[c] \in UnderWay, NEW b \in Buckets, NEW n \in Nat,
         GiveBack(b, n), NEW label \in {"undoKey", "undoGlobal", "idle"},
         label = "undoGlobal" => configHasGlobal,
         Goto(c, label, call[c]), Quiet,
         UNCHANGED <<sent, wait, seenMetricKeys, labels, disturbed>>
  PROVE  IInv'
<1>1. load \in Loads /\ LimitsOK /\ TypeOK /\ Framed
  BY Zenon DEF IInv, TypeOK
<1>2. PICK d : d = call[c]
  BY Zenon
<1>3. d \in Calls(load[c].n) /\ d.keyGranted <= d.globalGranted
  BY <1>2, Zenon DEF IInv, CallOK
<1>4. PICK l \in UnderWay : /\ pc' = [pc EXCEPT ![c] = l] /\ call' = [call EXCEPT ![c] = d]
                            /\ l \in {"undoKey", "undoGlobal", "answer"}
                            /\ l = "undoGlobal" => configHasGlobal
  BY <1>2, GotoLabel DEF Labels
<1>5. /\ DOMAIN tokens' = Buckets
      /\ \A x \in Buckets : tokens'[x] \in 0 .. Full(x) /\ tokens'[x] >= tokens[x]
  BY <1>1, GivenBack, Zenon
<1>6. disturbed' \in [Clients -> BOOLEAN]
  BY <1>1, Zenon DEF Framed
<1>7. \A o \in Clients : pc[o] = "waiting" /\ ~disturbed'[o]
        => ~disturbed[o] /\ tokens'[load[o].key] >= tokens[load[o].key]
  BY <1>1, <1>5, Sizes, Zenon
<1>8. QED
  BY <1>3, <1>4, <1>5, <1>6, <1>7, CallStep, Zenon

LEMMA GiveBackStepKeeps ==
  ASSUME IInv, NEW c \in Clients, GiveBackStep(c)
  PROVE  IInv'
<1>1. load \in Loads /\ LimitsOK /\ CallOK(c)
  BY Zenon DEF IInv, TypeOK
<1>2. load[c].key \in Buckets /\ globalKey \in Buckets /\ load[c].n \in Nat
  BY <1>1, Sizes, Zenon DEF Buckets
<1>3. Quiet /\ UNCHANGED <<sent, wait, seenMetricKeys, labels, disturbed>>
  BY Zenon DEF GiveBackStep, Quiet
<1>4. pc[c] \in {"surplus", "undoKey", "undoGlobal"} /\ pc[c] \in UnderWay
  BY Zenon DEF GiveBackStep, UnderWay
<1>5. call[c].keyGranted \in Nat /\ call[c].globalGranted - call[c].keyGranted \in Nat
  BY <1>1, <1>2, <1>4 DEF CallOK, Calls
<1>6. CASE pc[c] = "surplus"
  <2>1. PICK label : label = AfterGrant(call[c])
    BY Zenon
  <2>2. /\ GiveBack(globalKey, call[c].globalGranted - call[c].keyGranted)
        /\ Goto(c, label, call[c])
    BY <1>6, <2>1, Zenon DEF GiveBackStep
  <2>3. label \in {"undoKey", "idle"}
    BY <2>1, Zenon DEF AfterGrant
  <2>4. QED
    BY <1>2, <1>3, <1>4, <1>5, <2>2, <2>3, GiveBackOne, Zenon
<1>7. CASE pc[c] = "undoKey"
  <2>1. PICK label : label = AfterUndoKey(configHasGlobal)
    BY Zenon
  <2>2. GiveBack(load[c].key, call[c].keyGranted) /\ Goto(c, label, call[c])
    BY <1>7, <2>1, Zenon DEF GiveBackStep
  <2>3. label \in {"undoGlobal", "idle"} /\ (label = "undoGlobal" => configHasGlobal)
    BY <2>1, Zenon DEF AfterUndoKey
  <2>4. QED
    BY <1>2, <1>3, <1>4, <1>5, <2>2, <2>3, GiveBackOne, Zenon
<1>8. CASE pc[c] = "undoGlobal"
  <2>1. GiveBack(globalKey, call[c].keyGranted) /\ Goto(c, "idle", call[c])
    BY <1>8, Zenon DEF GiveBackStep
  <2>2. QED
    BY <1>2, <1>3, <1>4, <1>5, <2>1, GiveBackOne, Zenon
<1>9. QED
  BY <1>4, <1>6, <1>7, <1>8, Zenon

\* The answer of a rejected batch has a delay that covers it.
LEMMA AnswerStep ==
  ASSUME IInv, NEW c \in Clients, Answer(c)
  PROVE  IInv'
<1>1. load \in Loads /\ cfg \in Configs /\ LimitsOK /\ TypeOK /\ Framed
  BY Zenon DEF IInv, TypeOK
<1>2. Quiet /\ UNCHANGED <<sent, tokens, disturbed>> /\ pc[c] = "answer"
  BY Zenon DEF Answer, Quiet
<1>3. LimitsOK'
  BY <1>1, <1>2, Constant, Zenon
<1>4. PICK n \in Nat : n = load[c].n /\ n > 0
  BY <1>1, Sizes, Zenon
<1>5. PICK denied : denied = n - Forwarded(c)
  BY Zenon
<1>6. PICK waits \in BOOLEAN :
        waits = (/\ denied > 0 /\ Forwarded(c) = 0 /\ cfg.dropOnLimit
                 /\ cfg.rejectionMode = "throttle")
  BY Zenon
<1>7. waits => denied = n
  <2>1. waits => Forwarded(c) = 0
    BY <1>6, Zenon
  <2>2. QED
    BY <1>4, <1>5, <2>1
<1>8. PICK label : label = IF waits THEN "waiting" ELSE "free"
  BY Zenon
<1>9. PICK delay : delay = IF waits THEN retryDelay(c, denied) ELSE 0
  BY Zenon
<1>10. /\ pc' = [pc EXCEPT ![c] = label] /\ wait' = [wait EXCEPT ![c] = delay]
       /\ call' = [call EXCEPT ![c] = [n |-> 0]]
  BY <1>4, <1>5, <1>6, <1>8, <1>9, Zenon DEF Answer
<1>11. label \in {"free", "waiting"} /\ (label = "waiting" => waits)
  BY <1>8, Zenon
<1>12. /\ delay \in 0 .. maxDelay
       /\ waits => delay = retryDelay(c, n) /\ retryDelay(c, n) \in 0 .. maxDelay
  <2>1. CASE waits
    <3>1. delay = retryDelay(c, n)
      BY <1>7, <1>9, <2>1, Zenon
    <3>2. retryDelay(c, n) \in 0 .. maxDelay
      BY <1>1, <1>4, DelayLongEnough, Zenon
    <3>3. QED
      BY <3>1, <3>2, Zenon
  <2>2. CASE ~waits
    BY <1>9, <2>2, SendersInputs
  <2>3. QED
    BY <2>1, <2>2, Zenon
<1>13. /\ \A s \in Signals : Series(s)'
       /\ seenMetricKeys' \in [Signals -> SUBSET Keys] /\ DOMAIN labels' = Signals
  <2>1. PICK counters : metricAttrs(c, counters)
    BY Zenon DEF Answer
  <2>2. cfg' = cfg /\ \A s \in Signals : Series(s)
    BY <1>2, Zenon DEF IInv, Quiet
  <2>3. seenMetricKeys \in [Signals -> SUBSET Keys] /\ DOMAIN labels = Signals
    BY <1>1, Zenon DEF TypeOK, Framed
  <2>4. QED
    BY <1>1, <2>1, <2>2, <2>3, SeriesLabelled, Zenon
<1>14. pc'[c] = label /\ wait'[c] = delay
  BY <1>1, <1>10, Zenon DEF TypeOK, Framed
<1>15. \A o \in Clients \ {c} : pc'[o] = pc[o] /\ call'[o] = call[o] /\ wait'[o] = wait[o]
  BY <1>1, <1>10, Zenon DEF TypeOK, Framed
<1>16. TypeOK'
  <2>1. pc' \in [Clients -> (Labels \ {"idle"}) \cup {"free", "waiting", "answer"}]
    BY <1>1, <1>10, <1>11, Zenon DEF TypeOK
  <2>2. DOMAIN tokens' = Buckets /\ \A b \in Buckets : tokens'[b] \in 0 .. Full(b)'
    BY <1>1, <1>2, Constant, Zenon DEF TypeOK
  <2>3. \A o \in Clients : wait'[o] \in 0 .. maxDelay
    BY <1>1, <1>12, <1>14, <1>15, Zenon DEF TypeOK
  <2>4. cfg' \in Configs /\ load' \in Loads /\ sent' \in [Clients -> 0 .. MaxBatches]
    BY <1>1, <1>2, Zenon DEF TypeOK, Quiet
  <2>5. QED
    BY <1>13, <2>1, <2>2, <2>3, <2>4, Zenon DEF TypeOK
<1>17. Framed'
  BY <1>1, <1>2, <1>10, <1>13, Zenon DEF Framed
<1>18. \A o \in Clients : CallOK(o)'
  <2>1. CallOK(c)'
    BY <1>11, <1>14, Zenon DEF CallOK, UnderWay
  <2>2. QED
    BY <1>2, <1>15, <2>1, CallsStay, Zenon DEF IInv
<1>19. \A o \in Clients : Covered(o)'
  <2> TAKE o \in Clients
  <2>1. CASE o = c
    <3>1. PICK k \in Buckets : k = load[c].key /\ load'[c].key = k
      BY <1>1, <1>2, Sizes, Zenon DEF Quiet
    <3>2. PICK l \in Nat, p \in Nat : /\ l = limits[k].limit /\ limits'[k].limit = l
                                      /\ p = limits[k].period /\ limits'[k].period = p
      BY <1>1, <1>2, Sizes, Zenon DEF Quiet
    <3>3. refillTime(c, n)' = refillTime(c, n) /\ load'[c].n = n
      BY <1>2, <1>4, Constant, Zenon DEF Quiet
    <3>4. tokens'[k] \in Nat
      BY <1>1, <1>2, Sizes DEF TypeOK
    <3> SUFFICES ASSUME label = "waiting", refillTime(c, n) <= maxDelay
                 PROVE  tokens'[k] + delay * l >= n * p
      BY <1>14, <2>1, <3>1, <3>2, <3>3, Zenon DEF Covered
    <3>5. delay = retryDelay(c, n)
      BY <1>11, <1>12, Zenon
    <3>6. delay * l \in Nat /\ delay * l >= n * p
      BY <1>1, <1>4, <3>1, <3>2, <3>5, DelayLongEnough, Zenon
    <3>7. QED
      BY <3>4, <3>6, ProductNat
  <2>2. CASE o # c
    <3>1. pc'[o] = pc[o] /\ wait'[o] = wait[o] /\ disturbed' = disturbed /\ tokens' = tokens
      BY <1>2, <1>15, <2>2, Zenon
    <3>2. Covered(o) /\ tokens[load[o].key] \in Nat /\ wait[o] \in Nat
      BY <1>1, Sizes, CoveredAll, SendersInputs DEF IInv, TypeOK
    <3>3. QED
      BY <1>1, <1>2, <3>1, <3>2, CoveredStays
  <2>3. QED
    BY <2>1, <2>2, Zenon
<1>20. DelayCovers'
  BY <1>19, Zenon DEF DelayCovers, Covered
<1>21. QED
  BY <1>3, <1>13, <1>16, <1>17, <1>18, <1>20, Zenon DEF IInv

\* Buckets fill up, to their capacity, and timers run down: what a client gets
\* less to wait, its bucket has more, or is full and holds the batch.
LEMMA TickStep ==
  ASSUME IInv, Tick
  PROVE  IInv'
<1>1. load \in Loads /\ cfg \in Configs /\ LimitsOK /\ TypeOK /\ Framed
  BY Zenon DEF IInv, TypeOK
<1>2. Quiet /\ UNCHANGED <<sent, pc, call, seenMetricKeys, labels, disturbed>>
  BY Zenon DEF Tick, Quiet
<1>3. LimitsOK'
  BY <1>1, <1>2, Constant, Zenon
<1>4. \A s \in Signals : Series(s)'
  BY <1>2, SeriesStay, Zenon DEF IInv, Quiet
<1>5. \A b \in Buckets : /\ tokens[b] \in Nat /\ tokens[b] <= Full(b) /\ Full(b) \in Nat
                         /\ limits[b].limit \in Nat
                         /\ tokens'[b] = AtMost(tokens[b] + limits[b].limit, Full(b))
  BY <1>1, Sizes DEF TypeOK, Tick
<1>6. \A b \in Buckets : tokens'[b] \in 0 .. Full(b)
  BY <1>5 DEF AtMost
<1>7. \A c \in Clients : /\ wait[c] \in Nat /\ wait[c] <= maxDelay
                         /\ wait'[c] = IF wait[c] > 0 THEN wait[c] - 1 ELSE 0
  BY <1>1, SendersInputs DEF TypeOK, Tick
<1>8. TypeOK'
  <2>1. DOMAIN tokens' = Buckets /\ \A b \in Buckets : tokens'[b] \in 0 .. Full(b)'
    BY <1>2, <1>6, Constant, Zenon DEF Tick
  <2>2. \A c \in Clients : wait'[c] \in 0 .. maxDelay
    BY <1>7, SendersInputs
  <2>3. QED
    BY <1>1, <1>2, <2>1, <2>2, Zenon DEF TypeOK, Quiet
<1>9. Framed'
  BY <1>1, <1>2, Zenon DEF Framed, Tick
<1>10. \A c \in Clients : CallOK(c)'
  <2>1. load' = load /\ pc' = pc /\ call' = call /\ (configHasGlobal' <=> configHasGlobal)
    BY <1>2, Constant, Zenon DEF Quiet
  <2>2. QED
    BY <2>1, Zenon DEF CallOK, IInv
<1>11. \A c \in Clients : Covered(c)'
  <2> TAKE c \in Clients
  <2>1. PICK k \in Buckets : k = load[c].key /\ load'[c].key = k
    BY <1>1, <1>2, Sizes, Zenon DEF Quiet
  <2>2. PICK l \in Nat, p \in Nat : /\ l = limits[k].limit /\ limits'[k].limit = l
                                    /\ p = limits[k].period /\ limits'[k].period = p
    BY <1>1, <1>2, Sizes, Zenon DEF Quiet
  <2>3. PICK n \in Nat : n = load[c].n /\ load'[c].n = n
    BY <1>1, <1>2, Sizes, Zenon DEF Quiet
  <2>4. refillTime(c, n)' = refillTime(c, n)
    BY <1>2, Constant, Zenon
  <2>5. PICK t \in Nat : t = tokens[k] /\ tokens'[k] = AtMost(t + l, Full(k)) /\ t <= Full(k)
    BY <1>5, <2>2, Zenon
  <2>6. PICK w \in Nat : w = wait[c] /\ wait'[c] = IF w > 0 THEN w - 1 ELSE 0
    BY <1>7, Zenon
  <2> SUFFICES ASSUME pc[c] = "waiting", ~disturbed[c], n <= l, refillTime(c, n) <= maxDelay
               PROVE  tokens'[k] + wait'[c] * l >= n * p
    BY <1>2, <2>1, <2>2, <2>3, <2>4, Zenon DEF Covered
  <2>7. t + w * l >= n * p
    BY <2>1, <2>2, <2>3, <2>5, <2>6, CoveredAll, Zenon DEF Covered, IInv
  <2>8. PICK full \in Nat : full = Full(k) /\ full >= n * p
    <3>1. p * n <= p * l /\ p * n = n * p /\ p * l = l * p
      BY Monotone
    <3>2. Full(k) = l * p /\ Full(k) \in Nat
      BY <1>5, <2>2, Zenon DEF Full
    <3>3. QED
      BY <3>1, <3>2, Zenon
  <2>9. PICK v \in Nat : v = wait'[c] /\ l + v * l >= w * l /\ v * l \in Nat
    <3>1. CASE w = 0
      <4>1. wait'[c] = 0 /\ 0 * l = 0 /\ w * l = 0
        BY <2>6, <3>1
      <4>2. QED
        BY <4>1
    <3>2. CASE w > 0
      <4>1. PICK v \in Nat : v = w - 1
        BY <3>2
      <4>2. wait'[c] = v
        BY <2>6, <3>2, <4>1, Zenon
      <4>3. w = v + 1 /\ l * (v + 1) = l * v + l * 1
        BY <4>1
      <4>4. l * v = v * l /\ l * w = w * l /\ v * l \in Nat /\ w * l \in Nat
        BY ProductNat
      <4>5. QED
        BY <4>2, <4>3, <4>4
    <3>3. QED
      BY <3>1, <3>2
  <2>10. n * p \in Nat /\ w * l \in Nat
    BY ProductNat, Zenon
  <2>11. CASE t + l > full
    BY <2>5, <2>8, <2>9, <2>10, <2>11 DEF AtMost
  <2>12. CASE ~(t + l > full)
    BY <2>5, <2>7, <2>8, <2>9, <2>10, <2>12 DEF AtMost
  <2>13. QED
    BY <2>11, <2>12, Zenon
<1>12. DelayCovers'
  BY <1>11, Zenon DEF DelayCovers, Covered
<1>13. QED
  BY <1>3, <1>4, <1>8, <1>9, <1>10, <1>12, Zenon DEF IInv

LEMMA StutterStep ==
  ASSUME IInv, UNCHANGED vars
  PROVE  IInv'
<1>1. /\ Quiet
      /\ UNCHANGED <<sent, tokens, pc, call, wait, seenMetricKeys, labels, disturbed>>
  BY Zenon DEF vars, Quiet
<1>2. LimitsOK'
  BY <1>1, Constant, Zenon DEF IInv
<1>3. TypeOK' /\ Framed'
  BY <1>1, Constant, Zenon DEF IInv, TypeOK, Framed, Quiet
<1>4. DelayCovers'
  BY <1>1, Zenon DEF IInv, DelayCovers, refillTime, Quiet
<1>5. \A c \in Clients : CallOK(c)'
  BY <1>1, Constant, Zenon DEF IInv, CallOK, Quiet
<1>6. \A s \in Signals : Series(s)'
  BY <1>1, SeriesStay, Zenon DEF IInv, Quiet
<1>7. QED
  BY <1>2, <1>3, <1>4, <1>5, <1>6, Zenon DEF IInv

LEMMA NextStep == IInv /\ [Next]_vars => IInv'
<1> SUFFICES ASSUME IInv, [Next]_vars PROVE IInv'
  BY Zenon
<1>1. ASSUME NEW c \in Clients, Send(c) PROVE IInv'
  <2>1. sent' \in [Clients -> 0 .. MaxBatches]
    BY <1>1, SendersInputs DEF Send, IInv, TypeOK
  <2>2. Request(c)
    BY <1>1, Zenon DEF Send
  <2>3. QED
    BY <2>1, <2>2, RequestStep, Zenon
<1>2. ASSUME NEW c \in Clients, Retry(c) PROVE IInv'
  <2>1. sent' \in [Clients -> 0 .. MaxBatches] /\ Request(c)
    BY <1>2, Zenon DEF Retry, IInv, TypeOK
  <2>2. QED
    BY <2>1, RequestStep, Zenon
<1>3. ASSUME NEW c \in Clients, Step(c) PROVE IInv'
  BY <1>3, TakeGlobalStep, TakeKeyStep, GiveBackStepKeeps, AnswerStep, Zenon DEF Step
<1>4. QED
  BY <1>1, <1>2, <1>3, TickStep, StutterStep, Zenon DEF Next

LEMMA Invariance == Spec => []IInv
<1>1. QED
  BY InitHolds, NextStep, PTL DEF Spec

\* Buckets hold between zero tokens and their capacity and delays stay within
\* the clamp, with any clients, batches and configurations.
THEOREM Types == Spec => []TypeOK
<1>1. IInv => TypeOK
  BY Zenon DEF IInv
<1>2. QED
  BY <1>1, Invariance, PTL

\* GetLimit mutes no key and gives none more than its share, whatever the
\* configurations and their variants.
THEOREM SharesAreFair == Spec => []Shares
<1>1. IInv => Shares
  BY FairShareHolds, SendersInputs, Zenon DEF IInv, TypeOK, Shares
<1>2. QED
  BY <1>1, Invariance, PTL

\* The delay of limitExceededError is honest: whatever the others do, and
\* however their steps interleave, a client that waits it out finds enough
\* tokens for its whole batch in its key's bucket, unless others drew from it
\* meanwhile or the delay was clamped.
THEOREM DelayIsHonest == Spec => []DelayCovers
<1>1. IInv => DelayCovers
  BY Zenon DEF IInv
<1>2. QED
  BY <1>1, Invariance, PTL

\* metricAttrs never moves a key to another series, and gives at most
\* max_metric_keys keys a label of their own.
THEOREM SeriesAreStable == Spec => []SeriesStable
<1>1. ASSUME IInv, NEW s \in Signals
      PROVE  /\ \A x, y \in labels[s] : x[1] = y[1] => x = y
             /\ ~cfg.hasList /\ cfg.maxMetricKeys >= 0 =>
                  Cardinality({x \in labels[s] : x[2] # "other"}) <= cfg.maxMetricKeys
  <2> DEFINE own == {x \in labels[s] : x[2] # "other"}
             seen == seenMetricKeys[s]
             twice == [k \in seen |-> <<k, k>>]
  <2>1. \A x \in labels[s] : \E k \in Keys : x = <<k, LabelNow(s, k)>>
    BY <1>1, Zenon DEF IInv, Series
  <2>2. \A x, y \in labels[s] : x[1] = y[1] => x = y
    BY <2>1
  <2>3. ASSUME ~cfg.hasList, cfg.maxMetricKeys >= 0
        PROVE  Cardinality(own) <= cfg.maxMetricKeys
    <3>1. IsFiniteSet(seen) /\ Cardinality(seen) <= cfg.maxMetricKeys
      BY <1>1, <2>3, Zenon DEF IInv, Series
    <3>2. cfg.maxMetricKeys \in Int
      BY <1>1, SendersInputs, Zenon DEF IInv, TypeOK
    <3>3. own \subseteq {<<k, k>> : k \in seen}
      BY <2>1, <2>3, <3>2 DEF LabelNow
    <3>4. twice \in Surjection(seen, {<<k, k>> : k \in seen})
      BY Zenon DEF Surjection
    <3> HIDE DEF own, seen, twice
    <3>5. /\ IsFiniteSet({<<k, k>> : k \in seen})
          /\ Cardinality({<<k, k>> : k \in seen}) <= Cardinality(seen)
      BY <3>1, <3>4, FS_Surjection, Zenon
    <3>6. Cardinality(own) <= Cardinality({<<k, k>> : k \in seen}) /\ IsFiniteSet(own)
      BY <3>3, <3>5, FS_Subset, Zenon
    <3>7. /\ Cardinality(own) \in Nat /\ Cardinality(seen) \in Nat
          /\ Cardinality({<<k, k>> : k \in seen}) \in Nat
      BY <3>1, <3>5, <3>6, FS_CardinalityType, Zenon
    <3>8. QED
      BY <3>1, <3>2, <3>5, <3>6, <3>7
  <2>4. QED
    BY <2>2, <2>3, Zenon
<1>2. IInv => SeriesStable
  BY <1>1, Zenon DEF SeriesStable
<1>3. QED
  BY <1>2, Invariance, PTL
=============================================================================
