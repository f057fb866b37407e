------------------------------ MODULE Senders ------------------------------
(***************************************************************************)
(* Clients that send batches through the rate limiter and retry the ones   *)
(* it rejects: processTraces, processTracesByTrace and processMetrics of   *)
(* processor.go around the calls of LimiterCalls, with the limits of       *)
(* Limits, the retry delay of limitExceededError and the key labels of     *)
(* metricAttrs.                                                            *)
(*                                                                         *)
(* A batch has one key and no error items (one that has some is never      *)
(* rejected).  Buckets are refilled as time passes: what the goroutines    *)
(* see is the same (RateLimiter implements Budget).  Time is kept in       *)
(* timers, so that a client may retry for ever in finitely many states.    *)
(***************************************************************************)
EXTENDS Limits, LimiterCalls, TokenBucket, FiniteSets

CONSTANTS
  Clients,
  Keys, globalKey,
  Configs,       \* configurations: of Limits, and of what follows below
  Variants(_),   \* configurations around a given one, for Shares
  Loads,         \* client -> [key, n, kind], kind one of spans, trace, metrics
  minDelay,      \* 100 ms, in ticks
  maxDelay,      \* 30 s, in ticks
  MaxBatches     \* bound on the batches of a client

ASSUME SendersInputs ==
  /\ \A cf \in Configs : IsConfig(cf, Keys) /\ cf.maxMetricKeys \in Int
  /\ \A cf \in Configs : \A v \in Variants(cf) : IsConfig(v, Keys)
  /\ \A ld \in Loads : \A c \in Clients : ld[c].key \in Keys /\ ld[c].n \in Nat \ {0}
  /\ globalKey \notin Keys /\ {minDelay, maxDelay, MaxBatches} \subseteq Nat

VARIABLES
  cfg,       \* the configuration
  limits,    \* bucket -> its limit, which cfg determines
  load,      \* client -> the batch it sends, again and again
  sent,      \* client -> number of batches
  tokens,    \* bucket -> units in it
  pc,        \* client -> the Storage call its request is at, "answer", or
             \*   "free" (nothing to send yet) or "waiting" (to retry)
  call,      \* client -> locals of the limiter call
  wait,      \* client -> ticks of the retry delay left
  seenMetricKeys,  \* signal -> keys that have a label of their own
  labels,    \* history: signal -> <<key, label>> that were exported
  disturbed  \* history: client -> others drew from its key since its rejection

vars == <<cfg, limits, load, sent, tokens, pc, call, wait, seenMetricKeys,
          labels, disturbed>>

Buckets == Keys \cup {globalKey}
Signals == {"traces", "metrics"}
signal(b) == IF b.kind = "metrics" THEN "metrics" ELSE "traces"

configHasGlobal == limits[globalKey].limit > 0
Full(b) == limits[b].limit * limits[b].period

----------------------------------------------------------------------------
\* The label of a key: itself if it is listed or, without a list, if it is one
\* of the first maxMetricKeys (negative: no maximum); else "other".
RoomForOneMore(seen) ==
  cfg.maxMetricKeys < 0 \/ Cardinality(seen) <= cfg.maxMetricKeys
Room(seen) == cfg.maxMetricKeys < 0 \/ Cardinality(seen) < cfg.maxMetricKeys

metricKey(seen, key) ==
  IF IF cfg.hasList THEN key \in cfg.list ELSE key \in seen \/ Room(seen)
  THEN key ELSE "other"

\* Counters are labelled with the key if key_labels_on says so.
metricAttrs(c, counters) ==
  LET sig == signal(load[c])
      key == load[c].key
      seen == seenMetricKeys[sig] IN
  IF counters \cap cfg.keyLabelOn = {} THEN UNCHANGED <<seenMetricKeys, labels>>
  ELSE /\ labels' = [labels EXCEPT ![sig] = @ \cup {<<key, metricKey(seen, key)>>}]
       /\ seenMetricKeys' =
            IF ~cfg.hasList /\ cfg.maxMetricKeys >= 0 /\ Room(seen)
            THEN [seenMetricKeys EXCEPT ![sig] = @ \cup {key}]
            ELSE seenMetricKeys

----------------------------------------------------------------------------
Init ==
  /\ cfg \in Configs
  /\ limits = [b \in Buckets |->
                 IF b = globalKey THEN GlobalLimit(cfg) ELSE GetLimit(cfg, b)]
  /\ load \in Loads
  /\ sent = [c \in Clients |-> 0]
  /\ tokens = [b \in Buckets |-> Full(b)]
  /\ pc = [c \in Clients |-> "free"]
  /\ call = [c \in Clients |-> [n |-> 0]]
  /\ wait = [c \in Clients |-> 0]
  /\ seenMetricKeys = [s \in Signals |-> {}]
  /\ labels = [s \in Signals |-> {}]
  /\ disturbed = [c \in Clients |-> FALSE]

\* A request arrives: its items are counted and the limiter is called.
Request(c) ==
  /\ pc' = [pc EXCEPT ![c] = FirstLabel(configHasGlobal)]
  /\ call' = [call EXCEPT ![c] =
                NewCall(load[c].key, load[c].n, load[c].kind = "metrics")]
  /\ metricAttrs(c, {"received"})
  /\ disturbed' = [disturbed EXCEPT ![c] = FALSE]
  /\ UNCHANGED <<cfg, limits, load, tokens, wait>>

Send(c) ==
  /\ pc[c] = "free" /\ sent[c] < MaxBatches
  /\ sent' = [sent EXCEPT ![c] = @ + 1]
  /\ Request(c)

\* The client (external) retries once the delay it was told is over.
Retry(c) ==
  /\ pc[c] = "waiting" /\ wait[c] = 0
  /\ UNCHANGED sent
  /\ Request(c)

----------------------------------------------------------------------------
\* The Storage calls of the limiter.
Goto(c, label, d) ==
  /\ pc' = [pc EXCEPT ![c] = IF label = "idle" THEN "answer" ELSE label]
  /\ call' = [call EXCEPT ![c] = d]

Grant(b, n) == AtMost(tokens[b] \div limits[b].period, n)
Take(b, n) == tokens' = [tokens EXCEPT ![b] = @ - n * limits[b].period]
GiveBack(b, n) ==
  tokens' = [tokens EXCEPT ![b] = AtMost(@ + n * limits[b].period, Full(b))]

TakeGlobal(c) ==
  LET g == Grant(globalKey, call[c].n) IN
  /\ pc[c] = "global"
  /\ Take(globalKey, g)
  /\ Goto(c, IF g = 0 THEN "idle" ELSE "key", [call[c] EXCEPT !.globalGranted = g])
  /\ UNCHANGED <<cfg, limits, load, sent, wait, seenMetricKeys, labels, disturbed>>

TakeKey(c) ==
  LET key == load[c].key
      g == Grant(key, call[c].globalGranted)
      d == [call[c] EXCEPT !.keyGranted = g] IN
  /\ pc[c] = "key"
  /\ Take(key, g)
  /\ Goto(c, AfterKey(configHasGlobal, d), d)
  /\ disturbed' = [o \in Clients |->
       disturbed[o] \/ (g > 0 /\ pc[o] = "waiting" /\ load[o].key = key)]
  /\ UNCHANGED <<cfg, limits, load, sent, wait, seenMetricKeys, labels>>

GiveBackStep(c) ==
  LET d == call[c] IN
  /\ \/ /\ pc[c] = "surplus"
        /\ GiveBack(globalKey, d.globalGranted - d.keyGranted)
        /\ Goto(c, AfterGrant(d), d)
     \/ /\ pc[c] = "undoKey"
        /\ GiveBack(load[c].key, d.keyGranted)
        /\ Goto(c, AfterUndoKey(configHasGlobal), d)
     \/ /\ pc[c] = "undoGlobal"
        /\ GiveBack(globalKey, d.keyGranted)
        /\ Goto(c, "idle", d)
  /\ UNCHANGED <<cfg, limits, load, sent, wait, seenMetricKeys, labels, disturbed>>

----------------------------------------------------------------------------
\* The items that go on: all or nothing of a metrics batch (AllowNCtx) and of a
\* trace (planTraceDrops), spans one by one.
Forwarded(c) ==
  IF load[c].kind # "spans" /\ call[c].keyGranted < load[c].n THEN 0
  ELSE call[c].keyGranted

\* The code computes in nanoseconds and truncates; here a tick that has begun counts.
CeilDiv(a, b) == (a + (b - 1)) \div b
AtLeast(a, b) == IF a < b THEN b ELSE a

\* "long enough for the bucket to refill what was denied", before clamping.
refillTime(c, denied) ==
  LET lim == limits[load[c].key] IN CeilDiv(denied * lim.period, lim.limit)

retryDelayUnclamped(c, denied) == AtLeast(refillTime(c, denied), minDelay)
retryDelayPerPeriod(c, denied) ==
  AtMost(AtLeast(CeilDiv(denied, limits[load[c].key].limit), minDelay), maxDelay)
\* The RetryInfo of limitExceededError.
retryDelay(c, denied) == AtMost(AtLeast(refillTime(c, denied), minDelay), maxDelay)

\* The request is answered.  A batch of which nothing goes on is rejected, with
\* a delay, or for good; the counters say what became of the items.
Answer(c) ==
  LET n == load[c].n
      denied == n - Forwarded(c)
      rejected == denied > 0 /\ Forwarded(c) = 0 /\ cfg.dropOnLimit
      waits == rejected /\ cfg.rejectionMode = "throttle" IN
  /\ pc[c] = "answer"
  /\ pc' = [pc EXCEPT ![c] = IF waits THEN "waiting" ELSE "free"]
  /\ wait' = [wait EXCEPT ![c] = IF waits THEN retryDelay(c, denied) ELSE 0]
  /\ call' = [call EXCEPT ![c] = [n |-> 0]]
  /\ metricAttrs(c, (IF denied > 0 THEN {"denied"} ELSE {})
                      \cup (IF load[c].kind = "metrics" /\ denied > 0 THEN {}
                            ELSE {"allowed"}))
  /\ UNCHANGED <<cfg, limits, load, sent, tokens, disturbed>>

Tick ==
  /\ tokens' = [b \in Buckets |-> AtMost(tokens[b] + limits[b].limit, Full(b))]
  /\ wait' = [c \in Clients |-> IF wait[c] > 0 THEN wait[c] - 1 ELSE 0]
  /\ UNCHANGED <<cfg, limits, load, sent, pc, call, seenMetricKeys, labels, disturbed>>

Step(c) == TakeGlobal(c) \/ TakeKey(c) \/ GiveBackStep(c) \/ Answer(c)

Next == Tick \/ \E c \in Clients : Send(c) \/ Retry(c) \/ Step(c)

\* Time passes, requests are served, and clients retry as they are told.
Spec ==
  /\ Init /\ [][Next]_vars
  /\ WF_vars(Tick)
  /\ \A c \in Clients : WF_vars(Step(c) \/ Retry(c))

----------------------------------------------------------------------------
\* Types: buckets hold between zero tokens and their capacity, and retry delays stay
\* within the clamp.
TypeOK ==
  /\ cfg \in Configs /\ load \in Loads
  /\ sent \in [Clients -> 0 .. MaxBatches]
  /\ DOMAIN tokens = Buckets /\ \A b \in Buckets : tokens[b] \in 0 .. Full(b)
  /\ pc \in [Clients -> (Labels \ {"idle"}) \cup {"free", "waiting", "answer"}]
  /\ \A c \in Clients : wait[c] \in 0 .. maxDelay
  /\ seenMetricKeys \in [Signals -> SUBSET Keys]

\* No key is muted, and none gets more than its share of the global budget
\* (GetLimit and capToShare), in the configurations and around them.
Shares == (\A c \in Clients : sent[c] = 0) => \A v \in Variants(cfg) : FairShare(v, Keys)

\* The batch of c would be admitted by full buckets.
Fits(c) ==
  \A b \in {load[c].key} \cup (IF configHasGlobal THEN {globalKey} ELSE {}) :
    load[c].n <= limits[b].limit

\* RetryInfo is honest: a client that waits out its delay finds enough tokens
\* in its key's bucket, unless others drew from it meanwhile, or the delay was
\* clamped.  (The global bucket is not considered.)
DelayCovers ==
  \A c \in Clients :
    LET lim == limits[load[c].key] IN
    /\ pc[c] = "waiting" /\ ~disturbed[c]
    /\ load[c].n <= lim.limit /\ refillTime(c, load[c].n) <= maxDelay
    => tokens[load[c].key] + wait[c] * lim.limit >= load[c].n * lim.period

\* Series are stable and few: a key never changes its label, so that its
\* counters do not move to another series, and at most max_metric_keys keys of
\* a processor have a label of their own.
SeriesStable ==
  \A s \in Signals :
    /\ \A x, y \in labels[s] : x[1] = y[1] => x = y
    /\ ~cfg.hasList /\ cfg.maxMetricKeys >= 0 =>
         Cardinality({x \in labels[s] : x[2] # "other"}) <= cfg.maxMetricKeys

\* Clients that only retry do not keep each other out for ever: once no client
\* has a new batch, those that were rejected get through, if all batches fit
\* the limits and none is kept whole as one trace.
RejectedGetThrough ==
  (\A c \in Clients : Fits(c) /\ load[c].kind # "trace")
    => \A c \in Clients : pc[c] = "waiting" ~> pc[c] = "free"

\* "SDK exporters honor it with backoff-and-retry, so data is delayed rather
\* than lost": clients that are rejected get through in the end if their batch
\* fits the limits.
DelayedNotLost ==
  \A c \in Clients : Fits(c) => (pc[c] = "waiting" ~> pc[c] = "free")
=============================================================================
