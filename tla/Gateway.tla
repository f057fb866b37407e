------------------------------ MODULE Gateway ------------------------------
(***************************************************************************)
(* The way of one batch through a pipeline of the gateway: first the       *)
(* statefulfilter processor, which removes what the rules drop, then the   *)
(* ratelimit processor, which bills what is left key by key and drops or   *)
(* rejects what was not granted (config/otelcol-gateway-statefulfilter     *)
(* has them in this order).                                                *)
(*                                                                         *)
(* A batch has a signal, the header and the resource attributes that may   *)
(* hold rate-limit keys, and its items (spans, log records, data points)   *)
(* in order, each with its resource.  Scopes are left out.  What the rate  *)
(* limiter grants is any number the RateLimiter module allows: from none   *)
(* to all of what was asked for, and for AllowNCtx all or nothing.         *)
(***************************************************************************)
EXTENDS RuleSet, Sequences

CONSTANTS
  Keys,       \* rate-limit keys
  default,    \* the key of what has none
  Missing,    \* no such attribute; no such header, or an empty one
  Batches(_), \* the batches that may arrive, for a limit_type
  Hashes,     \* the rule hashes the filter may have loaded
  now         \* the time, for the expiry of rules

\* A rule hash: finitely many documents, under their ids.
HashOK(h) ==
  /\ DOMAIN h \subseteq Nat /\ IsFiniteSet(DOMAIN h)
  /\ \A i \in DOMAIN h :
       h[i].json \in BOOLEAN /\ h[i].enabled \in BOOLEAN /\ h[i].expiresAt \in Int

\* A batch: every item is in one of its resources, and only logs have bodies.
BatchOK(b) ==
  /\ b.signal \in Signals /\ Len(b.items) \in Nat /\ Len(b.attrs) \in Nat
  /\ b.header \in Keys \cup {Missing}
  /\ \A j \in 1 .. Len(b.attrs) : b.attrs[j] \in Keys \cup {Missing}
  /\ \A i \in 1 .. Len(b.items) :
       /\ b.items[i].res \in 1 .. Len(b.attrs) /\ b.items[i].error \in BOOLEAN
       /\ b.signal # "logs" => \A f \in DOMAIN b.items[i].fields : f[1] # "body"

ASSUME GatewayInputs ==
  /\ maxRules \in Int /\ now \in Int /\ default \in Keys
  /\ \A h \in Hashes : HashOK(h)
  /\ \A type \in {"attribute", "header"} : \A b \in Batches(type) : BatchOK(b)

VARIABLES
  LimitType, PreserveErrors, TraceIDAware, DropOnLimit,   \* the configuration
  docs, rules,         \* the hash that was loaded and the snapshot built from it
  batch,
  pc,
  left, resources,     \* the items and the resources that are still in the batch
  passed,              \* history: the items that came through the filter
  billed,              \* the keys that have been billed
  granted,             \* history: key -> what the limiter granted
  dropAll,             \* the traces some key's plan drops
  received, allowed, denied, preserved   \* the counters, per key

config == <<LimitType, PreserveErrors, TraceIDAware, DropOnLimit, docs, rules>>
counters == <<received, allowed, denied, preserved>>
vars == <<config, batch, pc, left, resources, passed, billed, granted, dropAll,
          counters>>

Zero == [k \in Keys |-> 0]
Positions == 1 .. Len(batch.items)
Ended == {"forwarded", "rejected", "skipped"}

Init ==
  /\ LimitType \in {"attribute", "header"}
  /\ PreserveErrors \in BOOLEAN /\ TraceIDAware \in BOOLEAN /\ DropOnLimit \in BOOLEAN
  /\ docs \in Hashes /\ rules = buildRuleSet(docs, 1)
  /\ batch \in Batches(LimitType)
  /\ pc = "filter"
  /\ left = Positions /\ resources = 1 .. Len(batch.attrs)
  /\ passed = {} /\ billed = {} /\ dropAll = {} /\ granted = Zero
  /\ received = Zero /\ allowed = Zero /\ denied = Zero /\ preserved = Zero

----------------------------------------------------------------------------
CleanedAll(rs, keep) == resources \ rs
\* RemoveIf on the resources: those of rs without an item in `keep' go.  (A
\* metric of unknown type, which holds no item and stays, is left out.)
Cleaned(rs, keep) ==
  {j \in resources : j \in rs => \E i \in keep : batch.items[i].res = j}

AsItem(i) == [signal |-> batch.signal, fields |-> batch.items[i].fields]

\* processTraces, processLogs and processMetrics of the filter.  A batch of
\* which nothing is left is dropped without an error.
Filter ==
  LET keep == {i \in left : ~shouldDrop(rules, AsItem(i), now)}
      inert == rulesFor(rules, batch.signal) = {} IN
  /\ pc = "filter"
  /\ left' = IF inert THEN left ELSE keep
  /\ passed' = left'
  /\ resources' = IF inert THEN resources ELSE Cleaned(resources, keep)
  /\ pc' = IF ~inert /\ resources' = {} THEN "skipped"
           ELSE IF resources' = {} THEN "forwarded" ELSE "bill"
  /\ UNCHANGED <<config, batch, billed, granted, dropAll, counters>>

----------------------------------------------------------------------------
\* keyForResource and extractKey: the configured attribute of the resource (with
\* limit_type service_name it is service.name), or the request's header.
keyForResource(j) ==
  LET value == IF LimitType = "header" THEN batch.header ELSE batch.attrs[j]
  IN  IF value = Missing THEN default ELSE value

KeyOf(i) == keyForResource(batch.items[i].res)

\* The items of key k that are in the batch.
Here(k) == {i \in left : KeyOf(i) = k}

TraceOf(i) == batch.items[i].trace

ByTrace == batch.signal = "traces" /\ TraceIDAware

\* What bypasses the limit: error spans and error logs, or by trace all spans
\* of a trace that has an error span among those of this key.
Critical(k) ==
  {i \in Here(k) :
     /\ PreserveErrors /\ batch.signal # "metrics"
     /\ \E j \in IF ByTrace THEN Here(k) ELSE {i} :
          TraceOf(j) = TraceOf(i) /\ batch.items[j].error}

NormalOverlaps(k) == Here(k)
Normal(k) == Here(k) \ Critical(k)

\* A trace is met first at its first normal span, and has so many.
Opens(k, i) == i \in Normal(k) /\ \A j \in Normal(k) : TraceOf(j) = TraceOf(i) => i <= j
Spans(k, i) == Cardinality({j \in Normal(k) : TraceOf(j) = TraceOf(i)})

\* planTraceDrops: traces are kept in first-seen order while they fit; how many
\* spans are kept up to item i,
keptSpans(k, grant) ==
  LET kept[i \in 0 .. Len(batch.items)] ==
        IF i = 0 THEN 0
        ELSE kept[i - 1] +
             IF Opens(k, i) /\ kept[i - 1] + Spans(k, i) <= grant THEN Spans(k, i) ELSE 0
  IN  kept

\* and the traces that did not fit.
planTraceDrops(k, grant) ==
  {TraceOf(i) : i \in {j \in Normal(k) :
     Opens(k, j) /\ keptSpans(k, grant)[j - 1] + Spans(k, j) > grant}}

\* The first key in the order of the resources that is not billed yet.
NextKey ==
  LET todo == {j \in resources : keyForResource(j) \notin billed}
  IN  keyForResource(CHOOSE j \in todo : \A i \in todo : j <= i)

AllBilled == \A j \in resources : keyForResource(j) \in billed

\* What AllowUpToNCtx, or for metrics AllowNCtx, may answer to n.
Answers(n) == IF batch.signal = "metrics" THEN {0, n} ELSE 0 .. n

\* The normal items of k that stay when g were granted.
KeptNormal(k, g) ==
  IF ByTrace
  THEN Cardinality({i \in Normal(k) : TraceOf(i) \notin planTraceDrops(k, g)})
  ELSE g

\* One turn of the loop over the keys in processTraces, processTracesByTrace,
\* processLogs and processMetrics of the rate limiter.
Bill(g) ==
  LET k == NextKey
      n == Cardinality(Normal(k)) IN
  /\ pc = "bill" /\ ~AllBilled
  /\ g \in Answers(n)
  /\ billed' = billed \cup {k}
  /\ granted' = [granted EXCEPT ![k] = g]
  /\ received' = [received EXCEPT ![k] = @ + Cardinality(Here(k))]
  /\ preserved' = [preserved EXCEPT ![k] = @ + Cardinality(Critical(k))]
  /\ allowed' = [allowed EXCEPT ![k] = @ + Cardinality(Critical(k)) + KeptNormal(k, g)]
  /\ denied' = [denied EXCEPT ![k] = @ + n - KeptNormal(k, g)]
  /\ dropAll' = IF ByTrace THEN dropAll \cup planTraceDrops(k, g) ELSE dropAll
  /\ UNCHANGED <<config, batch, pc, left, resources, passed>>

DropsOneShort(k) ==
  {i \in Normal(k) : Cardinality({j \in Normal(k) : j < i}) < denied[k] - 1}
DropsAnyItem(k) == {i \in Here(k) : Cardinality({j \in Here(k) : j < i}) < denied[k]}
\* dropNormalSpansByKey and dropNormalLogsByKey: the first denied[k] normal
\* items of each key.  A resource is looked at while its key has excess left.
DropsOf(k) ==
  {i \in Normal(k) : Cardinality({j \in Normal(k) : j < i}) < denied[k]}

LookedAt ==
  {j \in resources :
     LET k == keyForResource(j) IN
     Cardinality({i \in Normal(k) : batch.items[i].res < j}) < denied[k]}

DropsWithinKey ==
  IF ByTrace THEN UNION {{i \in Here(k) : TraceOf(i) \in planTraceDrops(k, granted[k])} :
                           k \in billed}
  ELSE UNION {DropsOf(k) : k \in Keys}
\* The items that the limiter takes out of the batch.
Drops ==
  IF ByTrace THEN {i \in left : TraceOf(i) \in dropAll}
  ELSE UNION {DropsOf(k) : k \in Keys}

FinishRejectsAny ==
  /\ pc = "bill" /\ AllBilled
  /\ pc' = IF DropOnLimit /\ (\E k \in Keys : denied[k] > 0) THEN "rejected"
           ELSE "forwarded"
  /\ UNCHANGED <<config, batch, left, resources, passed, billed, granted, dropAll,
                 counters>>
FinishForwardsAll ==
  /\ pc = "bill" /\ AllBilled
  /\ pc' = "forwarded"
  /\ left' = IF DropOnLimit THEN left \ Drops ELSE left
  /\ UNCHANGED <<config, batch, resources, passed, billed, granted, dropAll, counters>>
\* The end of the same functions: reject the batch, or drop from it and
\* forward the rest; without drop_on_limit forward everything.
Finish ==
  LET acts == DropOnLimit /\ \E k \in Keys : denied[k] > 0
      keep == left \ Drops IN
  /\ pc = "bill" /\ AllBilled
  /\ IF acts /\ \A k \in Keys : allowed[k] = 0
     THEN pc' = "rejected" /\ UNCHANGED <<left, resources>>
     ELSE /\ pc' = "forwarded"
          /\ left' = IF acts THEN keep ELSE left
          /\ resources' = IF ~acts THEN resources
                          ELSE CASE batch.signal = "metrics" ->
                                      {j \in resources : denied[keyForResource(j)] = 0}
                                 [] ByTrace -> Cleaned(resources, keep)
                                 [] OTHER -> Cleaned(LookedAt, keep)
  /\ UNCHANGED <<config, batch, passed, billed, granted, dropAll, counters>>

Done == pc \in Ended /\ UNCHANGED vars

Next == Filter \/ (\E g \in 0 .. Len(batch.items) : Bill(g)) \/ Finish \/ Done

Spec == Init /\ [][Next]_vars /\ WF_vars(Next)

----------------------------------------------------------------------------
\* Types: the batch in transit: what is left of it, the keys billed and the counters
\* stay within the batch, and no item outlives its resource (RemoveIf).
TypeOK ==
  /\ pc \in Ended \cup {"filter", "bill"}
  /\ left \subseteq Positions /\ passed \subseteq Positions
  /\ resources \subseteq 1 .. Len(batch.attrs)
  /\ {batch.items[i].res : i \in left} \subseteq resources
  /\ billed \subseteq Keys
  /\ {granted, received, allowed, denied, preserved} \subseteq [Keys -> Nat]

\* What reaches the limiter is what the loaded hash does not mute: a keep rule
\* wins over every drop rule whatever their ids, max_rules cuts by id, expired
\* and disabled rules are none, and not looking at bodies changes nothing.
KeepWins ==
  pc # "filter" => passed = {i \in Positions : ~Muted(docs, AsItem(i), now)}

\* "received == allowed + denied always holds", for both settings of drop_on_limit,
\* in each of the four loops; what the filter removed is not received; and in
\* monitor mode nothing is taken out or rejected, so that the excess is forwarded
\* and counted as denied only (as the README, line 278, says).  docs/testing.md:141
\* and 155, README.md:486 and the monitor_mode scenario in e2e/scenarios.yaml say
\* the contrary: that it is counted as denied and as allowed.
Accounted ==
  pc \in Ended =>
    /\ \A k \in Keys :
         /\ received[k] = allowed[k] + denied[k]
         /\ received[k] = Cardinality({i \in passed : KeyOf(i) = k})
    /\ ~DropOnLimit => pc # "rejected" /\ left = passed

\* A rejected batch, which the sender will send again, has cost no token; only
\* by trace may tokens be spent on traces that did not fit.
RejectedIsFree ==
  pc = "rejected" /\ ~ByTrace => granted = Zero

\* The span, or by trace the whole trace, that item i belongs to.
Unit(i) == IF ByTrace THEN {j \in passed : TraceOf(j) = TraceOf(i)} ELSE {i}

OneKey(S) ==
  \A i, j \in S : KeyOf(i) = KeyOf(j)

\* No trace of the batch is spread over keys that plan for it separately.
Separate == \A i \in passed : OneKey(Unit(i))

\* What is forwarded is what was paid for and what the counters say: of each
\* key at most the items that were granted beside those that are preserved,
\* and as many as `allowed' counts -- unless another key's plan drops a trace.
PaidAndCounted ==
  pc = "forwarded" /\ DropOnLimit =>
    \A k \in Keys :
      /\ Cardinality(Here(k)) <= granted[k] + preserved[k]
      /\ Separate => Cardinality(Here(k)) = allowed[k]

\* preserve_errors: what comes through the filter with an error is forwarded
\* however empty the buckets are; by trace with its whole trace, provided the
\* trace lies within one key.
ErrorsKept ==
  pc \in Ended /\ PreserveErrors /\ batch.signal # "metrics" =>
    \A i \in passed :
      batch.items[i].error /\ OneKey(Unit(i)) => pc = "forwarded" /\ Unit(i) \subseteq left

\* trace_id_aware: "a downstream backend never sees a partial trace", also when
\* its spans are billed to different keys.
TracesWhole ==
  pc = "forwarded" /\ ByTrace => \A i \in left : Unit(i) \subseteq left

\* "reject the batch instead of forwarding an empty one": the limiter never
\* empties a batch and forwards it, unless the keys of a trace disagree.
NeverEmptied ==
  pc = "forwarded" /\ Separate /\ left = {} => passed = {}

\* "a rule that silently doesn't apply is the worst failure mode": rules_invalid
\* counts at least every document that is neither disabled nor in effect,
\* whether it does not compile or is cut off by max_rules.
RefusalsShow ==
  Cardinality({i \in DOMAIN docs : /\ docs[i].json => docs[i].enabled
                                   /\ ~InEffect(docs, i)}) <= rules.invalid

\* trace_id_aware: "a trace containing any error span is kept in full when
\* PreserveErrors is on".
ErrorTracesKept ==
  pc = "forwarded" /\ ByTrace /\ PreserveErrors =>
    \A i \in passed : batch.items[i].error => Unit(i) \subseteq left
=============================================================================
