# A TLA+ model of the OpenTelemetry collector gateway

The gateway is an OpenTelemetry collector with two processors of its own:

* `statefulfilter` drops spans, logs and data points that match rules kept in
  Redis, which operators edit while the collectors run;
* `ratelimit` limits what each key (a service name, a header or an attribute
  value) may send, with buckets in memory or in Redis.

This directory holds TLA+ modules for the state machines in that code, TLC
configurations that check them on small instances, and proofs that TLAPS checks.
`PROJECT.json` maps every definition to the source lines it stands for, and lists
the runs, the mutants, the hazards and the theorems. `R/` below is
`src/processor/ratelimitprocessor/`, `F/` is `src/processor/statefulfilterprocessor/`.

## Inventory

| Part | State | Operations | Module |
|---|---|---|---|
| Token bucket, `R/ratelimiter.go` | tokens, refill clock | refill, AllowUpToN, Refund | `TokenBucket` |
| Rate limiter, `R/ratelimiter.go` | none; locals of calls in progress | AllowUpToNCtx, AllowNCtx: up to five Storage calls | `LimiterCalls`, `RateLimiter` |
| Memory storage, `R/storage_memory.go` | map of buckets, its lock, a lock per bucket, the sweeper | getOrCreate, cap eviction, cleanup, gauge read, Close | `MemoryStorage` |
| Redis storage, `R/storage_redis.go` | buckets in Redis, scripts under way, negative cache, counters | two Lua scripts, timeout, fail-open or fail-closed | `RedisStorage` |
| Registries, `R/storage_shared.go`, `F/store_shared.go`, factories | reference counts, flags, gauge registrations | acquire, register, load, start, release, close | `StoreRegistry` |
| Rules, `F/rules.go` | none | compile, buildRuleSet, match | `RuleSet` |
| Rule store, `F/store.go`; `src/scripts/filter-rules.sh` | rule hash and version in Redis; snapshot, version and poll counter of each replica | the script's commands; start, refresh, errors | `RuleStore` |
| Data paths and key extraction, `R/processor.go`, `F/processor.go` | the batch, the counters | filter, find the key, bill key by key, drop, reject | `Gateway` |
| Limit resolution, `R/config.go` | none | GetLimit, GlobalLimit, capToShare | `Limits` |
| Rejections and label cap, `R/processor.go`, with clients that retry | keys seen; clients' delays | limitExceededError, metricKey, metricAttrs | `Senders` |

How they interact. A batch passes the filter first, so that what is dropped spends
no budget, and then the limiter (`src/config/otelcol-gateway-statefulfilter.yaml`).
The limiter bills each key through a Storage, which all pipelines of a component
share through a registry; the filter reads a snapshot that the rule store publishes.

What makes this hard to test: budgets are taken and refunded in separate calls,
between which other goroutines run; buckets are used after the lock of the map is
released; scripts reach Redis late, in another order, or never, and their callers
have given up; a rule hash and its version are two keys, written and read one after
the other; pipelines start, stop and are scraped concurrently while a reload builds
the next store; a trace may be billed to several keys; a rejected client comes back,
many times, to buckets that others drain meanwhile. The hazards in
`PROJECT.json` name the lines.

## The modules

`TokenBucket` has the bucket's operations as operators on records. Time is a number
of ticks and one token is `period` units, so that a refill is a whole number. This
abstracts the rounding of float64 and nothing else.

`LimiterCalls` is the control flow of `AllowUpToNCtx` and `AllowNCtx`, as a function
of a call's locals. `RateLimiter` and `RedisStorage` share it.

`RateLimiter` runs goroutines over ideal buckets, one action per Storage call:
`TakeGlobal`, `TakeKey`, `RefundSurplus`, `UndoKey`, `UndoGlobal`. `OpenWindow` is an
observer that begins to count at any moment; the variable `window` is history.

`Budget` is what the limiter promises, without goroutines and calls: budgets lend
tokens, admit items that their key and the global budget both pay for, and take back
what was not spent. `RateLimiter!ImplementsBudget` states that the interleaved calls
implement it; the mapping brings every refill clock up to `now`, and counts as lent
what calls in progress hold.

`MemoryStorage` opens that box for the memory backend. `Lookup` and `Create` are the
two halves of `getOrCreate`, `Scan` and `Evict` the eviction, the `Sweep...` actions
the cleanup loop. A bucket that leaves the map stays in `heap` while a goroutine
refers to it, so that grants from detached buckets are visible.

`RedisStorage` does the same for Redis. `Send` puts a script, stamped with the
replica's clock, into `msgs`; `Execute` runs any of them; `failOpenGrant` and
`RefundFails` are callers that gave up, whose scripts may still run or be lost.

`RuleSet` is pure: documents to rule set, rule set and item to decision. Rule ids are
numbers in the order of `sort.Strings`. The operand of a condition is the set of field
values it selects, which covers `equals`, `contains`, `prefix`, `suffix` and `regex`.
`Muted` is the reference: what a hash promises, without an order of evaluation.

`RuleStore` has each Redis command as a step. A write and its `INCR` are two steps of
the script, which may die between them (`Forget`); Redis may lose its data (`Wipe`);
`refresh` is `ReadVersion` and `Fetch`; any read may fail (`recordError`); replicas
crash and start again.

`Gateway` takes one batch through both processors. What the limiter answers is any
number `RateLimiter` allows. `Bill` is one turn of the loop over keys that all four
functions share; `Finish` is their end. `LimitType` is by attribute or by header; by
header all resources of a batch have one key, and what has no value has the default key.

`Limits` computes a key's limit from a configuration, in the order of precedence of
`GetLimit`. `max_share_ratio` is a fraction, so that products and comparisons are exact
where the code has float64; both truncate.

`Senders` composes `Limits` and `LimiterCalls` with the end of the data path: clients
send batches of one key, are answered, wait for as long as `RetryInfo` says and send the
same batch again. The clients are external. Buckets refill as time passes rather than at
the next use, which by `ImplementsBudget` makes no difference to what is granted, and
delays count down, so that retrying for ever takes finitely many states.

`StoreRegistry` has one action for everything done under the registry's mutex, and
separate ones for loading, starting, unregistering and closing, which are outside.
It follows the filter's registry; the limiter's is the same without a refresh loop.

`Totals` is a sum that TLC can evaluate and the provers can reason about. The `MC...`
modules give the constants their values.

## The runs

| Run | Question | Distinct states |
|---|---|---|
| `limiter` | Do take-then-refund sequences keep to the budgets and lose nothing? | 490 000 |
| `memory` | Do lookups, creations, evictions and sweeps keep the cap and the budgets? | 1 430 000 |
| `memory_live` | Does every call return, and the sweeper end? | 140 000 |
| `redis` | What can a fleet admit when scripts are late or lost, are tokens lost by anything but failed calls, and how long does a cached denial last? | 3 810 000 |
| `rulestore` | Do rules reach the replicas, and stay? | 720 000 |
| `gateway` | Is every batch filtered, billed, counted and cut correctly, and do refused rules show? | 530 000 |
| `registry` | Is the shared store used only while open, and closed with its last user? | 29 000 |
| `senders` | Do rejected clients get through, with honest delays, fair limits and stable labels? | 105 000 |

Four more runs check what a comment of the code claims and find it violated.

* `redis_order`: "no race between refill and consume" (`R/storage_redis.go:93`). The
  script stores its stamp even when an older one arrives later, and the same interval
  is refilled again. `FleetBound` says by how much.
* `failopen`: "exactly how much traffic bypassed the limit" (`R/storage_redis.go:209`).
  A batch that fails open at both buckets is counted twice.
* `error_traces`: "a trace containing any error span is kept in full"
  (`R/config.go:75`). Not if its spans are billed to two keys. `ErrorsKept` holds for
  traces within one key, `TracesWhole` for all.
* `retries`: "data is delayed rather than lost" (`R/config.go:138`). With
  `trace_id_aware`, tokens granted for a trace that does not fit stay spent, and the
  delay is clamped to 30 s. At two spans per minute a trace of two spans is told to come
  back after half a minute, spends the one token that was refilled, is rejected, and so
  on for ever. A client that waits out the minute gets through.
  `RejectedGetThrough` holds for spans and metrics.

One more disagreement is among the documents, and no run can agree with them all. In
monitor mode (`drop_on_limit: false`) the excess is forwarded; is it `allowed`?
`R/README.md:278`, `R/docs/internal-telemetry.md:32-36` and the comment at
`R/processor.go:665` say that `received = allowed + denied` in both modes and that the
excess is in `denied` only. `R/docs/testing.md:141` and `:155`, `R/README.md:486` and the
`monitor_mode` scenario of `R/e2e/scenarios.yaml` (`allowed_min: 50` of about 60 spans, far
over the limit) say that it is counted as denied *and* allowed, `allowed` being about
`received`. The code does the former, and `Accounted` states it for both modes, together
with what the latter are after: in monitor mode everything received is forwarded.

### What the properties leave open

* `NothingLost` counts all admissions since the start, so it says nothing more of a bucket
  from which its whole capacity was admitted once; and it excuses whatever a failed call
  asked for. Of a refund that is lost, or a take that runs after its timeout, it says only
  that the items of that call, and no others, may be missing.
* In `CachedDenials` the cooldown begins when the script runs. The reply's own delay, at
  most the timeout, comes on top; in the model reply and script are one step.
* Deadlock is checked in every run, but shows something only where no action is always
  possible, as in `redis` and `gateway`. In `memory` and `memory_live` that is `Close`, in
  `senders` a tick, in `registry` a scrape while gauges are registered, in `rulestore` a poll,
  and in `limiter` an idle goroutine's next batch. There it is the liveness properties (in
  `limiter`, `CallsEnd` and the absence of locks) that speak of getting stuck.

### Bounds

* `limiter`: two goroutines, two keys whose limits add up to more than the global one,
  batches smaller and larger than every bucket, two ticks to a token so that fractions
  occur, and one tick.
* `memory`: three keys for a cap of two; two goroutines; four calls, which is one more
  than it takes to fill the map and evict; time for a bucket to become idle. The
  liveness run has a cap of one, a clock that stands still (locks, not ages, decide
  whether calls return), and no symmetry, which would be unsound there.
* `redis`: two replicas with a goroutine each and equal clocks, three batches larger
  than the key's limit, so that every refund path is taken, one failed call, and a
  script left behind by a sender that goes on to its next call. A key expires within
  the bounds. `MaxErrors` bounds early failures only: a call whose script is overdue can
  always fail, so that nobody waits for ever. Clock skew is a parameter that the runs
  set to zero: late scripts already turn refill clocks back, and a skew loosens
  `FleetBound` by so much that this few batches could not break it.
* `rulestore`: one replica, since replicas do not interact; two writers, so that
  writes and `INCR`s interleave; two writes and a loss of data, a resync period of
  three, one restart; `max_rules` one, so that the cap bites; a document that is a rule and
  one that is not JSON.
* `gateway`: all batches of up to two items in up to two resources, for each signal,
  of one key or two, and batches of three spans; rule hashes with keep and drop rules
  in either order, expired, disabled and refused ones, and a rule behind the cap. By
  header, where keys cannot differ, batches of up to two items.
* `registry`: three pipelines, two generations of stores, one failed construction.
* `senders`: two clients with two new batches each and any number of retries; every
  pair of spans, metrics and traces, of one key or two; limits per key and minute, a
  share of a global budget in another period, a global budget alone, a share of less
  than one item with permanent rejections, and a limit that is only monitored; one
  label, a list, or no cap. A second is one tick, a minute four and the longest delay
  two, so that it is, as in the code, half a minute. The constant `Variants` has `Shares`
  evaluated for 432 variants of each configuration.

`Exhausted` and `Done` are the states in which the bounds, or the batch, are used up.

### Fairness

* `MemoryStorage`: strong fairness for a goroutine's steps, because Go's mutexes do not
  starve waiters; weak fairness for the sweeper inside `cleanup`; strong fairness for
  its exit, because `select` chooses at random among ready cases. Calls need not begin.
* `RuleStore`: a replica that is gone is started again; its two reads succeed now and
  then (strong fairness), although any one may fail. Operators' scripts have none.
* `StoreRegistry`: a shutdown goes on, a callback ends, and `Unregister` gets the lock
  it waits for. Nothing makes a pipeline shut down.
* `Senders`: time passes, a request that is being served goes on, and a client retries
  when its delay is over (weak fairness; the last is what the OTLP specification asks of
  exporters). No client need send anything new, and each sends finitely many new
  batches: with an endless supply from others, a metrics batch, which needs all its
  tokens at once, may be kept out for ever.
* `Gateway` has weak fairness of its next step; its properties do not depend on it.

## The proofs

Every invariant and every action property that a passing run checks is also proved, for
any number of goroutines, replicas, clients, pipelines, keys and rules, and any limits. The
theorems marked with a dash state more than a run checks; their statements are in the
proof modules.

| Module | Theorem | Property |
|---|---|---|
| `RateLimiterProofs` | `TypeCorrect`, `BurstBounded`, `NeverDrained` | `TypeOK`, `BurstBound`, `NothingDrained` |
| | `Implementation` | `ImplementsBudget` |
| | `CallsEnd` | – a batch makes its Storage calls in order, at most five |
| `MemoryStorageProofs` | `Types`, `CapKept`, `NotReplaced` | `TypeOK`, `CapRespected`, `NeverReplaced` |
| | `BudgetKept`, `CleanupHarmless` | `BudgetBound`, `CleanupForgetsNoDebt` |
| | `HolderIsFree` | – who holds the lock of the map can always go on |
| `RedisStorageProofs` | `Types`, `FleetBudget` | `TypeOK`, `FleetBound` |
| | `NothingIsLost`, `DenialsAreFresh` | `NothingLost`, `CachedDenials` |
| | `RewindIsBounded` | – how far one script can turn a refill clock back |
| | `OneClock` | – `NoRefillRace`, and a strict budget, with one clock and no delays |
| `RuleStoreProofs` | `Types`, `VersionIsEnough`, `ResyncBound` | `TypeOK`, `VersionCovers`, `StaleForAtMost` |
| | `NeverOpen`, `StaysStale` | `FailClosed`, `FailStale` |
| | `VersionMeansRules` | – the current version means the rules in Redis |
| `StoreRegistryProofs` | `Types`, `SharesOneStore` | `TypeOK`, `OneStore` |
| | `NeverAfterClose`, `LastCloses` | `NoUseAfterClose`, `ClosedWithTheLast` |
| | `NoComeback` | – a store that left the registry is only wound down |
| `GatewayProofs` | `Types`, `NoSilentRefusal`, `KeepRulesWin` | `TypeOK`, `RefusalsShow`, `KeepWins` |
| | `Accounts`, `ForwardedIsPaid`, `RejectionIsFree` | `Accounted`, `PaidAndCounted`, `RejectedIsFree` |
| | `ErrorsComeThrough`, `NoPartialTrace`, `NothingEmptyForwarded` | `ErrorsKept`, `TracesWhole`, `NeverEmptied` |
| `SendersProofs` | `FairShareHolds`, `SharesAreFair` | `FairShare` in every configuration, `Shares` |
| | `Types`, `DelayIsHonest`, `SeriesAreStable` | `TypeOK`, `DelayCovers`, `SeriesStable` |

`AccountingProofs` has what these share: least numbers and induction over a set of
numbers, sums (`Total`) when one term changes, a term is added or terms shrink, products,
and the bucket's operators (a grant never overdraws, a refund is cut only when the bucket
is full, a tick adds at most the refill rate).

**The rate limiter.** Assumed: finitely many goroutines, the global bucket's name is no
key, limits are natural numbers, the period is positive, batches are not empty. Neither
property is inductive: a refund is only known to be harmless if it is known who still
holds what. The inductive invariant therefore adds, for each phase of a call, how its
locals are related (a key never granted more than the global bucket did, and so on),
and two inequalities about `Stock`, a bucket's tokens together with all that calls in
progress hold of it: from above, stock and admissions never exceed what the window
began with plus the refill; from below, they never fall short of it. Each Storage call
moves tokens between the bucket, `Held` and `admitted`. The refinement is a step
simulation under the same invariant, which is what says that a call returns no more than
it holds and that what is admitted was lent by the global budget: a take that grants
something is a `Lend` or an `Admit`, a refund a `Return`, a tick a `Refill`, and
everything else a stutter. `CallsEnd` is the safe half of "calls return": each Storage call
takes its batch strictly forward, and no step of another goroutine moves it.

**The memory storage.** Assumed: finitely many goroutines, of which the sweeper is none;
`max_buckets`, the period and batch sizes are positive; an idle bucket is dropped after a
period at the earliest (`newStorage` passes ten minutes, the longest period is one). The
cap is inductive with the facts that who evicts has the write lock and a key without a
bucket, and that the sweeper has the lock while it sweeps. The budget needs more: a
bucket on the heap is in the map or in some goroutine's hands, and was made for its key;
what the sweeper has read of a bucket is true until it drops it, unless someone used the
bucket meanwhile; and, for each key, what was admitted or is on its way back as a refund,
together with what the bucket in the map is worth now (`Solvent`), stays within one
burst per forgiven debt, the refill and what detached buckets granted. A bucket that is
missing counts as full, so that creating one changes nothing, and so that dropping an
idle one changes nothing either, because by then it is full. `HolderIsFree` is the safe
half of "the lock is released": it adds that the lock is kept across steps only by an
eviction, in a map that is full, and by the sweeper; that there are as many oldest
timestamps as the eviction asks for is an induction on their number.

**The Redis storage.** Assumed: finitely many goroutines; the names are distinct; clocks
are ahead by at most `MaxSkew`; a key in Redis outlives its last write by a period, the
longest delay of a script and the skew together (the code keeps it for ten periods). A
script's effect and its caller's knowledge of it are apart, so the invariant keeps two
ledgers for each bucket. `Solvent` bounds from above what was taken: `Claims` are the
items admitted, held by calls, or in refund scripts that nobody waits for any more; with
the bucket's tokens they stay within its capacity, the refill up to its refill clock, the
ticks that clock was turned back, and what failed open. A bucket that has expired has had
the time to be full. `Complete` bounds from below what is missing: failures outweigh
the allow scripts that were given up (`Backed`), and tokens, admissions, holdings and
failures together make up the capacity. Each step moves items between these terms;
a caller that gives up moves its script from the awaited to the late ones, where it may
still run, or be lost. The rest of the invariant says that a script that is waited for is
the one its sender is at. Since a refill clock is never ahead of the fastest replica, and a
script that runs is at most `MaxDelay` old, one script turns the clock back by at most
`MaxDelay + MaxSkew`. Where both are zero nothing is refilled twice: `OneClock` says under
which conditions the claim that `redis_order` refutes does hold. For `CachedDenials` the same
fact about awaited scripts says that what a replica caches is the bucket its script was
about, and a script that granted nothing left less than a token.

**The rule store.** Assumed: `full_resync_every` and the bounds are natural numbers, there
are finitely many writers, and `None` is none. The invariant adds that neither the version
a snapshot carries nor the one a refresh has read and not yet used is ahead of Redis. A
replica is then level with the current version only if it read the version after the last
`INCR`, and the hash after that, hence after every write that `INCR` covers. For the
resync bound it adds that missed polls are among those counted by `pollsSinceFull`. Who
has seen all writes has the rules in Redis (`Seen`), which makes the version mean them. That
the version stays within the writes needs a count of the writers whose `INCR` is pending.

**The registries.** Assumed: finitely many pipelines. The invariant says what the
reference count counts (the handles in use and those lost by failed constructions), that a
store is taken down by one pipeline after it left the registry, and that whatever is open,
polls or is observed is owned by the registry or by that pipeline, up to the step that
ends it. So a pipeline that still starts can only start the store in the registry, and
`NoComeback` follows.

**The data path.** Assumed (`GatewayInputs`): items lie in resources of their batch, the
keys of resources and headers are keys or missing, only logs have bodies, the rule hash is
finite. The limiter's answer is any the limiter may give. The invariant says that the loop
has booked the keys it has billed and no others, each with some answer of the limiter, and
that the traces to drop are those that the plans of these keys drop; the properties
then speak of the one step that ends the batch. Two facts about data are proved on the
way: that the rules which `buildRuleSet` loads before `max_rules` ends its loop are those in
effect, and that the running count of `planTraceDrops` never exceeds the
grant, by induction over the spans.

**Limits and senders.** Assumed: periods are positive, the ratio is not negative, batches
are not empty, delays are natural numbers. Each alternative of `GetLimit` is shown to be
void or good (positive and within the share, or one item), and `OrElse` to keep that;
configured numbers may be any integers, negative ones included. For the delay the
invariant needs little else than types: the division in `limitExceededError` rounds up, a
tick takes one from the delay and puts as much into the bucket, unless the bucket is full
and holds the batch anyway, and whoever else draws from the bucket leaves a mark. For the
series it says that a label is settled when it is first exported: by the list, because the
key is now among the keys seen, or because there is no room left, and keys are never
forgotten.

What the proofs changed in the models: assumptions about constants that had been tacit
are stated (`GatewayInputs`, `MemoryBounds`, `MemoryNames`, `RedisNumbers`, `RedisNames`,
`TTLCovers`, `SendersInputs`), so that TLC evaluates them in the runs; the running count of
`planTraceDrops` is a definition of its own, `keptSpans`; and the configurations `Shares`
ranges over are a constant of `Senders`, so that the theorem is about any of them.

Only model-checked: liveness (`CallsReturn`, `SweeperLeaves`, `Converges`, `ShutdownEnds`,
`RejectedGetThrough`), because fairness and `ENABLED` are out of the prover's reach; and
the counterexamples of the four violation runs.

## Not modelled

The throttle of log lines (a counter under a mutex whose only effect is a log line),
configuration parsing, defaults and validation, TLS and connection set-up, retries inside
the Redis client, scopes within a resource, metrics of unknown type (the filter leaves them,
and with them their resource, alone), upstream collector components, and everything
generated or concerned with deployment. The reasons are in `PROJECT.json`. Of the
rejection error the mode and the delay are modelled, not status codes and texts.

Behaviours the model or the code shows and no property rules out. Of the first two the
documents promise the contrary; of the others, as far as we found, nothing does unless it is
said:

* With `trace_id_aware` a batch whose traces are dropped by the plans of different keys
  may be forwarded empty, and `allowed` then counts spans that were not forwarded.
  `R/docs/metrics.md:12` has "Items that passed to the next pipeline stage" for `allowed`,
  and `R/docs/internal-telemetry.md:25` "Items forwarded downstream". `PaidAndCounted`
  states that for traces within one key, in drop mode.
* Spans, logs and traces are granted in part (`AllowUpToNCtx`), and a batch loses only its
  excess. `R/README.md:233` ("the whole batch is denied") and `R/e2e/scenarios.yaml:21-23`
  say that a batch is "evaluated atomically with `AllowN`"; that is so of metrics only.
* `AllowNCtx` is "atomic in effect" (`R/ratelimiter.go:162`) in that nothing stays spent;
  but until it refunds, what it holds is missing to others, and two batches may deny each
  other. `Budget` lends tokens for that reason.
* `RetryInfo` looks at the key's limit and not at the global bucket.
* A metrics batch, or a trace, larger than its limit can never be admitted; it is
  rejected with a delay, and retried, for ever.
* A share of less than one item per period is rounded up to one, so that shares may add
  up to more than the global budget, which still holds.
* The label cap holds for each signal's processor: three pipelines may label three times
  `max_metric_keys` keys. The comment on `metrics_key_allowlist` says that an empty list
  is unbounded; `max_metric_keys` bounds it, at 100 by default.
* `enable` and `disable` undo an edit made between their read and their write.
* `buildRuleSet` counts rejected documents before the cap once more when it reaches it,
  and disabled ones behind it; `RefusalsShow` says that it never counts too few.
* A construction that fails leaves its handle unreleased, whether the constructor or, with
  the gauges registered, `processorhelper` returns the error (`ClosedWithTheLast` excludes
  that case).
* `enable` and `disable` of a document that jq cannot parse replace it by an empty one.

## Plan

Done: the modules above, and proofs of all their safety properties. Next:

1. the memory storage as an implementation of `Budget` while nothing is evicted;
2. a run of `RedisStorage` with skewed clocks that is large enough for the bound to be
   reached.
