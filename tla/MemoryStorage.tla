--------------------------- MODULE MemoryStorage ---------------------------
(***************************************************************************)
(* memoryStorage of storage_memory.go: a map of token buckets shared by    *)
(* the goroutines of one collector.  The map is guarded by ms.mu, every    *)
(* bucket by a mutex of its own.  A goroutine fetches the bucket under     *)
(* ms.mu and uses it after releasing ms.mu, so that the cap eviction and   *)
(* the cleanup loop can drop a bucket from the map while somebody is about *)
(* to use it: the goroutine then takes tokens from a detached bucket.      *)
(*                                                                         *)
(* A goroutine asks for n items, learns what it is granted, and gives back *)
(* what it does not use (RateLimiter.AllowUpToNCtx and AllowNCtx), or it   *)
(* reads the available tokens for the gauge.                               *)
(***************************************************************************)
EXTENDS TokenBucket, FiniteSets, Functions

CONSTANTS
  Procs,       \* goroutines
  Keys,        \* bucket names
  Nobody,      \* no goroutine, no bucket
  Sweeper,     \* the goroutine of cleanupLoop
  Limit,       \* limit of every key, per Period
  Period,      \* ticks in a period
  Requests,    \* batch sizes asked for
  maxBuckets,  \* the hard cap on the map
  maxAge,      \* idle time after which cleanup drops a bucket
  MaxCalls,    \* bound on the number of Storage calls that are begun
  MaxTime      \* bound on the clock

ASSUME MemoryBounds ==
  /\ Period \in Nat \ {0} /\ Limit \in Nat /\ maxBuckets \in Nat \ {0}
  /\ Requests \subseteq Nat \ {0} /\ MaxTime \in Nat

ASSUME MemoryNames ==
  /\ {Nobody, Sweeper} \cap Procs = {} /\ Nobody # Sweeper
  /\ Nobody \notin Keys \X Nat /\ IsFiniteSet(Procs)

\* newStorage passes ten minutes, the longest period is one minute.
ASSUME AgeCoversPeriod == maxAge \in Nat /\ maxAge >= Period

VARIABLES
  now,         \* the clock
  buckets,     \* ms.buckets: name -> address, for the names in the map
  heap,        \* address -> token bucket, for the addresses in use
  lock,        \* who holds ms.mu for writing
  pc, call,    \* goroutine -> where it is, its arguments and its bucket
  seen,        \* the timestamps evictOldestLocked has read so far
  sweep,       \* cleanupLoop: its state and the locals of cleanup
  stopped,     \* stopCh is closed
  calls,       \* history: number of Storage calls begun
  admitted,    \* history: key -> items admitted
  forgiven,    \* history: key -> removals of a bucket that was not full
  detached     \* history: key -> items granted by a detached bucket

map == <<buckets, heap, lock, seen>>
history == <<calls, admitted, forgiven, detached>>
vars == <<now, map, pc, call, sweep, stopped, history>>

\* Addresses are numbered per key: a bucket in the map and one per goroutine
\* are all that can be alive.
Addresses == Keys \X (0 .. Cardinality(Procs))
NoCall == [op |-> "none", ref |-> Nobody]
Waiting == [state |-> "waiting"]

----------------------------------------------------------------------------
\* Buckets that neither the map nor a goroutine refers to are garbage.
Collect(h, m, c) ==
  Restrict(h, DOMAIN h \cap (Range(m) \cup {c[p].ref : p \in Procs}))

\* The bucket at address a is short of tokens: dropping it forgives a debt.
Short(a) == Refilled(heap[a], now) < heap[a].maxTokens

\* The map without the names in gone.
Dropped(gone) == Restrict(buckets, DOMAIN buckets \ gone)
Forgive(gone) ==
  forgiven' = [k \in Keys |->
    forgiven[k] + IF k \in gone /\ Short(buckets[k]) THEN 1 ELSE 0]

Init ==
  /\ now = 0
  /\ buckets = <<>> /\ heap = <<>> /\ lock = Nobody /\ seen = <<>>
  /\ pc = [p \in Procs |-> "idle"] /\ call = [p \in Procs |-> NoCall]
  /\ sweep = Waiting /\ stopped = FALSE /\ calls = 0
  /\ admitted = [k \in Keys |-> 0] /\ forgiven = [k \in Keys |-> 0]
  /\ detached = [k \in Keys |-> 0]

\* The read-locked lookup of getOrCreate for a call c of p, and that of
\* AvailableTokens, which does not create a missing bucket.
Lookup(p, c) ==
  /\ lock = Nobody
  /\ IF c.key \in DOMAIN buckets
     THEN /\ call' = [call EXCEPT ![p] = [c EXCEPT !.ref = buckets[c.key]]]
          /\ pc' = [pc EXCEPT ![p] = "bucket"]
     ELSE IF c.op = "available"
     THEN UNCHANGED <<pc, call>>
     ELSE /\ call' = [call EXCEPT ![p] = c]
          /\ pc' = [pc EXCEPT ![p] = "create"]
  /\ UNCHANGED <<now, map, sweep, stopped, admitted, forgiven, detached>>

Begin(p, op, k, n) ==
  /\ pc[p] = "idle" /\ calls < MaxCalls
  /\ Lookup(p, [op |-> op, key |-> k, n |-> n, ref |-> Nobody])
  /\ calls' = calls + 1

BeginRefund(p) ==
  /\ pc[p] = "refund"
  /\ Lookup(p, call[p])
  /\ UNCHANGED calls

\* A new, full bucket for p's key replaces the names in gone.
Insert(p, gone) ==
  LET k == call[p].key
      free == {i \in 0 .. Cardinality(Procs) : <<k, i>> \notin DOMAIN heap}
      a == <<k, CHOOSE i \in free : \A j \in free : i <= j>>
      m == [x \in (DOMAIN buckets \ gone) \cup {k} |-> IF x = k THEN a ELSE buckets[x]]
      h == [x \in DOMAIN heap \cup {a} |->
              IF x = a THEN NewTokenBucket(Limit, Period, now) ELSE heap[x]] IN
  /\ buckets' = m
  /\ call' = [call EXCEPT ![p].ref = a]
  /\ heap' = Collect(h, m, call')
  /\ pc' = [pc EXCEPT ![p] = "bucket"]
  /\ Forgive(gone)

\* Another goroutine may have created the bucket since the lookup.
RecheckNothing(k) == FALSE
Recheck(k) == k \in DOMAIN buckets

FullLate == Cardinality(DOMAIN buckets) > maxBuckets
Full == Cardinality(DOMAIN buckets) >= maxBuckets

\* The write-locked half of getOrCreate: look again, insert if there is room,
\* or else keep the lock and evict first.
Create(p) ==
  LET k == call[p].key IN
  /\ pc[p] = "create" /\ lock = Nobody
  /\ IF Recheck(k)
     THEN /\ call' = [call EXCEPT ![p].ref = buckets[k]]
          /\ pc' = [pc EXCEPT ![p] = "bucket"]
          /\ UNCHANGED <<buckets, heap, lock, forgiven>>
     ELSE IF Full
     THEN /\ lock' = p /\ pc' = [pc EXCEPT ![p] = "evict"]
          /\ UNCHANGED <<call, buckets, heap, forgiven>>
     ELSE Insert(p, {}) /\ UNCHANGED lock
  /\ UNCHANGED <<now, seen, sweep, stopped, calls, admitted, detached>>

\* evictOldestLocked reads the buckets' timestamps one by one, in the random
\* order of a Go map; other goroutines may use the buckets meanwhile.
Scan(p, k) ==
  /\ pc[p] = "evict" /\ k \in DOMAIN buckets \ DOMAIN seen
  /\ seen' = [x \in DOMAIN seen \cup {k} |->
                IF x = k THEN heap[buckets[k]].lastRefillTime ELSE seen[x]]
  /\ UNCHANGED <<now, buckets, heap, lock, pc, call, sweep, stopped, history>>

target == (maxBuckets * 9) \div 10

\* The heap ends up with the oldest entries; between equal timestamps the
\* order of the scan decides.
Oldest(gone) ==
  /\ Cardinality(gone) = Cardinality(DOMAIN buckets) - target
  /\ \A k \in gone, x \in DOMAIN seen \ gone : seen[k] <= seen[x]

Evict(p, gone) ==
  /\ pc[p] = "evict" /\ DOMAIN seen = DOMAIN buckets
  /\ Oldest(gone)
  /\ Insert(p, gone)
  /\ seen' = <<>> /\ lock' = Nobody
  /\ UNCHANGED <<now, sweep, stopped, calls, admitted, detached>>

\* TokenBucket.AllowUpToN.  The caller decides what it gives back.
Take(p, back) ==
  LET c == call[p]
      g == Granted(heap[c.ref], c.n, now)
      next == IF back > 0 THEN [c EXCEPT !.op = "refund", !.n = back, !.ref = Nobody]
              ELSE NoCall IN
  /\ pc[p] = "bucket" /\ c.op = "allow" /\ back \in 0 .. g
  /\ call' = [call EXCEPT ![p] = next]
  /\ heap' = Collect([heap EXCEPT ![c.ref] = AllowUpToN(@, c.n, now)], buckets, call')
  /\ pc' = [pc EXCEPT ![p] = IF back > 0 THEN "refund" ELSE "idle"]
  /\ admitted' = [admitted EXCEPT ![c.key] = @ + (g - back)]
  /\ detached' = [detached EXCEPT ![c.key] =
                    @ + IF c.ref \in Range(buckets) THEN 0 ELSE g]
  /\ UNCHANGED <<now, buckets, lock, seen, sweep, stopped, calls, forgiven>>

\* TokenBucket.Refund, and the refill that reading the gauge performs.
Finish(p) ==
  LET c == call[p] IN
  /\ pc[p] = "bucket" /\ c.op # "allow"
  /\ call' = [call EXCEPT ![p] = NoCall]
  /\ heap' = Collect([heap EXCEPT ![c.ref] =
                        IF c.op = "refund" THEN Refund(@, c.n)
                        ELSE refillLocked(@, now)], buckets, call')
  /\ pc' = [pc EXCEPT ![p] = "idle"]
  /\ UNCHANGED <<now, buckets, lock, seen, sweep, stopped, history>>

----------------------------------------------------------------------------
\* cleanup: lock the map and read the clock once ...
SweepBegin ==
  /\ sweep = Waiting /\ lock = Nobody
  /\ lock' = Sweeper
  /\ sweep' = [state |-> "sweeping", now |-> now, todo |-> DOMAIN buckets]
  /\ UNCHANGED <<now, buckets, heap, seen, pc, call, stopped, history>>

IdleSwapped(ts) == sweep.now - ts < maxAge
Idle(ts) == sweep.now - ts > maxAge

\* ... read a bucket's age under its mutex ...
SweepRead(k) ==
  LET ts == heap[buckets[k]].lastRefillTime IN
  /\ sweep.state = "sweeping" /\ k \in sweep.todo
  /\ sweep' = IF Idle(ts)
              THEN [state |-> "dropping", now |-> sweep.now, key |-> k, ts |-> ts,
                    todo |-> sweep.todo \ {k}]
              ELSE [sweep EXCEPT !.todo = @ \ {k}]
  /\ UNCHANGED <<now, map, pc, call, stopped, history>>

\* ... and drop it after releasing that mutex.
SweepDelete ==
  /\ sweep.state = "dropping"
  /\ buckets' = Dropped({sweep.key})
  /\ heap' = Collect(heap, buckets', call)
  /\ Forgive({sweep.key})
  /\ sweep' = [state |-> "sweeping", now |-> sweep.now, todo |-> sweep.todo]
  /\ UNCHANGED <<now, lock, seen, pc, call, stopped, calls, admitted, detached>>

SweepEndLocked ==
  /\ sweep.state = "sweeping" /\ sweep.todo = {}
  /\ sweep' = Waiting
  /\ UNCHANGED <<now, map, pc, call, stopped, history>>

SweepEnd ==
  /\ sweep.state = "sweeping" /\ sweep.todo = {}
  /\ lock' = Nobody /\ sweep' = Waiting
  /\ UNCHANGED <<now, buckets, heap, seen, pc, call, stopped, history>>

\* Close, which may be called more than once, and the loop's exit.
Close ==
  /\ stopped' = TRUE
  /\ UNCHANGED <<now, map, pc, call, sweep, history>>

SweepExitBreaks ==
  sweep = Waiting /\ stopped /\ UNCHANGED vars

SweepExit ==
  /\ sweep = Waiting /\ stopped
  /\ sweep' = [state |-> "gone"]
  /\ UNCHANGED <<now, map, pc, call, stopped, history>>

Tick ==
  /\ now < MaxTime
  /\ now' = now + 1
  /\ UNCHANGED <<map, pc, call, sweep, stopped, history>>

Step(p) ==
  \/ BeginRefund(p) \/ Create(p) \/ Finish(p)
  \/ \E k \in Keys : Scan(p, k)
  \/ \E gone \in SUBSET DOMAIN buckets : Evict(p, gone)
  \/ \E back \in 0 .. Limit : Take(p, back)

Sweeping ==
  SweepDelete \/ SweepEnd \/ \E k \in Keys : SweepRead(k)

Next ==
  \/ \E p \in Procs, k \in Keys, n \in Requests : Begin(p, "allow", k, n)
  \/ \E p \in Procs, k \in Keys : Begin(p, "available", k, 0)
  \/ \E p \in Procs : Step(p)
  \/ SweepBegin \/ Sweeping \/ SweepExit \/ Close \/ Tick

\* Goroutines are scheduled, ms.mu is starvation-free (as Go's mutexes are),
\* and a select that finds stopCh closed again and again finally takes it.
Fairness ==
  /\ \A p \in Procs : SF_vars(Step(p))
  /\ WF_vars(Sweeping) /\ SF_vars(SweepExit)

Spec == Init /\ [][Next]_vars /\ Fairness

----------------------------------------------------------------------------
\* Types: the map refers to buckets that exist, and a goroutine has a bucket in hand
\* exactly while it is about to use one (getOrCreate).
TypeOK ==
  /\ now \in 0 .. MaxTime
  /\ DOMAIN buckets \subseteq Keys /\ Range(buckets) \subseteq DOMAIN heap
  /\ DOMAIN heap \subseteq Addresses /\ Range(heap) \subseteq TokenBuckets
  /\ lock \in Procs \cup {Nobody, Sweeper}
  /\ \A p \in Procs : /\ pc[p] \in {"idle", "refund", "create", "evict", "bucket"}
                      /\ pc[p] = "bucket" <=> call[p].ref # Nobody
  /\ DOMAIN seen \subseteq DOMAIN buckets
  /\ sweep.state \in {"waiting", "sweeping", "dropping", "gone"}
  /\ {admitted, forgiven, detached} \subseteq [Keys -> Nat]

\* The map never outgrows its cap, however the creators interleave.
CapRespected == Cardinality(DOMAIN buckets) <= maxBuckets

\* A key's budget is exceeded only by what storage_memory.go knowingly gives
\* up: one burst each time a bucket that is not full is dropped, and what
\* goroutines take from a bucket that was dropped under them.  Two goroutines
\* that create the same bucket, a refund that meets a new bucket, or a
\* cleanup of an idle bucket admit nothing extra.
BudgetBound ==
  \A k \in Keys :
    Period * admitted[k]
      <= Limit * Period * (1 + forgiven[k]) + Limit * now + Period * detached[k]

\* A bucket that others may hold is never silently replaced by another one:
\* it leaves the map first.
NeverReplaced ==
  [][\A k \in DOMAIN buckets \cap DOMAIN buckets' : buckets'[k] = buckets[k]]_vars

\* The cleanup loop drops idle buckets without changing any budget: what it
\* drops is full, unless a goroutine that held the bucket used it after its
\* age was read.
CleanupForgetsNoDebt ==
  [][\A k \in DOMAIN buckets \ DOMAIN buckets' :
       lock = Sweeper =>
         \/ ~Short(buckets[k])
         \/ heap[buckets[k]].lastRefillTime # sweep.ts]_vars

\* Every Storage call returns: neither the eviction scan nor the cleanup loop
\* can block it for ever.
CallsReturn == \A p \in Procs : pc[p] # "idle" ~> pc[p] = "idle"

\* After Close the cleanup goroutine ends.
SweeperLeaves == stopped ~> sweep.state = "gone"
=============================================================================
