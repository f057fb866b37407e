------------------------ MODULE MemoryStorageProofs ------------------------
(***************************************************************************)
(* The bucket map stays within its cap, no bucket in it is replaced, and   *)
(* nobody is admitted more than the budget and what the map knowingly      *)
(* gives up, for any number of goroutines and keys.                        *)
(***************************************************************************)
EXTENDS MemoryStorage, AccountingProofs

\* Who evicts has the write lock of the map, and its key has no bucket yet.
Evictor ==
  \A p \in Procs : pc[p] = "evict" => lock = p /\ call[p].key \notin DOMAIN buckets

\* So has the cleanup loop from the first bucket it reads to the last.
SweepsLocked == sweep.state \in {"sweeping", "dropping"} => lock = Sweeper

IInv ==
  /\ DOMAIN pc = Procs /\ DOMAIN call = Procs
  /\ IsFiniteSet(DOMAIN buckets) /\ CapRespected
  /\ Evictor /\ SweepsLocked

\* What NeverReplaced asks of one step.
Stays == \A k \in DOMAIN buckets \cap DOMAIN buckets' : buckets'[k] = buckets[k]

----------------------------------------------------------------------------
LEMMA NothingMapped == DOMAIN <<>> = {}
OBVIOUS

\* Of a finite set with timestamps there are any number of oldest elements.
LEMMA OldestExist ==
  ASSUME NEW S, IsFiniteSet(S), NEW f, \A x \in S : f[x] \in Nat,
         NEW n \in Nat, n <= Cardinality(S)
  PROVE  \E T \in SUBSET S : /\ IsFiniteSet(T) /\ Cardinality(T) = n
                             /\ \A k \in T, x \in S \ T : f[k] <= f[x]
<1> DEFINE Good(m, T) == /\ IsFiniteSet(T) /\ Cardinality(T) = m
                         /\ \A k \in T, x \in S \ T : f[k] <= f[x]
           Q == {m \in Nat : m <= Cardinality(S) => \E T \in SUBSET S : Good(m, T)}
<1>0. Cardinality(S) \in Nat
  BY FS_CardinalityType, Zenon
<1>1. 0 \in Q
  <2>1. {} \in SUBSET S /\ Good(0, {})
    BY FS_EmptySet, Zenon
  <2>2. QED
    BY <2>1
<1>2. ASSUME NEW m \in Nat, m \in Q PROVE m + 1 \in Q
  <2>0. m + 1 \in Nat
    OBVIOUS
  <2> SUFFICES ASSUME m + 1 <= Cardinality(S) PROVE \E T \in SUBSET S : Good(m + 1, T)
    BY <2>0, Zenon
  <2>1. m <= Cardinality(S) /\ m # Cardinality(S)
    BY <1>0
  <2>2. PICK T \in SUBSET S : Good(m, T)
    BY <1>2, <2>1, Zenon
  <2>3. S \ T # {}
    BY <2>1, <2>2, Zenon
  <2>4. PICK x \in S \ T : \A y \in S \ T : f[x] <= f[y]
    <3> DEFINE V == {f[y] : y \in S \ T}
    <3>1. V \in SUBSET Nat /\ V # {}
      BY <2>3, Zenon
    <3>2. PICK v \in V : \A w \in V : v <= w
      BY <3>1, LeastNumber, Zenon
    <3>3. QED
      BY <3>2, Zenon
  <2>5. IsFiniteSet(T \cup {x}) /\ Cardinality(T \cup {x}) = m + 1
    BY <2>2, <2>4, FS_AddElement, Zenon
  <2>6. \A k \in T \cup {x}, y \in S \ (T \cup {x}) : f[k] <= f[y]
    BY <2>2, <2>4, Zenon
  <2>7. QED
    BY <2>4, <2>5, <2>6, Zenon
<1>3. n \in Q
  <2> HIDE DEF Q
  <2>1. Nat \subseteq Q
    BY <1>1, <1>2, SetInduction, Zenon
  <2>2. QED
    BY <2>1, Zenon
<1>4. QED
  BY <1>3, Zenon

LEMMA EvictsSome ==
  ASSUME NEW c \in Nat, c >= maxBuckets
  PROVE  c - target \in Nat /\ c - target <= c /\ c - target # 0
BY MemoryBounds DEF target

LEMMA LocksInit ==
  ASSUME Init
  PROVE  IInv
<1>1. DOMAIN buckets = {}
  BY NothingMapped, Zenon DEF Init
<1> QED
  BY <1>1, FS_EmptySet, MemoryBounds
  DEF Init, IInv, CapRespected, Evictor, SweepsLocked, Waiting

\* Creating, evicting and sweeping respect each other's locks.
LEMMA LocksStep ==
  ASSUME IInv, [Next]_vars
  PROVE  IInv' /\ Stays
<1> USE DEF IInv
\* A bucket for p's key comes in, the buckets of gone go.
<1>1. ASSUME NEW p \in Procs, NEW gone \in SUBSET DOMAIN buckets, Insert(p, gone)
      PROVE  /\ DOMAIN buckets' = (DOMAIN buckets \ gone) \cup {call[p].key}
             /\ DOMAIN pc' = Procs /\ DOMAIN call' = Procs
             /\ pc'[p] = "bucket"
             /\ \A q \in Procs \ {p} : pc'[q] = pc[q] /\ call'[q] = call[q]
             /\ call[p].key \notin DOMAIN buckets => Stays
  BY <1>1, Zenon DEF Insert, Stays
\* Steps of p other than those that begin to evict or change the map.
<1>2. ASSUME NEW p \in Procs, pc[p] # "evict" \/ UNCHANGED <<pc, call>>,
             \/ UNCHANGED pc
             \/ \E l \in {"idle", "refund", "create", "bucket"} : pc' = [pc EXCEPT ![p] = l],
             UNCHANGED call \/ \E c : call' = [call EXCEPT ![p] = c],
             UNCHANGED <<buckets, lock, sweep>>
      PROVE  IInv' /\ Stays
  <2>1. DOMAIN pc' = Procs /\ DOMAIN call' = Procs
    BY <1>2, Zenon
  <2>2. \A q \in Procs : pc'[q] = "evict" => pc[q] = "evict" /\ call'[q] = call[q]
    BY <1>2, Zenon
  <2> QED
    BY <2>1, <2>2, <1>2, Zenon DEF CapRespected, Evictor, SweepsLocked, Stays
<1>3. ASSUME NEW p \in Procs, NEW c, Lookup(p, c), pc[p] # "evict" PROVE IInv' /\ Stays
  <2>1. \/ UNCHANGED pc
        \/ \E l \in {"idle", "refund", "create", "bucket"} : pc' = [pc EXCEPT ![p] = l]
    BY <1>3, Zenon DEF Lookup
  <2>2. UNCHANGED call \/ \E d : call' = [call EXCEPT ![p] = d]
    BY <1>3, Zenon DEF Lookup
  <2> QED
    BY <2>1, <2>2, <1>2, <1>3, Zenon DEF Lookup, map
<1>4. ASSUME NEW p \in Procs, Create(p) PROVE IInv' /\ Stays
  <2>1. CASE call[p].key \in DOMAIN buckets
    <3>1. \E d : call' = [call EXCEPT ![p] = d]
      BY <1>4, <2>1, Zenon DEF Create, Recheck
    <3> QED
      BY <3>1, <1>2, <1>4, <2>1, Zenon DEF Create, Recheck
  <2>2. CASE call[p].key \notin DOMAIN buckets /\ Full
    <3>1. /\ lock = Nobody /\ lock' = p /\ pc' = [pc EXCEPT ![p] = "evict"]
          /\ UNCHANGED <<call, buckets, sweep>>
      BY <1>4, <2>2, Zenon DEF Create, Recheck
    <3>2. \A q \in Procs : pc[q] # "evict"
      BY <3>1, MemoryNames, Zenon DEF Evictor
    <3> QED
      BY <3>1, <3>2, <2>2, MemoryNames, Zenon DEF CapRespected, Evictor, SweepsLocked, Stays
  <2>3. CASE call[p].key \notin DOMAIN buckets /\ ~Full
    <3>1. Insert(p, {}) /\ lock = Nobody /\ UNCHANGED <<lock, sweep>>
      BY <1>4, <2>3, Zenon DEF Create, Recheck
    <3>2. \A q \in Procs : pc[q] # "evict"
      BY <3>1, MemoryNames, Zenon DEF Evictor
    <3>3. /\ DOMAIN buckets' = DOMAIN buckets \cup {call[p].key}
          /\ IsFiniteSet(DOMAIN buckets')
          /\ Cardinality(DOMAIN buckets') = Cardinality(DOMAIN buckets) + 1
      <4>1. DOMAIN buckets' = DOMAIN buckets \cup {call[p].key}
        BY <3>1, <1>1
      <4> QED
        BY <4>1, <2>3, FS_AddElement, Zenon
    <3>4. CapRespected'
      BY <3>3, <2>3, MemoryBounds, FS_CardinalityType DEF CapRespected, Full
    <3> QED
      BY <3>1, <3>2, <3>3, <3>4, <1>1, <2>3, Zenon DEF Evictor, SweepsLocked
  <2> QED
    BY <2>1, <2>2, <2>3, Zenon
<1>5. ASSUME NEW p \in Procs, NEW gone \in SUBSET DOMAIN buckets, Evict(p, gone)
      PROVE  IInv' /\ Stays
  <2>1. /\ Insert(p, gone) /\ pc[p] = "evict" /\ lock = p /\ lock' = Nobody
        /\ call[p].key \notin DOMAIN buckets /\ UNCHANGED sweep
        /\ Cardinality(gone) = Cardinality(DOMAIN buckets) - target
    BY <1>5, Zenon DEF Evict, Oldest, Evictor
  <2>2. IsFiniteSet(gone) /\ Cardinality(gone) \in Nat /\ Cardinality(DOMAIN buckets) \in Nat
    BY FS_Subset, FS_CardinalityType, Zenon
  <2>3. target \in Nat /\ target + 1 <= maxBuckets
    BY MemoryBounds DEF target
  <2>4. /\ IsFiniteSet(DOMAIN buckets \ gone)
        /\ Cardinality(DOMAIN buckets \ gone) = target
    <3>1. DOMAIN buckets \cap gone = gone
      BY Zenon
    <3>2. /\ IsFiniteSet(DOMAIN buckets \ gone)
          /\ Cardinality(DOMAIN buckets \ gone)
               = Cardinality(DOMAIN buckets) - Cardinality(gone)
      BY <3>1, <2>2, FS_Difference
    <3> QED
      BY <3>2, <2>1, <2>2, <2>3
  <2>5. IsFiniteSet(DOMAIN buckets') /\ CapRespected'
    <3>1. DOMAIN buckets' = (DOMAIN buckets \ gone) \cup {call[p].key}
      BY <2>1, <1>1, Zenon
    <3>2. /\ IsFiniteSet(DOMAIN buckets')
          /\ Cardinality(DOMAIN buckets') = target + 1
      <4>1. call[p].key \notin DOMAIN buckets \ gone
        BY <2>1, Zenon
      <4>2. /\ IsFiniteSet((DOMAIN buckets \ gone) \cup {call[p].key})
            /\ Cardinality((DOMAIN buckets \ gone) \cup {call[p].key})
                 = Cardinality(DOMAIN buckets \ gone) + 1
        BY <4>1, <2>4, FS_AddElement, Zenon
      <4> QED
        BY <4>2, <3>1, <2>4, Zenon
    <3> QED
      BY <3>2, <2>3, Zenon DEF CapRespected
  <2>6. \A q \in Procs : pc'[q] # "evict"
    BY <2>1, <1>1, Zenon DEF Evictor
  <2> QED
    BY <2>1, <2>5, <2>6, <1>1, MemoryNames, Zenon DEF Evictor, SweepsLocked
<1>6. ASSUME NEW p \in Procs, Step(p) PROVE IInv' /\ Stays
  <2>1. CASE BeginRefund(p)
    BY <2>1, <1>3, Zenon DEF BeginRefund
  <2>2. CASE Finish(p)
    BY <2>2, <1>2, Zenon DEF Finish
  <2>3. ASSUME NEW k \in Keys, Scan(p, k) PROVE IInv' /\ Stays
    BY <2>3, <1>2, Zenon DEF Scan
  <2>4. ASSUME NEW back \in 0 .. Limit, Take(p, back) PROVE IInv' /\ Stays
    <3>1. /\ \E d : call' = [call EXCEPT ![p] = d]
          /\ \E l \in {"idle", "refund", "create", "bucket"} : pc' = [pc EXCEPT ![p] = l]
      BY <2>4, Zenon DEF Take
    <3> QED
      BY <3>1, <2>4, <1>2, Zenon DEF Take
  <2> QED
    BY <1>6, <1>4, <1>5, <2>1, <2>2, <2>3, <2>4, Zenon DEF Step
<1>7. CASE SweepBegin
  BY <1>7, MemoryNames, Zenon DEF SweepBegin, CapRespected, Evictor, SweepsLocked, Stays
<1>8. ASSUME NEW k \in Keys, SweepRead(k) PROVE IInv' /\ Stays
  BY <1>8, Zenon DEF SweepRead, map, CapRespected, Evictor, SweepsLocked, Stays
<1>9. CASE SweepDelete
  <2>1. lock = Sweeper /\ UNCHANGED <<lock, pc, call>>
    BY <1>9, Zenon DEF SweepDelete, SweepsLocked
  <2>2. DOMAIN buckets' \subseteq DOMAIN buckets /\ Stays
    BY <1>9, Zenon DEF SweepDelete, Dropped, Restrict, Stays
  <2>3. IsFiniteSet(DOMAIN buckets') /\ CapRespected'
    BY <2>2, FS_Subset, FS_CardinalityType, MemoryBounds DEF CapRespected
  <2> QED
    BY <2>1, <2>2, <2>3, MemoryNames, Zenon DEF Evictor, SweepsLocked
<1>10. CASE SweepEnd
  BY <1>10, MemoryNames, Zenon DEF SweepEnd, Waiting, CapRespected, Evictor, SweepsLocked, Stays
<1>11. CASE SweepExit
  BY <1>11, Zenon DEF SweepExit, map, CapRespected, Evictor, SweepsLocked, Stays
<1>12. CASE Close \/ Tick \/ UNCHANGED vars
  BY <1>12, Zenon DEF Close, Tick, vars, map, CapRespected, Evictor, SweepsLocked, Stays
<1>13. ASSUME NEW p \in Procs, NEW op, NEW k, NEW n, Begin(p, op, k, n)
       PROVE  IInv' /\ Stays
  BY <1>13, <1>3, Zenon DEF Begin
<1> QED
  BY <1>6, <1>7, <1>8, <1>9, <1>10, <1>11, <1>12, <1>13, Zenon DEF Next, Sweeping

LEMMA Locks ==
  Spec => []IInv
BY LocksInit, LocksStep, PTL DEF Spec

\* getOrCreate keeps the map within max_buckets, as creations, evictions and
\* sweeps interleave.
THEOREM CapKept == Spec => []CapRespected
<1>1. IInv => CapRespected
  BY Zenon DEF IInv
<1>2. QED
  BY <1>1, Locks, PTL

\* getOrCreate never puts a bucket in the place of another: what the read under
\* the read lock missed is looked up again under the write lock.
THEOREM NotReplaced == Spec => NeverReplaced
<1>1. IInv /\ [Next]_vars => Stays
  BY LocksStep, Zenon
<1>2. QED
  BY <1>1, Locks, PTL DEF Spec, NeverReplaced, Stays

----------------------------------------------------------------------------
Requested ==
  [op : {"allow", "refund", "available"}, key : Keys, n : Nat, ref : Addresses \cup {Nobody}]

\* A goroutine between its calls has none; one that is about to use a bucket has
\* a bucket of its key.
CallOK(p) ==
  /\ pc[p] \in {"idle", "refund", "create", "evict", "bucket"}
  /\ IF pc[p] = "idle" THEN call[p] = NoCall ELSE call[p] \in Requested
  /\ pc[p] = "refund" => call[p].op = "refund"
  /\ IF pc[p] = "bucket" THEN call[p].ref \in DOMAIN heap /\ call[p].ref[1] = call[p].key
     ELSE call[p].ref = Nobody

\* A bucket of this configuration that was last refilled in the past.
BucketOK(tb) ==
  Sane(tb, now) /\ tb.maxTokens = Limit * Period /\ tb.refillRate = Limit /\ tb.unit = Period

\* Every bucket is in the map, under its key, or in some goroutine's hands.
HeapOK ==
  /\ DOMAIN heap \subseteq Addresses /\ \A a \in DOMAIN heap : BucketOK(heap[a])
  /\ \A a \in DOMAIN heap : a \in Range(buckets) \cup {call[p].ref : p \in Procs}
  /\ DOMAIN buckets \subseteq Keys
  /\ \A k \in DOMAIN buckets : buckets[k] \in DOMAIN heap /\ buckets[k][1] = k

\* What the loop of cleanup has read holds until it has dropped the bucket; and
\* only an eviction has timestamps.
SweepOK ==
  /\ sweep.state \in {"waiting", "sweeping", "dropping", "gone"}
  /\ sweep.state = "sweeping" =>
       /\ sweep = [state |-> "sweeping", now |-> sweep.now, todo |-> sweep.todo]
       /\ sweep.now \in Nat /\ sweep.now <= now /\ sweep.todo \subseteq DOMAIN buckets
  /\ sweep.state = "dropping" =>
       /\ sweep.now \in Nat /\ sweep.now <= now /\ sweep.todo \subseteq DOMAIN buckets \ {sweep.key}
       /\ sweep.key \in DOMAIN buckets /\ sweep.ts \in Nat /\ Idle(sweep.ts)
  /\ DOMAIN seen \subseteq DOMAIN buckets
  /\ (\A p \in Procs : pc[p] # "evict") => DOMAIN seen = {}

\* What a call still has to give back to key k.
Owed(c, k) == IF c.op = "refund" /\ c.key = k THEN c.n ELSE 0
Pending(k) == Total([p \in Procs |-> Owed(call[p], k)])

\* What the bucket of k has to offer; the bucket that is not there yet is full.
Worth(k) ==
  IF k \in DOMAIN buckets THEN Refilled(heap[buckets[k]], now) ELSE Limit * Period

\* The budget of k, with what is on its way back to it.
Solvent(k) ==
  Period * (admitted[k] + Pending(k)) + Worth(k)
    <= Limit * Period * (1 + forgiven[k]) + Limit * now + Period * detached[k]

Typed ==
  /\ now \in 0 .. MaxTime /\ lock \in Procs \cup {Nobody, Sweeper}
  /\ admitted \in [Keys -> Nat] /\ forgiven \in [Keys -> Nat] /\ detached \in [Keys -> Nat]

Balanced ==
  /\ IInv /\ Typed /\ HeapOK /\ SweepOK
  /\ \A p \in Procs : CallOK(p)
  /\ \A k \in Keys : Solvent(k)

----------------------------------------------------------------------------
LEMMA Distribute ==
  ASSUME NEW a \in Nat, NEW b \in Int, NEW c \in Int
  PROVE  a * (b + c) = a * b + a * c /\ a * b \in Int /\ a * c \in Int
OBVIOUS

\* The budget of a key, in numbers: u items admitted or on their way back, a
\* bucket that is worth w, F debts forgiven, time T, and D items that a bucket
\* outside the map granted.
Covers(u, w, F, T, D) == Period * u + w <= Limit * Period * (1 + F) + Limit * T + Period * D

LEMMA CoversSteps ==
  ASSUME NEW u \in Nat, NEW w \in Nat, NEW F \in Nat, NEW T \in Nat, NEW D \in Nat,
         Covers(u, w, F, T, D)
  PROVE  /\ \A g \in Nat : Covers(u + g, w - g * Period, F, T, D)
         /\ \A g \in Nat : Covers(u + g, w, F, T, D + g)
         /\ \A n \in Nat, v \in Nat : v <= w + n * Period => Covers(u - n, v, F, T, D)
         /\ \A v \in Nat : v <= Limit * Period => Covers(u, v, F + 1, T, D)
         /\ \A v \in Nat : v <= w + Limit => Covers(u, v, F, T + 1, D)
<1> DEFINE LP == Limit * Period
<1>1. Period \in Nat /\ Limit \in Nat /\ LP \in Nat
  BY MemoryBounds, ProductNat, Zenon
<1>2. /\ Period * u \in Int /\ LP * (1 + F) \in Int /\ Limit * T \in Int /\ Period * D \in Int
      /\ Period * u + w <= LP * (1 + F) + Limit * T + Period * D
  <2>1. 1 + F \in Nat
    OBVIOUS
  <2>2. /\ Period * u \in Nat /\ LP * (1 + F) \in Nat /\ Limit * T \in Nat
        /\ Period * D \in Nat
    BY <1>1, <2>1, ProductNat, Zenon
  <2>3. QED
    BY <2>2 DEF Covers
<1>3. ASSUME NEW g \in Nat
      PROVE  /\ Covers(u + g, w - g * Period, F, T, D)
             /\ Covers(u + g, w, F, T, D + g)
  <2>1. /\ Period * (u + g) = Period * u + Period * g
        /\ Period * (D + g) = Period * D + Period * g
        /\ Period * g \in Int
    BY <1>1, Distribute
  <2>2. g * Period = Period * g
    BY <1>1
  <2> DEFINE x == Period * g
             y == Period * u
             z == Period * D
             A == LP * (1 + F)
             B == Limit * T
  <2>3. /\ x \in Int /\ y \in Int /\ z \in Int /\ A \in Int /\ B \in Int
        /\ y + w <= A + B + z
    BY <1>2, <2>1, Zenon
  <2> HIDE DEF x, y, z, A, B
  <2>4. (y + x) + (w - x) <= A + B + z /\ (y + x) + w <= A + B + (z + x)
    BY <2>3
  <2>5. QED
    BY <2>1, <2>2, <2>4, Zenon DEF Covers, x, y, z, A, B
<1>4. ASSUME NEW n \in Nat, NEW v \in Nat, v <= w + n * Period
      PROVE  Covers(u - n, v, F, T, D)
  <2>1. /\ Period * (u + (-n)) = Period * u + Period * (-n)
        /\ Period * n \in Int
    BY <1>1, Distribute
  <2>2. n * Period = Period * n /\ Period * (-n) = -(Period * n) /\ u + (-n) = u - n
    BY <1>1
  <2> DEFINE x == Period * n
             y == Period * u
             z == Period * D
             A == LP * (1 + F)
             B == Limit * T
  <2>3. /\ x \in Int /\ y \in Int /\ z \in Int /\ A \in Int /\ B \in Int
        /\ y + w <= A + B + z /\ v <= w + x
    BY <1>2, <1>4, <2>1, <2>2, Zenon
  <2>4. Period * (u - n) = y - x
    BY <2>1, <2>2, Zenon
  <2> HIDE DEF x, y, z, A, B
  <2>5. (y - x) + v <= A + B + z
    BY <2>3
  <2>6. QED
    BY <2>4, <2>5, Zenon DEF Covers, y, z, A, B
<1>5. ASSUME NEW v \in Nat, v <= LP
      PROVE  Covers(u, v, F + 1, T, D)
  <2>1. LP * ((1 + F) + 1) = LP * (1 + F) + LP * 1 /\ LP * 1 = LP /\ 1 + (F + 1) = (1 + F) + 1
    BY <1>1, Distribute
  <2> DEFINE y == Period * u
             z == Period * D
             A == LP * (1 + F)
             B == Limit * T
  <2>2. /\ y \in Int /\ z \in Int /\ A \in Int /\ B \in Int /\ LP \in Nat
        /\ y + w <= A + B + z /\ v <= LP
    BY <1>1, <1>2, <1>5, Zenon
  <2>3. LP * (1 + (F + 1)) = A + LP
    BY <2>1, Zenon
  <2> HIDE DEF y, z, A, B, LP
  <2>4. y + v <= (A + LP) + B + z
    BY <2>2
  <2>5. QED
    BY <2>3, <2>4, Zenon DEF Covers, y, z, A, B, LP
<1>6. ASSUME NEW v \in Nat, v <= w + Limit
      PROVE  Covers(u, v, F, T + 1, D)
  <2>1. Limit * (T + 1) = Limit * T + Limit * 1 /\ Limit * 1 = Limit
    BY <1>1, Distribute
  <2> DEFINE y == Period * u
             z == Period * D
             A == LP * (1 + F)
             B == Limit * T
  <2>2. /\ y \in Int /\ z \in Int /\ A \in Int /\ B \in Int /\ Limit \in Nat
        /\ y + w <= A + B + z /\ v <= w + Limit
    BY <1>1, <1>2, <1>6, Zenon
  <2>3. Limit * (T + 1) = B + Limit
    BY <2>1, Zenon
  <2> HIDE DEF y, z, A, B
  <2>4. y + v <= A + (B + Limit) + z
    BY <2>2
  <2>5. QED
    BY <2>3, <2>4, Zenon DEF Covers, y, z, A, B
<1>7. QED
  BY <1>3, <1>4, <1>5, <1>6, Zenon

----------------------------------------------------------------------------
\* The step of one goroutine changes what is on its way back by its own share.
LEMMA PendingStep ==
  ASSUME Balanced, NEW p \in Procs, NEW d, call' = [call EXCEPT ![p] = d], NEW k \in Keys,
         Owed(d, k) \in Nat
  PROVE  /\ Pending(k) \in Nat /\ Owed(call[p], k) \in Nat /\ Owed(call[p], k) <= Pending(k)
         /\ Pending(k)' = Pending(k) - Owed(call[p], k) + Owed(d, k)
<1> DEFINE f == [q \in Procs |-> Owed(call[q], k)]
<1>1. \A q \in Procs : Owed(call[q], k) \in Nat
  BY DEF Balanced, CallOK, NoCall, Requested, Owed
<1>2. f \in [Procs -> Nat] /\ IsFiniteSet(Procs) /\ f[p] = Owed(call[p], k)
  BY <1>1, MemoryNames, Zenon
<1>3. [q \in Procs |-> Owed(call[q], k)]' = [f EXCEPT ![p] = Owed(d, k)]
  <2>1. DOMAIN call = Procs
    BY Zenon DEF Balanced, IInv
  <2>2. \A q \in Procs : call'[q] = IF q = p THEN d ELSE call[q]
    BY <2>1, Zenon
  <2>3. \A q \in Procs : Owed(call[q], k)' = IF q = p THEN Owed(d, k) ELSE Owed(call[q], k)
    BY <2>2 DEF Owed
  <2>4. QED
    BY <2>3, Zenon
<1>4. /\ f[p] <= Total(f) /\ Total([f EXCEPT ![p] = Owed(d, k)]) = Total(f) - f[p] + Owed(d, k)
      /\ Total(f) \in Nat
  BY <1>2, TotalUpdate, TotalType, Zenon
<1>5. QED
  BY <1>1, <1>2, <1>3, <1>4, Zenon DEF Pending

LEMMA PendingSame ==
  ASSUME UNCHANGED call, NEW k
  PROVE  Pending(k)' = Pending(k)
BY Zenon DEF Pending, Owed

\* What is refilled to more than fits is full.
LEMMA AtMostFull == \A x, y : x >= y /\ x \in Int /\ y \in Int => AtMost(x, y) = y
BY DEF AtMost

\* The budgets, in the numbers of Covers.
LEMMA SolventCovers ==
  ASSUME Balanced, NEW k \in Keys
  PROVE  /\ Covers(admitted[k] + Pending(k), Worth(k), forgiven[k], now, detached[k])
         /\ admitted[k] \in Nat /\ Pending(k) \in Nat /\ forgiven[k] \in Nat
         /\ now \in Nat /\ detached[k] \in Nat /\ Worth(k) \in Nat
         /\ Worth(k) <= Limit * Period /\ Limit * Period \in Nat
         /\ admitted[k] + Pending(k) \in Nat
         /\ admitted[k] = (admitted[k] + Pending(k)) - Pending(k)
<1>1. /\ admitted[k] \in Nat /\ forgiven[k] \in Nat /\ now \in Nat /\ detached[k] \in Nat
  BY DEF Balanced, Typed
<1>2. Pending(k) \in Nat
  <2>1. \A q \in Procs : Owed(call[q], k) \in Nat
    BY DEF Balanced, CallOK, NoCall, Requested, Owed
  <2>2. [q \in Procs |-> Owed(call[q], k)] \in [Procs -> Nat]
    BY <2>1, Zenon
  <2>3. QED
    BY <2>2, TotalType, MemoryNames, Zenon DEF Pending
<1>3. Worth(k) \in Nat /\ Worth(k) <= Limit * Period
  <2>1. CASE k \in DOMAIN buckets
    <3>1. BucketOK(heap[buckets[k]])
      BY <2>1, Zenon DEF Balanced, HeapOK
    <3>2. QED
      BY <1>1, <2>1, <3>1, RefilledBounds, Zenon DEF Worth, BucketOK
  <2>2. CASE k \notin DOMAIN buckets
    BY <2>2, MemoryBounds, ProductNat DEF Worth
  <2>3. QED
    BY <2>1, <2>2, Zenon
<1>4. /\ admitted[k] + Pending(k) \in Nat
      /\ admitted[k] = (admitted[k] + Pending(k)) - Pending(k)
  BY <1>1, <1>2
<1>5. Limit * Period \in Nat
  BY MemoryBounds, ProductNat, Zenon
<1>6. QED
  BY <1>1, <1>2, <1>3, <1>4, <1>5, Zenon DEF Balanced, Solvent, Covers

\* Garbage is what neither the map nor a goroutine refers to.
LEMMA Collected ==
  ASSUME NEW h, NEW m, NEW c
  PROVE  LET r == Collect(h, m, c)
             refs == Range(m) \cup {c[p].ref : p \in Procs}
         IN  /\ DOMAIN r = DOMAIN h \cap refs
             /\ \A a \in DOMAIN r : r[a] = h[a]
BY Zenon DEF Collect, Restrict

\* The goroutines that take no part in a step keep their calls and their buckets.
LEMMA OthersOK ==
  ASSUME Balanced, NEW p \in Procs,
         \A q \in Procs \ {p} : pc'[q] = pc[q] /\ call'[q] = call[q],
         \A q \in Procs \ {p} : call'[q].ref \in DOMAIN heap => call'[q].ref \in DOMAIN heap'
  PROVE  \A q \in Procs \ {p} : CallOK(q)'
<1> TAKE q \in Procs \ {p}
<1>1. pc'[q] = pc[q] /\ call'[q] = call[q] /\ CallOK(q)
  BY Zenon DEF Balanced
<1>2. QED
  BY <1>1, Zenon DEF CallOK, Requested, NoCall

\* Looking a bucket up, with or without success, and waiting to evict.
LEMMA MoveStep ==
  ASSUME Balanced, IInv', NEW p \in Procs, pc[p] \notin {"bucket", "evict"},
         NEW d \in Requested,
         call' = [call EXCEPT ![p] = d] \/ (UNCHANGED call /\ d = call[p]),
         NEW l \in {"create", "bucket", "evict"}, pc' = [pc EXCEPT ![p] = l],
         IF l = "bucket" THEN d.ref \in DOMAIN heap /\ d.ref[1] = d.key ELSE d.ref = Nobody,
         \A k \in Keys : Owed(d, k) = Owed(call[p], k),
         lock' \in Procs \cup {Nobody, Sweeper},
         UNCHANGED <<now, buckets, heap, seen, sweep, admitted, forgiven, detached>>
  PROVE  Balanced'
<1>0. DOMAIN call = Procs /\ DOMAIN pc = Procs
  BY Zenon DEF Balanced, IInv
<1>1. /\ \A q \in Procs \ {p} : pc'[q] = pc[q] /\ call'[q] = call[q]
      /\ pc'[p] = l /\ call'[p] = d
  BY <1>0, Zenon
<1>2. Typed'
  BY Zenon DEF Balanced, Typed
<1>3. HeapOK'
  <2>1. call[p].ref = Nobody
    BY Zenon DEF Balanced, CallOK
  <2>2. Nobody \notin DOMAIN heap
    BY MemoryNames DEF Balanced, HeapOK, Addresses
  <2>3. \A a \in DOMAIN heap : a \in Range(buckets) \cup {call'[q].ref : q \in Procs}
    <3> TAKE a \in DOMAIN heap
    <3>1. CASE a \in Range(buckets)
      BY <3>1, Zenon
    <3>2. CASE \E q \in Procs : a = call[q].ref
      <4>1. PICK q \in Procs : a = call[q].ref
        BY <3>2, Zenon
      <4>2. q # p
        BY <2>1, <2>2, <4>1, Zenon
      <4>3. QED
        BY <1>1, <4>1, <4>2, Zenon
    <3>3. QED
      BY <3>1, <3>2, Zenon DEF Balanced, HeapOK
  <2>4. QED
    BY <2>3 DEF Balanced, HeapOK, BucketOK, Range
<1>4. SweepOK'
  BY <1>1, Zenon DEF Balanced, SweepOK, Idle
<1>5. \A q \in Procs : CallOK(q)'
  <2>1. CallOK(p)'
    BY <1>1, Zenon DEF CallOK, Requested, Balanced
  <2>2. QED
    BY <1>1, <2>1, OthersOK, Zenon
<1>6. \A k \in Keys : Solvent(k)'
  <2> TAKE k \in Keys
  <2>1. Owed(d, k) \in Nat
    BY Zenon DEF Owed, Requested
  <2>2. CASE call' = [call EXCEPT ![p] = d]
    <3>1. /\ Pending(k) \in Nat /\ Owed(call[p], k) \in Nat
          /\ Pending(k)' = Pending(k) - Owed(call[p], k) + Owed(d, k)
      BY <2>1, <2>2, PendingStep, Zenon
    <3>2. Owed(d, k) = Owed(call[p], k)
      BY Zenon
    <3>3. Pending(k)' = Pending(k)
      BY <3>1, <3>2
    <3>4. QED
      BY <3>3, Zenon DEF Balanced, Solvent, Worth
  <2>3. CASE UNCHANGED call
    BY <2>3, PendingSame, Zenon DEF Balanced, Solvent, Worth
  <2>4. QED
    BY <2>2, <2>3, Zenon
<1>7. QED
  BY <1>2, <1>3, <1>4, <1>5, <1>6, Zenon DEF Balanced

\* The locked lookups of getOrCreate and AvailableTokens.
LEMMA LookupStep ==
  ASSUME Balanced, IInv', NEW p \in Procs, pc[p] \in {"idle", "refund"}, NEW c \in Requested,
         c.ref = Nobody, \A k \in Keys : Owed(c, k) = Owed(call[p], k), Lookup(p, c)
  PROVE  Balanced'
<1>1. UNCHANGED <<now, buckets, heap, lock, seen, sweep, admitted, forgiven, detached>>
  BY Zenon DEF Lookup, map
<1>2. lock' \in Procs \cup {Nobody, Sweeper} /\ pc[p] \notin {"bucket", "evict"}
  BY <1>1, Zenon DEF Balanced, Typed
<1>3. CASE c.key \in DOMAIN buckets
  <2>0. PICK d : d = [c EXCEPT !.ref = buckets[c.key]]
    BY Zenon
  <2>1. call' = [call EXCEPT ![p] = d] /\ pc' = [pc EXCEPT ![p] = "bucket"]
    BY <1>3, <2>0, Zenon DEF Lookup
  <2>2. /\ buckets[c.key] \in DOMAIN heap /\ buckets[c.key][1] = c.key
        /\ buckets[c.key] \in Addresses
    BY <1>3, Zenon DEF Balanced, HeapOK
  <2>3. /\ d \in Requested /\ d.ref = buckets[c.key] /\ d.key = c.key /\ d.op = c.op
        /\ d.n = c.n
    BY <2>0, <2>2, Zenon DEF Requested
  <2>4. \A k \in Keys : Owed(d, k) = Owed(call[p], k)
    BY <2>3, Zenon DEF Owed
  <2>5. IF "bucket" = "bucket" THEN d.ref \in DOMAIN heap /\ d.ref[1] = d.key ELSE d.ref = Nobody
    BY <2>2, <2>3, Zenon
  <2>6. QED
    BY <1>1, <1>2, <2>1, <2>3, <2>4, <2>5, MoveStep, Zenon
<1>4. CASE c.key \notin DOMAIN buckets /\ c.op # "available"
  <2>1. call' = [call EXCEPT ![p] = c] /\ pc' = [pc EXCEPT ![p] = "create"]
    BY <1>4, Zenon DEF Lookup
  <2>2. QED
    BY <1>1, <1>2, <2>1, MoveStep, Zenon
<1>5. CASE c.key \notin DOMAIN buckets /\ c.op = "available"
  <2>1. UNCHANGED <<pc, call>>
    BY <1>5, Zenon DEF Lookup
  <2>2. \A k \in Keys : Solvent(k)'
    BY <1>1, <2>1, PendingSame, Zenon DEF Balanced, Solvent, Worth
  <2>3. Typed' /\ SweepOK' /\ \A q \in Procs : CallOK(q)'
    BY <1>1, <2>1, Zenon DEF Balanced, Typed, SweepOK, Idle, CallOK
  <2>4. HeapOK'
    <3>1. \A a \in DOMAIN heap' : BucketOK(heap[a])'
      BY <1>1, Zenon DEF Balanced, HeapOK, BucketOK
    <3>2. Range(buckets)' = Range(buckets)
      BY <1>1, Zenon DEF Range
    <3>3. {call'[q].ref : q \in Procs} = {call[q].ref : q \in Procs}
      BY <2>1, Zenon
    <3>4. QED
      BY <1>1, <3>1, <3>2, <3>3, Zenon DEF Balanced, HeapOK
  <2>5. QED
    BY <2>2, <2>3, <2>4, Zenon DEF Balanced
<1>6. QED
  BY <1>3, <1>4, <1>5, Zenon

----------------------------------------------------------------------------
\* Each goroutine holds at most one bucket, so that a key without a bucket in the
\* map has an address to spare.
LEMMA FreeAddress ==
  ASSUME Balanced, NEW k \in Keys, k \notin DOMAIN buckets
  PROVE  LET free == {i \in 0 .. Cardinality(Procs) : <<k, i>> \notin DOMAIN heap}
         IN  (CHOOSE i \in free : \A j \in free : i <= j) \in free
<1> DEFINE N == Cardinality(Procs)
           free == {i \in 0 .. N : <<k, i>> \notin DOMAIN heap}
           f == [q \in Procs |-> call[q].ref[2]]
           T == {f[q] : q \in Procs}
<1>1. N \in Nat /\ IsFiniteSet(Procs)
  BY MemoryNames, FS_CardinalityType, Zenon
<1>2. ASSUME free = {} PROVE FALSE
  <2>1. \A i \in 0 .. N : <<k, i>> \in DOMAIN heap
    BY <1>2, Zenon
  <2>2. \A i \in 0 .. N : <<k, i>> \notin Range(buckets)
    <3> TAKE i \in 0 .. N
    <3>1. \A x \in DOMAIN buckets : buckets[x][1] = x
      BY Zenon DEF Balanced, HeapOK
    <3>2. \A x \in DOMAIN buckets : buckets[x] # <<k, i>>
      BY <3>1
    <3>3. QED
      BY <3>2, Zenon DEF Range
  <2>3. \A i \in 0 .. N : \E q \in Procs : call[q].ref = <<k, i>>
    BY <2>1, <2>2, Zenon DEF Balanced, HeapOK
  <2>4. 0 .. N \subseteq T
    <3> SUFFICES ASSUME NEW i \in 0 .. N PROVE i \in T
      BY Zenon
    <3>1. PICK q \in Procs : call[q].ref = <<k, i>>
      BY <2>3, Zenon
    <3>2. f[q] = i
      BY <3>1
    <3> HIDE DEF f
    <3>3. QED
      BY <3>2, Zenon
  <2>5. f \in Surjection(Procs, T)
    BY Zenon DEF Surjection
  <2> HIDE DEF T, f
  <2>6. IsFiniteSet(T) /\ Cardinality(T) <= N
    BY <1>1, <2>5, FS_Surjection, Zenon
  <2>7. Cardinality(0 .. N) = N + 1
    BY <1>1, FS_Interval
  <2>8. Cardinality(0 .. N) <= Cardinality(T)
    BY <2>4, <2>6, FS_Subset, Zenon
  <2>9. QED
    BY <1>1, <2>6, <2>7, <2>8, FS_CardinalityType
<1>3. free \in SUBSET Nat
  BY <1>1
<1> HIDE DEF free
<1>4. \E i \in free : \A j \in free : i <= j
  BY <1>2, <1>3, LeastNumber, Zenon
<1>5. (CHOOSE i \in free : \A j \in free : i <= j) \in free
  BY <1>4, Zenon
<1>6. QED
  BY <1>5, Zenon DEF free

\* What Insert does, with a name for the new address.
InsertedAt(p, gone, k, a) ==
  /\ a \notin DOMAIN heap /\ a[1] = k
  /\ buckets' = [x \in (DOMAIN buckets \ gone) \cup {k} |-> IF x = k THEN a ELSE buckets[x]]
  /\ call' = [call EXCEPT ![p] = [call[p] EXCEPT !.ref = a]]
  /\ DOMAIN heap' = (DOMAIN heap \cup {a})
                      \cap (Range(buckets') \cup {call'[q].ref : q \in Procs})
  /\ \A x \in DOMAIN heap' :
       heap'[x] = IF x = a THEN NewTokenBucket(Limit, Period, now) ELSE heap[x]

LEMMA Inserted ==
  ASSUME Balanced, NEW p \in Procs, NEW gone \in SUBSET DOMAIN buckets, Insert(p, gone),
         NEW k \in Keys, k = call[p].key, k \notin DOMAIN buckets
  PROVE  \E a \in Addresses : InsertedAt(p, gone, k, a)
<1> DEFINE free == {i \in 0 .. Cardinality(Procs) : <<k, i>> \notin DOMAIN heap}
           first == CHOOSE i \in free : \A j \in free : i <= j
           a == <<k, first>>
           h == [x \in DOMAIN heap \cup {a} |->
                   IF x = a THEN NewTokenBucket(Limit, Period, now) ELSE heap[x]]
<1>3. first \in free
  BY FreeAddress, Zenon
<1>4. a \in Addresses /\ a \notin DOMAIN heap /\ a[1] = k
  <2> HIDE DEF first
  <2>1. QED
    BY <1>3, Zenon DEF Addresses
<1>5. /\ buckets' = [x \in (DOMAIN buckets \ gone) \cup {k} |-> IF x = k THEN a ELSE buckets[x]]
      /\ call' = [call EXCEPT ![p].ref = a]
      /\ heap' = Collect(h, buckets', call')
  BY DEF Insert
<1> HIDE DEF a, free
<1>6. DOMAIN h = DOMAIN heap \cup {a}
  BY Zenon
<1>7. /\ DOMAIN heap' = (DOMAIN heap \cup {a})
                          \cap (Range(buckets') \cup {call'[q].ref : q \in Procs})
      /\ \A x \in DOMAIN heap' : heap'[x] = h[x]
  <2> HIDE DEF h
  <2>1. QED
    BY <1>5, <1>6, Zenon DEF Collect, Restrict
<1>8. call' = [call EXCEPT ![p] = [call[p] EXCEPT !.ref = a]]
  BY <1>5, Zenon
<1>9. \A x \in DOMAIN heap' :
        heap'[x] = IF x = a THEN NewTokenBucket(Limit, Period, now) ELSE heap[x]
  BY <1>7, Zenon
<1>10. InsertedAt(p, gone, k, a)
  BY <1>4, <1>5, <1>7, <1>8, <1>9, Zenon DEF InsertedAt
<1>11. QED
  BY <1>4, <1>10, Zenon

\* A bucket is created, in the place of those evicted.
LEMMA InsertStep ==
  ASSUME Balanced, IInv', NEW p \in Procs, NEW gone \in SUBSET DOMAIN buckets,
         pc[p] \in {"create", "evict"}, call[p].key \notin DOMAIN buckets, lock # Sweeper,
         Insert(p, gone), lock' \in Procs \cup {Nobody, Sweeper}, DOMAIN seen' = {},
         UNCHANGED <<now, sweep, admitted, detached>>
  PROVE  Balanced'
<1>0. /\ DOMAIN call = Procs /\ DOMAIN pc = Procs /\ call[p] \in Requested
      /\ call[p].ref = Nobody /\ now \in Nat
  BY DEF Balanced, IInv, CallOK, Typed
<1>1. PICK k \in Keys : k = call[p].key
  BY <1>0, Zenon DEF Requested
<1>2. PICK a \in Addresses :
        /\ a \notin DOMAIN heap /\ a[1] = k
        /\ buckets' = [x \in (DOMAIN buckets \ gone) \cup {k} |-> IF x = k THEN a ELSE buckets[x]]
        /\ call' = [call EXCEPT ![p] = [call[p] EXCEPT !.ref = a]]
        /\ DOMAIN heap' = (DOMAIN heap \cup {a})
                            \cap (Range(buckets') \cup {call'[q].ref : q \in Procs})
        /\ \A x \in DOMAIN heap' :
             heap'[x] = IF x = a THEN NewTokenBucket(Limit, Period, now) ELSE heap[x]
  <2>1. PICK a \in Addresses : InsertedAt(p, gone, k, a)
    BY <1>1, Inserted, Zenon
  <2>2. QED
    BY <2>1, Zenon DEF InsertedAt
<1>3. PICK d \in Requested : d = [call[p] EXCEPT !.ref = a]
  BY <1>0, Zenon DEF Requested
<1>4. /\ call' = [call EXCEPT ![p] = d] /\ call'[p] = d /\ pc'[p] = "bucket"
      /\ \A q \in Procs \ {p} : pc'[q] = pc[q] /\ call'[q] = call[q]
      /\ d.ref = a /\ d.key = k /\ d.op = call[p].op /\ d.n = call[p].n
  <2>1. pc' = [pc EXCEPT ![p] = "bucket"]
    BY Zenon DEF Insert
  <2>2. d.ref = a /\ d.key = k /\ d.op = call[p].op /\ d.n = call[p].n
    BY <1>0, <1>1, <1>3, Zenon DEF Requested
  <2>3. QED
    BY <1>0, <1>2, <1>3, <2>1, <2>2, Zenon
<1>5. Nobody \notin DOMAIN heap /\ a # Nobody
  BY MemoryNames DEF Balanced, HeapOK, Addresses
<1>6. /\ DOMAIN buckets' = (DOMAIN buckets \ gone) \cup {k} /\ buckets'[k] = a
      /\ \A x \in DOMAIN buckets \ gone : x # k /\ buckets'[x] = buckets[x]
  BY <1>1, <1>2, Zenon
<1>7. a \in DOMAIN heap' /\ heap'[a] = NewTokenBucket(Limit, Period, now)
  BY <1>2, <1>6, Zenon DEF Range
<1>8. /\ \A x \in DOMAIN buckets \ gone :
           /\ buckets[x] \in DOMAIN heap'
           /\ heap'[buckets[x]] = heap[buckets[x]]
      /\ \A q \in Procs : call'[q].ref \in DOMAIN heap => call'[q].ref \in DOMAIN heap'
  <2>1. \A x \in DOMAIN buckets \ gone : buckets[x] \in DOMAIN heap /\ buckets[x] \in Range(buckets')
    BY <1>6, Zenon DEF Balanced, HeapOK, Range
  <2>2. QED
    BY <1>2, <2>1, Zenon
<1>9. Typed'
  <2>1. forgiven' = [x \in Keys |->
                       forgiven[x] + IF x \in gone /\ Short(buckets[x]) THEN 1 ELSE 0]
    BY Zenon DEF Insert, Forgive
  <2>2. forgiven' \in [Keys -> Nat]
    BY <2>1 DEF Balanced, Typed
  <2>3. QED
    BY <2>2, Zenon DEF Balanced, Typed
<1>10. HeapOK'
  <2>1. DOMAIN heap' \subseteq Addresses
    BY <1>2, Zenon DEF Balanced, HeapOK
  <2>2. \A x \in DOMAIN heap' : BucketOK(heap[x])'
    <3>1. PICK tb : tb = NewTokenBucket(Limit, Period, now)
      BY Zenon
    <3>2. /\ Sane(tb, now) /\ tb.maxTokens = Limit * Period /\ tb.refillRate = Limit
          /\ tb.unit = Period
      <4>1. LET new == NewTokenBucket(Limit, Period, now)
            IN  /\ Sane(new, now) /\ new.maxTokens = Limit * Period
                /\ new.refillRate = Limit /\ new.unit = Period
        <5>1. Limit \in Nat /\ Period \in Nat \ {0}
          BY MemoryBounds, Zenon
        <5>2. QED
          BY <1>0, <5>1, NewBucketFull
      <4>2. QED
        BY <3>1, <4>1, Zenon
    <3>3. \A x \in DOMAIN heap' : heap'[x] = tb \/ (x \in DOMAIN heap /\ heap'[x] = heap[x])
      BY <1>2, <3>1, Zenon
    <3>4. \A x \in DOMAIN heap : BucketOK(heap[x])
      BY Zenon DEF Balanced, HeapOK
    <3>5. QED
      BY <3>2, <3>3, <3>4, Zenon DEF BucketOK
  <2>3. \A x \in DOMAIN heap' : x \in Range(buckets') \cup {call'[q].ref : q \in Procs}
    BY <1>2, Zenon
  <2>4. DOMAIN buckets' \subseteq Keys
    BY <1>6, Zenon DEF Balanced, HeapOK
  <2>5. \A x \in DOMAIN buckets' : buckets'[x] \in DOMAIN heap' /\ buckets'[x][1] = x
    BY <1>2, <1>6, <1>7, <1>8, Zenon DEF Balanced, HeapOK
  <2>6. QED
    BY <2>1, <2>2, <2>3, <2>4, <2>5, Zenon DEF HeapOK, Range
<1>11. SweepOK'
  BY Zenon DEF Balanced, IInv, SweepsLocked, SweepOK
<1>12. \A q \in Procs : CallOK(q)'
  <2>1. CallOK(p)'
    BY <1>2, <1>4, <1>7, Zenon DEF CallOK, Requested
  <2>2. QED
    BY <1>4, <1>8, <2>1, OthersOK, Zenon
<1>13. \A x \in Keys : Solvent(x)'
  <2> TAKE x \in Keys
  <2>1. Pending(x)' = Pending(x)
    <3>1. Owed(d, x) = Owed(call[p], x) /\ Owed(d, x) \in Nat
      BY <1>1, <1>4, Zenon DEF Owed, Requested
    <3>2. /\ Pending(x) \in Nat
          /\ Pending(x)' = Pending(x) - Owed(call[p], x) + Owed(d, x)
      BY <1>4, <3>1, PendingStep
    <3>3. QED
      BY <3>1, <3>2
  <2>2. CASE x \notin gone
    <3>1. Worth(x)' = Worth(x)
      <4>1. CASE x = k
        <5>1. Refilled(NewTokenBucket(Limit, Period, now), now) = Limit * Period
          BY <1>0, MemoryBounds, NewBucketFull, Zenon
        <5>2. Worth(x)' = Refilled(heap'[a], now)
          BY <1>6, <4>1, Zenon DEF Worth
        <5>3. QED
          BY <1>1, <1>7, <4>1, <5>1, <5>2, Zenon DEF Worth
      <4>2. CASE x # k
        <5>1. x \in DOMAIN buckets' <=> x \in DOMAIN buckets
          BY <1>6, <2>2, <4>2, Zenon
        <5>2. x \in DOMAIN buckets => heap'[buckets'[x]] = heap[buckets[x]]
          BY <1>6, <1>8, <2>2, Zenon
        <5>3. QED
          BY <5>1, <5>2, Zenon DEF Worth
      <4>3. QED
        BY <4>1, <4>2, Zenon
    <3>2. forgiven'[x] = forgiven[x]
      BY <2>2 DEF Insert, Forgive, Balanced, Typed
    <3>3. QED
      BY <2>1, <3>1, <3>2, Zenon DEF Balanced, Solvent
  <2>3. CASE x \in gone
    <3>1. x \in DOMAIN buckets /\ x # k /\ x \notin DOMAIN buckets'
      BY <1>1, <1>6, <2>3, Zenon
    <3>2. Worth(x)' = Limit * Period /\ Worth(x) = Refilled(heap[buckets[x]], now)
      BY <3>1, Zenon DEF Worth
    <3>3. /\ Limit * Period \in Nat
          /\ Covers(admitted[x] + Pending(x), Worth(x), forgiven[x], now, detached[x])
          /\ admitted[x] + Pending(x) \in Nat /\ forgiven[x] \in Nat
          /\ detached[x] \in Nat /\ Worth(x) \in Nat /\ Worth(x) <= Limit * Period
      BY SolventCovers, MemoryBounds, ProductNat
    <3>4. heap[buckets[x]].maxTokens = Limit * Period
      BY <3>1, Zenon DEF Balanced, HeapOK, BucketOK
    <3>5. CASE Short(buckets[x])
      <4>1. forgiven'[x] = forgiven[x] + 1
        BY <2>3, <3>5, Zenon DEF Insert, Forgive
      <4>2. Covers(admitted[x] + Pending(x), Limit * Period, forgiven[x] + 1, now, detached[x])
        <5>1. PICK v \in Nat : v = Limit * Period
          BY <3>3, Zenon
        <5>2. Covers(admitted[x] + Pending(x), v, forgiven[x] + 1, now, detached[x])
          <6>1. v <= Limit * Period
            BY <5>1
          <6>2. QED
            BY <1>0, <3>3, <6>1, CoversSteps, Zenon
        <5>3. QED
          BY <5>1, <5>2, Zenon
      <4>3. QED
        BY <2>1, <3>2, <4>1, <4>2, Zenon DEF Solvent, Covers
    <3>6. CASE ~Short(buckets[x])
      <4>1. forgiven'[x] = forgiven[x]
        BY <3>3, <3>6 DEF Insert, Forgive
      <4>2. Worth(x) = Limit * Period
        BY <3>2, <3>3, <3>4, <3>6 DEF Short
      <4>3. QED
        BY <2>1, <3>2, <4>1, <4>2, Zenon DEF Balanced, Solvent
    <3>7. QED
      BY <3>5, <3>6, Zenon
  <2>4. QED
    BY <2>2, <2>3, Zenon
<1>14. QED
  BY <1>9, <1>10, <1>11, <1>12, <1>13, Zenon DEF Balanced

----------------------------------------------------------------------------
\* A goroutine uses its bucket at r, which becomes tb, and lets go of it; what is
\* left to do of its call is d.
Uses(p, r, tb, d, l) ==
  /\ pc[p] = "bucket" /\ r = call[p].ref /\ BucketOK(tb)
  /\ call' = [call EXCEPT ![p] = d] /\ d.ref = Nobody
  /\ l \in {"idle", "refund"} /\ pc' = [pc EXCEPT ![p] = l]
  /\ IF l = "idle" THEN d = NoCall ELSE d \in Requested /\ d.op = "refund"
  /\ heap' = Collect([heap EXCEPT ![r] = tb], buckets, call')
  /\ admitted' \in [Keys -> Nat] /\ detached' \in [Keys -> Nat]
  /\ UNCHANGED <<now, buckets, lock, seen, sweep, forgiven>>

Used(r, tb) ==
  /\ Typed' /\ HeapOK' /\ SweepOK' /\ \A q \in Procs : CallOK(q)'
  /\ \A k \in Keys :
       Worth(k)' = IF k \in DOMAIN buckets /\ buckets[k] = r THEN Refilled(tb, now)
                   ELSE Worth(k)

LEMMA UseStep ==
  ASSUME Balanced, IInv', NEW p \in Procs, NEW r, NEW tb, NEW d, NEW l, Uses(p, r, tb, d, l)
  PROVE  Used(r, tb)
<1> USE DEF Uses
<1>0. DOMAIN call = Procs /\ DOMAIN pc = Procs /\ r \in DOMAIN heap
  BY Zenon DEF Balanced, IInv, CallOK
<1>1. /\ \A q \in Procs \ {p} : pc'[q] = pc[q] /\ call'[q] = call[q]
      /\ pc'[p] = l /\ call'[p] = d
  BY <1>0, Zenon
<1>2. Nobody \notin DOMAIN heap
  BY MemoryNames DEF Balanced, HeapOK, Addresses
<1>3. /\ DOMAIN heap' = DOMAIN heap \cap (Range(buckets) \cup {call'[q].ref : q \in Procs})
      /\ \A a \in DOMAIN heap' : heap'[a] = IF a = r THEN tb ELSE heap[a]
  <2> DEFINE h == [heap EXCEPT ![r] = tb]
  <2>1. DOMAIN h = DOMAIN heap /\ \A a \in DOMAIN heap : h[a] = IF a = r THEN tb ELSE heap[a]
    BY <1>0, Zenon
  <2> HIDE DEF h
  <2>2. heap' = Collect(h, buckets, call')
    BY Zenon DEF h
  <2>3. /\ DOMAIN heap' = DOMAIN h \cap (Range(buckets) \cup {call'[q].ref : q \in Procs})
        /\ \A a \in DOMAIN heap' : heap'[a] = h[a]
    BY <2>2, Zenon DEF Collect, Restrict
  <2>4. QED
    BY <2>1, <2>3
<1>4. Typed'
  BY Zenon DEF Balanced, Typed
<1>5. HeapOK'
  <2>1. \A a \in DOMAIN heap' : BucketOK(heap[a])'
    <3>1. \A a \in DOMAIN heap' : heap'[a] = tb \/ (a \in DOMAIN heap /\ heap'[a] = heap[a])
      BY <1>3, Zenon
    <3>2. \A a \in DOMAIN heap : BucketOK(heap[a])
      BY Zenon DEF Balanced, HeapOK
    <3> TAKE a \in DOMAIN heap'
    <3>3. CASE heap'[a] = tb
      BY <3>3, Zenon DEF BucketOK
    <3>4. CASE a \in DOMAIN heap /\ heap'[a] = heap[a]
      <4>1. BucketOK(heap[a])
        BY <3>2, <3>4, Zenon
      <4>2. QED
        BY <3>4, <4>1, Zenon DEF BucketOK
    <3>5. QED
      BY <3>1, <3>3, <3>4, Zenon
  <2>2. \A a \in DOMAIN heap' : a \in Range(buckets') \cup {call'[q].ref : q \in Procs}
    BY <1>3, Zenon
  <2>3. \A k \in DOMAIN buckets : buckets[k] \in DOMAIN heap'
    BY <1>3, Zenon DEF Balanced, HeapOK, Range
  <2>4. QED
    BY <1>3, <2>1, <2>2, <2>3, Zenon DEF Balanced, HeapOK, Range
<1>6. SweepOK'
  BY <1>1, Zenon DEF Balanced, SweepOK, Idle
<1>7. \A q \in Procs : CallOK(q)'
  <2>1. CallOK(p)'
    BY <1>1, Zenon DEF CallOK, Requested, NoCall
  <2>2. \A q \in Procs \ {p} : call'[q].ref \in DOMAIN heap => call'[q].ref \in DOMAIN heap'
    BY <1>3, Zenon
  <2>3. QED
    BY <1>1, <2>1, <2>2, OthersOK, Zenon
<1>8. ASSUME NEW k \in Keys
      PROVE  Worth(k)' = IF k \in DOMAIN buckets /\ buckets[k] = r THEN Refilled(tb, now)
                         ELSE Worth(k)
  <2>1. CASE k \in DOMAIN buckets
    <3>1. buckets[k] \in DOMAIN heap'
      BY <1>3, <2>1, Zenon DEF Balanced, HeapOK, Range
    <3>2. heap'[buckets[k]] = IF buckets[k] = r THEN tb ELSE heap[buckets[k]]
      BY <1>3, <3>1, Zenon
    <3>3. QED
      BY <2>1, <3>2, Zenon DEF Worth
  <2>2. CASE k \notin DOMAIN buckets
    BY <2>2, Zenon DEF Worth
  <2>3. QED
    BY <2>1, <2>2, Zenon
<1>9. QED
  BY <1>4, <1>5, <1>6, <1>7, <1>8, Zenon DEF Used

\* A bucket in the map is the bucket of its key.
LEMMA Attached ==
  ASSUME Balanced, NEW p \in Procs, pc[p] = "bucket", NEW r, r = call[p].ref,
         NEW key, key = call[p].key
  PROVE  /\ call[p] \in Requested /\ key \in Keys /\ r \in DOMAIN heap /\ BucketOK(heap[r])
         /\ \A k \in DOMAIN buckets : buckets[k] = r => k = key
         /\ r \in Range(buckets) <=> key \in DOMAIN buckets /\ buckets[key] = r
<1>1. call[p] \in Requested /\ r \in DOMAIN heap /\ r[1] = key
  BY Zenon DEF Balanced, CallOK
<1>2. key \in Keys /\ BucketOK(heap[r])
  BY <1>1, Zenon DEF Balanced, HeapOK, Requested
<1>3. \A k \in DOMAIN buckets : buckets[k] = r => k = key
  BY <1>1, Zenon DEF Balanced, HeapOK
<1>4. QED
  BY <1>1, <1>2, <1>3, Zenon DEF Range

\* TokenBucket.AllowUpToN: what is granted leaves the bucket, or is on the account
\* of the buckets outside the map.
LEMMA TakeStep ==
  ASSUME Balanced, IInv', NEW p \in Procs, NEW back \in 0 .. Limit, Take(p, back)
  PROVE  Balanced'
<1>0. PICK c, r, key, old : c = call[p] /\ r = c.ref /\ key = c.key /\ old = heap[r]
  BY Zenon
<1>1. /\ pc[p] = "bucket" /\ c.op = "allow"
      /\ UNCHANGED <<now, buckets, lock, seen, sweep, forgiven>>
  BY <1>0, Zenon DEF Take
<1>2. /\ c \in Requested /\ key \in Keys /\ r \in DOMAIN heap /\ BucketOK(old)
      /\ \A k \in DOMAIN buckets : buckets[k] = r => k = key
      /\ r \in Range(buckets) <=> key \in DOMAIN buckets /\ buckets[key] = r
  BY <1>0, <1>1, Attached
<1>3. PICK g : g = Granted(old, c.n, now)
  BY Zenon
<1>4. PICK tb : tb = AllowUpToN(old, c.n, now)
  BY Zenon
<1>5. now \in Nat /\ c.n \in Nat /\ Sane(old, now) /\ old.unit = Period
  BY <1>2 DEF Balanced, Typed, Requested, BucketOK
<1>6. g \in Nat /\ g * Period \in Nat /\ g * Period <= Refilled(old, now)
  BY <1>3, <1>5, GrantedBounds, Zenon
<1>7. /\ BucketOK(tb) /\ Refilled(tb, now) = Refilled(old, now) - g * Period
  <2>1. /\ Sane(tb, now) /\ SameConfig(tb, old)
        /\ Refilled(tb, now) = Refilled(old, now) - g * old.unit
    BY <1>3, <1>4, <1>5, AllowUpToNEffect, Zenon
  <2>2. QED
    BY <1>2, <1>5, <2>1, Zenon DEF BucketOK, SameConfig
<1>8. PICK d : d = IF back > 0 THEN [c EXCEPT !.op = "refund", !.n = back, !.ref = Nobody]
                   ELSE NoCall
  BY Zenon
<1>9. PICK l : l = IF back > 0 THEN "refund" ELSE "idle"
  BY Zenon
<1>10. /\ call' = [call EXCEPT ![p] = d] /\ pc' = [pc EXCEPT ![p] = l]
       /\ heap' = Collect([heap EXCEPT ![r] = tb], buckets, call')
       /\ back \in 0 .. g
       /\ admitted' = [admitted EXCEPT ![key] = @ + (g - back)]
       /\ detached' = [detached EXCEPT ![key] = @ + IF r \in Range(buckets) THEN 0 ELSE g]
  BY <1>0, <1>3, <1>4, <1>8, <1>9, Zenon DEF Take
<1>11. /\ back \in Nat /\ back <= g /\ g - back \in Nat
  BY <1>6, <1>10
<1>12. /\ d.ref = Nobody /\ l \in {"idle", "refund"}
       /\ IF l = "idle" THEN d = NoCall ELSE d \in Requested /\ d.op = "refund"
       /\ \A k \in Keys : Owed(d, k) = IF k = key THEN back ELSE 0
  <2>1. CASE back > 0
    <3>1. d \in Requested /\ d.op = "refund" /\ d.ref = Nobody /\ d.key = key /\ d.n = back
      BY <1>0, <1>2, <1>8, <1>11, <2>1, Zenon DEF Requested
    <3>2. QED
      BY <1>9, <2>1, <3>1, Zenon DEF Owed
  <2>2. CASE ~(back > 0)
    <3>1. back = 0 /\ d = NoCall /\ l = "idle"
      BY <1>8, <1>9, <1>11, <2>2
    <3>2. QED
      BY <3>1, Zenon DEF Owed, NoCall
  <2>3. QED
    BY <2>1, <2>2, Zenon
<1>13. /\ admitted' \in [Keys -> Nat] /\ detached' \in [Keys -> Nat]
       /\ admitted'[key] = admitted[key] + (g - back)
       /\ detached'[key] = detached[key] + IF r \in Range(buckets) THEN 0 ELSE g
       /\ \A k \in Keys \ {key} : admitted'[k] = admitted[k] /\ detached'[k] = detached[k]
  BY <1>2, <1>6, <1>10, <1>11 DEF Balanced, Typed
<1>14. /\ Typed' /\ HeapOK' /\ SweepOK' /\ \A q \in Procs : CallOK(q)'
       /\ \A k \in Keys :
            Worth(k)' = IF k \in DOMAIN buckets /\ buckets[k] = r THEN Refilled(tb, now)
                        ELSE Worth(k)
  <2>1. Uses(p, r, tb, d, l)
    BY <1>0, <1>1, <1>7, <1>10, <1>12, <1>13, Zenon DEF Uses
  <2>2. QED
    BY <2>1, UseStep, Zenon DEF Used
<1>15. ASSUME NEW k \in Keys PROVE Solvent(k)'
  <2>1. Owed(c, k) = 0 /\ Owed(d, k) = (IF k = key THEN back ELSE 0)
    BY <1>1, <1>12, Zenon DEF Owed
  <2>2. Pending(k) \in Nat /\ Pending(k)' = Pending(k) + (IF k = key THEN back ELSE 0)
    <3>1. Owed(d, k) \in Nat
      BY <1>11, <2>1
    <3>2. /\ Pending(k) \in Nat
          /\ Pending(k)' = Pending(k) - Owed(c, k) + Owed(d, k)
      BY <1>0, <1>10, <3>1, PendingStep, Zenon
    <3>3. QED
      BY <1>11, <2>1, <3>2
  <2>3. CASE k # key
    <3>1. Worth(k)' = Worth(k) /\ Pending(k)' = Pending(k)
      BY <1>2, <1>14, <2>2, <2>3
    <3>2. QED
      BY <1>1, <1>13, <2>3, <3>1, Zenon DEF Balanced, Solvent
  <2>4. CASE k = key
    <3>1. PICK u, w, F, T, D \in Nat :
            /\ u = admitted[k] + Pending(k) /\ w = Worth(k) /\ F = forgiven[k] /\ T = now
            /\ D = detached[k]
      BY SolventCovers
    <3>2. Covers(u, w, F, T, D)
      BY <3>1, SolventCovers, Zenon
    <3>3. /\ Covers(u + g, w - g * Period, F, T, D) /\ Covers(u + g, w, F, T, D + g)
      BY <1>6, <3>2, CoversSteps, Zenon
    <3>4. admitted'[k] + Pending(k)' = u + g
      <4>1. admitted'[k] = admitted[k] + (g - back) /\ Pending(k)' = Pending(k) + back
        BY <1>13, <2>2, <2>4, Zenon
      <4>2. admitted[k] \in Nat
        BY SolventCovers, Zenon
      <4>3. QED
        BY <1>6, <1>11, <2>2, <3>1, <4>1, <4>2
    <3>5. CASE r \in Range(buckets)
      <4>1. Worth(k)' = w - g * Period
        BY <1>0, <1>2, <1>7, <1>14, <2>4, <3>1, <3>5, Zenon DEF Worth
      <4>2. detached'[k] = D
        BY <1>13, <2>4, <3>1, <3>5
      <4>3. QED
        BY <1>1, <3>1, <3>3, <3>4, <4>1, <4>2, Zenon DEF Solvent, Covers
    <3>6. CASE r \notin Range(buckets)
      <4>1. Worth(k)' = w
        BY <1>2, <1>14, <2>4, <3>1, <3>6, Zenon
      <4>2. detached'[k] = D + g
        BY <1>13, <2>4, <3>1, <3>6, Zenon
      <4>3. QED
        BY <1>1, <3>1, <3>3, <3>4, <4>1, <4>2, Zenon DEF Solvent, Covers
    <3>7. QED
      BY <3>5, <3>6, Zenon
  <2>5. QED
    BY <2>3, <2>4, Zenon
<1>16. QED
  BY <1>14, <1>15, Zenon DEF Balanced

\* TokenBucket.Refund gives back at most what was owed, and a refill nothing.
LEMMA FinishStep ==
  ASSUME Balanced, IInv', NEW p \in Procs, Finish(p)
  PROVE  Balanced'
<1>0. PICK c, r, key, old : c = call[p] /\ r = c.ref /\ key = c.key /\ old = heap[r]
  BY Zenon
<1>1. /\ pc[p] = "bucket" /\ c.op # "allow"
      /\ UNCHANGED <<now, buckets, lock, seen, sweep, admitted, forgiven, detached>>
  BY <1>0, Zenon DEF Finish, history
<1>2. /\ c \in Requested /\ key \in Keys /\ r \in DOMAIN heap /\ BucketOK(old)
      /\ \A k \in DOMAIN buckets : buckets[k] = r => k = key
      /\ r \in Range(buckets) <=> key \in DOMAIN buckets /\ buckets[key] = r
  BY <1>0, <1>1, Attached
<1>3. PICK tb : tb = IF c.op = "refund" THEN Refund(old, c.n) ELSE refillLocked(old, now)
  BY Zenon
<1>4. PICK n : n = IF c.op = "refund" THEN c.n ELSE 0
  BY Zenon
<1>5. /\ now \in Nat /\ c.n \in Nat /\ Sane(old, now) /\ old.unit = Period /\ n \in Nat
  BY <1>2, <1>4 DEF Balanced, Typed, Requested, BucketOK
<1>6. Refilled(old, now) \in Nat /\ n * Period \in Nat
  BY <1>5, RefilledBounds, ProductNat, MemoryBounds, Zenon
<1>7. /\ BucketOK(tb) /\ Refilled(tb, now) \in Nat
      /\ Refilled(tb, now) <= Refilled(old, now) + n * Period
  <2>1. CASE c.op = "refund"
    <3>1. /\ Sane(tb, now) /\ SameConfig(tb, old)
          /\ Refilled(tb, now) = AtMost(Refilled(old, now) + n * old.unit, old.maxTokens)
      BY <1>3, <1>4, <1>5, <2>1, RefundEffect, Zenon
    <3>2. BucketOK(tb)
      BY <1>2, <3>1, Zenon DEF BucketOK, SameConfig
    <3>3. Refilled(tb, now) \in Nat
      BY <1>5, <3>1, RefilledBounds, Zenon
    <3>4. old.maxTokens \in Nat
      BY <1>5, Zenon DEF Sane, TokenBuckets
    <3>5. QED
      BY <1>5, <1>6, <3>1, <3>2, <3>3, <3>4 DEF AtMost
  <2>2. CASE c.op # "refund"
    <3>1. /\ Sane(tb, now) /\ SameConfig(tb, old) /\ Refilled(tb, now) = Refilled(old, now)
      BY <1>3, <1>5, <2>2, RefillEffect, Zenon
    <3>2. BucketOK(tb)
      BY <1>2, <3>1, Zenon DEF BucketOK, SameConfig
    <3>3. QED
      BY <1>6, <3>1, <3>2
  <2>3. QED
    BY <2>1, <2>2, Zenon
<1>8. PICK d : d = NoCall
  BY Zenon
<1>9. /\ call' = [call EXCEPT ![p] = d] /\ pc' = [pc EXCEPT ![p] = "idle"]
      /\ heap' = Collect([heap EXCEPT ![r] = tb], buckets, call')
  BY <1>0, <1>3, <1>8, Zenon DEF Finish
<1>10. /\ d.ref = Nobody /\ \A k \in Keys : Owed(d, k) = 0
  BY <1>8, Zenon DEF NoCall, Owed
<1>11. /\ Typed' /\ HeapOK' /\ SweepOK' /\ \A q \in Procs : CallOK(q)'
       /\ \A k \in Keys :
            Worth(k)' = IF k \in DOMAIN buckets /\ buckets[k] = r THEN Refilled(tb, now)
                        ELSE Worth(k)
  <2>1. Uses(p, r, tb, d, "idle")
    BY <1>0, <1>1, <1>7, <1>8, <1>9, <1>10, Zenon DEF Uses, Balanced, Typed
  <2>2. QED
    BY <2>1, UseStep, Zenon DEF Used
<1>12. ASSUME NEW k \in Keys PROVE Solvent(k)'
  <2>1. Owed(c, k) = IF k = key THEN n ELSE 0
    BY <1>0, <1>4, Zenon DEF Owed
  <2>2. /\ Pending(k) \in Nat /\ Owed(c, k) \in Nat /\ Owed(c, k) <= Pending(k)
        /\ Pending(k)' = Pending(k) - Owed(c, k)
    <3>1. Owed(d, k) = 0 /\ Owed(d, k) \in Nat
      BY <1>10
    <3>2. /\ Pending(k) \in Nat /\ Owed(c, k) \in Nat /\ Owed(c, k) <= Pending(k)
          /\ Pending(k)' = Pending(k) - Owed(c, k) + Owed(d, k)
      BY <1>0, <1>9, <3>1, PendingStep, Zenon
    <3>3. QED
      BY <3>1, <3>2
  <2>3. PICK u, w, F, T, D \in Nat :
          /\ u = admitted[k] + Pending(k) /\ w = Worth(k) /\ F = forgiven[k] /\ T = now
          /\ D = detached[k]
    BY SolventCovers
  <2>4. Covers(u, w, F, T, D) /\ admitted[k] \in Nat
    BY <2>3, SolventCovers, Zenon
  <2>5. PICK m \in Nat : m = Owed(c, k)
    BY <2>2, Zenon
  <2>6. PICK v \in Nat : v = Worth(k)' /\ v <= w + m * Period
    <3>1. CASE k \in DOMAIN buckets /\ buckets[k] = r
      <4>1. k = key /\ m = n
        BY <1>2, <2>1, <2>5, <3>1, Zenon
      <4>2. Worth(k)' = Refilled(tb, now) /\ w = Refilled(old, now)
        BY <1>0, <1>11, <2>3, <3>1, Zenon DEF Worth
      <4>3. QED
        BY <1>7, <4>1, <4>2, Zenon
    <3>2. CASE ~(k \in DOMAIN buckets /\ buckets[k] = r)
      <4>1. Worth(k)' = w
        BY <1>11, <2>3, <3>2, Zenon
      <4>2. m * Period \in Nat
        BY MemoryBounds, ProductNat, Zenon
      <4>3. QED
        BY <4>1, <4>2
    <3>3. QED
      BY <3>1, <3>2, Zenon
  <2>7. Covers(u - m, v, F, T, D)
    BY <2>4, <2>6, CoversSteps, Zenon
  <2>8. admitted'[k] + Pending(k)' = u - m
    BY <1>1, <2>2, <2>3, <2>4, <2>5
  <2>9. QED
    BY <1>1, <2>3, <2>6, <2>7, <2>8, Zenon DEF Solvent, Covers
<1>13. QED
  BY <1>11, <1>12, Zenon DEF Balanced

----------------------------------------------------------------------------
\* Steps that only touch the locks, the scan or the cleanup loop.
LEMMA QuietStep ==
  ASSUME Balanced, IInv', SweepOK', lock' \in Procs \cup {Nobody, Sweeper},
         UNCHANGED <<now, buckets, heap, pc, call, admitted, forgiven, detached>>
  PROVE  Balanced'
<1>1. Typed' /\ \A q \in Procs : CallOK(q)'
  BY Zenon DEF Balanced, Typed, CallOK
<1>2. HeapOK'
  BY DEF Balanced, HeapOK, BucketOK, Range
<1>3. \A k \in Keys : Solvent(k)'
  BY PendingSame, Zenon DEF Balanced, Solvent, Worth
<1>4. QED
  BY <1>1, <1>2, <1>3, Zenon DEF Balanced

\* A bucket that cleanup found idle, and that nobody used since, is full.
LEMMA IdleIsFull ==
  ASSUME Balanced, sweep.state = "dropping", heap[buckets[sweep.key]].lastRefillTime = sweep.ts
  PROVE  ~Short(buckets[sweep.key])
<1>1. PICK tb, t, rate, max : /\ tb = heap[buckets[sweep.key]] /\ t = tb.lastRefillTime
                              /\ rate = Limit /\ max = tb.maxTokens
  BY Zenon
<1>2. BucketOK(tb) /\ t = sweep.ts /\ sweep.now \in Nat /\ sweep.now <= now /\ Idle(t)
  BY <1>1, Zenon DEF Balanced, HeapOK, SweepOK
<1>3. /\ now \in Nat /\ t \in Nat /\ rate \in Nat /\ tb.tokens \in Nat /\ tb.refillRate = rate
      /\ max = rate * Period
  BY <1>1, <1>2, MemoryBounds DEF Balanced, Typed, BucketOK, Sane, TokenBuckets
<1>4. PICK e \in Nat : now - t = Period + e
  <2>1. now - t >= Period
    BY <1>2, <1>3, MemoryBounds, AgeCoversPeriod DEF Idle
  <2>2. (now - t) - Period \in Nat /\ now - t = Period + ((now - t) - Period)
    BY <1>3, <2>1, MemoryBounds
  <2>3. QED
    BY <2>2, Zenon
<1>5. (now - t) * rate = max + e * rate /\ e * rate \in Nat /\ max \in Nat
  <2>1. rate * (Period + e) = rate * Period + rate * e
    BY <1>3, MemoryBounds, Distribute
  <2>2. (now - t) * rate = rate * (Period + e) /\ rate * e = e * rate
    BY <1>3, <1>4, MemoryBounds
  <2>3. QED
    BY <1>3, <2>1, <2>2, ProductNat, MemoryBounds, Zenon
<1>6. /\ tb.tokens + (now - t) * rate >= max /\ tb.tokens + (now - t) * rate \in Int
      /\ max \in Int
  BY <1>3, <1>5
<1>7. Refilled(tb, now) = max
  BY <1>1, <1>3, <1>6, AtMostFull, Zenon DEF Refilled
<1>8. QED
  BY <1>1, <1>5, <1>7 DEF Short

\* cleanup drops a bucket: it is full, or its debt is forgiven.
LEMMA SweepDeleteStep ==
  ASSUME Balanced, IInv', SweepDelete
  PROVE  Balanced'
<1>1. PICK k \in Keys : k = sweep.key /\ k \in DOMAIN buckets
  BY Zenon DEF Balanced, SweepDelete, SweepOK, HeapOK
<1>2. /\ UNCHANGED <<now, lock, seen, pc, call, admitted, detached>>
      /\ lock = Sweeper
  BY Zenon DEF SweepDelete, Balanced, IInv, SweepsLocked
<1>3. /\ DOMAIN buckets' = DOMAIN buckets \ {k}
      /\ \A x \in DOMAIN buckets' : buckets'[x] = buckets[x]
  BY <1>1, Zenon DEF SweepDelete, Dropped, Restrict
<1>4. /\ DOMAIN heap' = DOMAIN heap \cap (Range(buckets') \cup {call[p].ref : p \in Procs})
      /\ \A a \in DOMAIN heap' : heap'[a] = heap[a]
  BY Zenon DEF SweepDelete, Collect, Restrict
<1>5. /\ forgiven' \in [Keys -> Nat] /\ \A x \in Keys \ {k} : forgiven'[x] = forgiven[x]
      /\ forgiven'[k] = forgiven[k] + IF Short(buckets[k]) THEN 1 ELSE 0
  <2>1. forgiven' = [x \in Keys |->
                       forgiven[x] + IF x \in {k} /\ Short(buckets[x]) THEN 1 ELSE 0]
    BY <1>1, Zenon DEF SweepDelete, Forgive
  <2>2. QED
    BY <2>1 DEF Balanced, Typed
<1>6. Typed'
  BY <1>2, <1>5, Zenon DEF Balanced, Typed
<1>7. HeapOK'
  <2>1. \A a \in DOMAIN heap' : BucketOK(heap[a])'
    <3> TAKE a \in DOMAIN heap'
    <3>1. BucketOK(heap[a]) /\ heap'[a] = heap[a]
      BY <1>4, Zenon DEF Balanced, HeapOK
    <3>2. QED
      BY <1>2, <3>1, Zenon DEF BucketOK
  <2>2. \A x \in DOMAIN buckets' : buckets'[x] \in DOMAIN heap' /\ buckets'[x][1] = x
    BY <1>3, <1>4, Zenon DEF Balanced, HeapOK, Range
  <2>3. QED
    BY <1>2, <1>3, <1>4, <2>1, <2>2 DEF Balanced, HeapOK, Range
<1>8. SweepOK'
  <2>1. /\ sweep' = [state |-> "sweeping", now |-> sweep.now, todo |-> sweep.todo]
        /\ sweep.now \in Nat /\ sweep.now <= now
        /\ sweep.todo \subseteq DOMAIN buckets \ {k}
    BY <1>1, Zenon DEF SweepDelete, Balanced, SweepOK
  <2>2. \A p \in Procs : pc[p] # "evict"
    BY <1>2, MemoryNames, Zenon DEF Balanced, IInv, Evictor
  <2>3. DOMAIN seen = {}
    BY <2>2, Zenon DEF Balanced, SweepOK
  <2>4. QED
    BY <1>2, <1>3, <2>1, <2>3, Zenon DEF SweepOK
<1>9. \A q \in Procs : CallOK(q)'
  <2> TAKE q \in Procs
  <2>1. call[q].ref \in DOMAIN heap => call[q].ref \in DOMAIN heap'
    BY <1>4, Zenon
  <2>2. QED
    BY <1>2, <2>1, Zenon DEF Balanced, CallOK, Requested, NoCall
<1>10. ASSUME NEW x \in Keys PROVE Solvent(x)'
  <2>1. Pending(x)' = Pending(x)
    BY <1>2, PendingSame, Zenon
  <2>2. CASE x # k
    <3>1. x \in DOMAIN buckets' <=> x \in DOMAIN buckets
      BY <1>3, <2>2, Zenon
    <3>2. x \in DOMAIN buckets => heap'[buckets'[x]] = heap[buckets[x]]
      BY <1>3, <1>4, <3>1, Zenon DEF Balanced, HeapOK, Range
    <3>3. Worth(x)' = Worth(x)
      BY <1>2, <3>1, <3>2, Zenon DEF Worth
    <3>4. QED
      BY <1>2, <1>5, <2>1, <2>2, <3>3, Zenon DEF Balanced, Solvent
  <2>3. CASE x = k
    <3>1. Worth(x)' = Limit * Period /\ Worth(x) = Refilled(heap[buckets[x]], now)
      BY <1>1, <1>3, <2>3, Zenon DEF Worth
    <3>2. PICK u, w, F, T, D, v \in Nat :
            /\ u = admitted[x] + Pending(x) /\ w = Worth(x) /\ F = forgiven[x] /\ T = now
            /\ D = detached[x] /\ v = Limit * Period
      BY SolventCovers, Zenon
    <3>3. Covers(u, w, F, T, D) /\ w <= v
      BY <3>2, SolventCovers, Zenon
    <3>4. CASE Short(buckets[k])
      <4>1. forgiven'[x] = F + 1
        BY <1>5, <2>3, <3>2, <3>4, Zenon
      <4>2. Covers(u, v, F + 1, T, D)
        <5>1. v <= Limit * Period
          BY <3>2
        <5>2. QED
          BY <3>3, <5>1, CoversSteps, Zenon
      <4>3. QED
        BY <1>2, <2>1, <3>1, <3>2, <4>1, <4>2, Zenon DEF Solvent, Covers
    <3>5. CASE ~Short(buckets[k])
      <4>1. forgiven'[x] = F
        BY <1>5, <2>3, <3>2, <3>5
      <4>2. heap[buckets[x]].maxTokens = Limit * Period
        BY <1>1, <2>3, Zenon DEF Balanced, HeapOK, BucketOK
      <4>3. w = v
        BY <2>3, <3>1, <3>2, <3>3, <3>5, <4>2 DEF Short
      <4>4. QED
        BY <1>2, <2>1, <3>1, <3>2, <3>3, <4>1, <4>3, Zenon DEF Solvent, Covers
    <3>6. QED
      BY <3>4, <3>5, Zenon
  <2>4. QED
    BY <2>2, <2>3, Zenon
<1>11. QED
  BY <1>6, <1>7, <1>8, <1>9, <1>10, Zenon DEF Balanced

\* A tick refills every bucket by its rate.
LEMMA TickStep ==
  ASSUME Balanced, IInv', Tick
  PROVE  Balanced'
<1>1. /\ now' = now + 1 /\ now < MaxTime /\ now \in Nat
      /\ UNCHANGED <<buckets, heap, lock, seen, pc, call, sweep, admitted, forgiven, detached>>
  BY DEF Tick, map, history, Balanced, Typed
<1>2. Typed' /\ \A q \in Procs : CallOK(q)'
  BY <1>1, MemoryBounds DEF Balanced, Typed, CallOK
<1>3. \A a \in DOMAIN heap :
        /\ Sane(heap[a], now + 1)
        /\ Refilled(heap[a], now + 1) \in Nat
        /\ Refilled(heap[a], now + 1) <= Refilled(heap[a], now) + Limit
  <2> TAKE a \in DOMAIN heap
  <2>1. BucketOK(heap[a])
    BY Zenon DEF Balanced, HeapOK
  <2>2. /\ Sane(heap[a], now + 1)
        /\ Refilled(heap[a], now + 1) <= Refilled(heap[a], now) + heap[a].refillRate
    BY <1>1, <2>1, RefilledTick, Zenon DEF BucketOK
  <2>3. Refilled(heap[a], now + 1) \in Nat
    BY <1>1, <2>2, RefilledBounds
  <2>4. QED
    BY <2>1, <2>2, <2>3, Zenon DEF BucketOK
<1>4. HeapOK'
  <2>1. \A a \in DOMAIN heap' : BucketOK(heap[a])'
    BY <1>1, <1>3, Zenon DEF Balanced, HeapOK, BucketOK
  <2>2. QED
    BY <1>1, <2>1 DEF Balanced, HeapOK, Range
<1>5. SweepOK'
  BY <1>1 DEF Balanced, SweepOK, Idle
<1>6. ASSUME NEW k \in Keys PROVE Solvent(k)'
  <2>1. Pending(k)' = Pending(k)
    BY <1>1, PendingSame, Zenon
  <2>2. PICK u, w, F, T, D \in Nat :
          /\ u = admitted[k] + Pending(k) /\ w = Worth(k) /\ F = forgiven[k] /\ T = now
          /\ D = detached[k]
    BY SolventCovers
  <2>3. Covers(u, w, F, T, D)
    BY <2>2, SolventCovers, Zenon
  <2>4. PICK v \in Nat : v = Worth(k)' /\ v <= w + Limit
    <3>1. CASE k \in DOMAIN buckets
      BY <1>1, <1>3, <2>2, <3>1, Zenon DEF Balanced, HeapOK, Worth
    <3>2. CASE k \notin DOMAIN buckets
      <4>1. Worth(k)' = w
        BY <1>1, <2>2, <3>2, Zenon DEF Worth
      <4>2. QED
        BY <4>1, MemoryBounds
    <3>3. QED
      BY <3>1, <3>2, Zenon
  <2>5. Covers(u, v, F, T + 1, D)
    BY <2>3, <2>4, CoversSteps, Zenon
  <2>6. QED
    BY <1>1, <2>1, <2>2, <2>4, <2>5, Zenon DEF Solvent, Covers
<1>7. QED
  BY <1>2, <1>4, <1>5, <1>6, Zenon DEF Balanced

\* The steps of the write-locked half of getOrCreate and its eviction.
LEMMA CreateStep ==
  ASSUME Balanced, IInv', NEW p \in Procs, Create(p)
  PROVE  Balanced'
<1>1. /\ pc[p] = "create" /\ lock = Nobody
      /\ UNCHANGED <<now, seen, sweep, admitted, detached>>
      /\ call[p] \in Requested /\ call[p].ref = Nobody
  BY Zenon DEF Create, Balanced, CallOK
<1>2. CASE call[p].key \in DOMAIN buckets
  <2>1. PICK d : d = [call[p] EXCEPT !.ref = buckets[call[p].key]]
    BY Zenon
  <2>2. /\ buckets[call[p].key] \in DOMAIN heap /\ buckets[call[p].key][1] = call[p].key
        /\ buckets[call[p].key] \in Addresses
    BY <1>2, Zenon DEF Balanced, HeapOK
  <2>3. /\ d \in Requested /\ d.ref = buckets[call[p].key] /\ d.key = call[p].key
        /\ d.op = call[p].op /\ d.n = call[p].n
    BY <1>1, <2>1, <2>2, Zenon DEF Requested
  <2>4. \A k \in Keys : Owed(d, k) = Owed(call[p], k)
    BY <2>3, Zenon DEF Owed
  <2>5. IF "bucket" = "bucket" THEN d.ref \in DOMAIN heap /\ d.ref[1] = d.key ELSE d.ref = Nobody
    BY <2>2, <2>3, Zenon
  <2>6. /\ call' = [call EXCEPT ![p] = d] /\ pc' = [pc EXCEPT ![p] = "bucket"]
        /\ UNCHANGED <<buckets, heap, lock, forgiven>>
    BY <1>2, <2>1, Zenon DEF Create, Recheck
  <2>7. pc[p] \notin {"bucket", "evict"} /\ lock' \in Procs \cup {Nobody, Sweeper}
    BY <1>1, <2>6, Zenon
  <2>8. QED
    BY <1>1, <2>3, <2>4, <2>5, <2>6, <2>7, MoveStep, Zenon
<1>3. CASE call[p].key \notin DOMAIN buckets /\ Full
  <2>1. PICK d : d = call[p]
    BY Zenon
  <2>2. /\ lock' = p /\ pc' = [pc EXCEPT ![p] = "evict"]
        /\ UNCHANGED <<call, buckets, heap, forgiven>>
    BY <1>3, Zenon DEF Create, Recheck
  <2>4. IF "evict" = "bucket" THEN d.ref \in DOMAIN heap /\ d.ref[1] = d.key ELSE d.ref = Nobody
    BY <1>1, <2>1, Zenon
  <2>5. /\ pc[p] \notin {"bucket", "evict"} /\ lock' \in Procs \cup {Nobody, Sweeper}
        /\ \A k \in Keys : Owed(d, k) = Owed(call[p], k)
    BY <1>1, <2>1, <2>2, Zenon
  <2>6. QED
    BY <1>1, <2>1, <2>2, <2>4, <2>5, MoveStep, Zenon
<1>4. CASE call[p].key \notin DOMAIN buckets /\ ~Full
  <2>1. Insert(p, {}) /\ UNCHANGED lock
    BY <1>4, Zenon DEF Create, Recheck
  <2>2. DOMAIN seen = {}
    BY <1>1, MemoryNames, Zenon DEF Balanced, IInv, Evictor, SweepOK
  <2>3. {} \in SUBSET DOMAIN buckets /\ lock # Sweeper /\ lock' \in Procs \cup {Nobody, Sweeper}
    BY <1>1, <2>1, MemoryNames, Zenon
  <2>4. QED
    BY <1>1, <1>4, <2>1, <2>2, <2>3, InsertStep, Zenon
<1>5. QED
  BY <1>2, <1>3, <1>4, Zenon

LEMMA EvictStep ==
  ASSUME Balanced, IInv', NEW p \in Procs, NEW gone \in SUBSET DOMAIN buckets, Evict(p, gone)
  PROVE  Balanced'
<1>1. /\ pc[p] = "evict" /\ Insert(p, gone) /\ seen' = <<>> /\ lock' = Nobody
      /\ UNCHANGED <<now, sweep, admitted, detached>>
  BY Zenon DEF Evict
<1>2. call[p].key \notin DOMAIN buckets /\ lock # Sweeper
  BY <1>1, MemoryNames, Zenon DEF Balanced, IInv, Evictor
<1>3. DOMAIN seen' = {} /\ lock' \in Procs \cup {Nobody, Sweeper}
  BY <1>1
<1>4. QED
  BY <1>1, <1>2, <1>3, InsertStep, Zenon

LEMMA ScanStep ==
  ASSUME Balanced, IInv', NEW p \in Procs, NEW k \in Keys, Scan(p, k)
  PROVE  Balanced'
<1>1. /\ pc[p] = "evict" /\ k \in DOMAIN buckets /\ DOMAIN seen' = DOMAIN seen \cup {k}
      /\ UNCHANGED <<now, buckets, heap, lock, pc, call, sweep, admitted, forgiven, detached>>
  BY Zenon DEF Scan, history
<1>2. SweepOK'
  BY <1>1, Zenon DEF Balanced, SweepOK, Idle
<1>3. lock' \in Procs \cup {Nobody, Sweeper}
  BY <1>1, Zenon DEF Balanced, Typed
<1>4. QED
  BY <1>1, <1>2, <1>3, QuietStep, Zenon

\* The cleanup loop, its end and the end of the component.
LEMMA SweepStep ==
  ASSUME Balanced, IInv',
         SweepBegin \/ (\E k \in Keys : SweepRead(k)) \/ SweepEnd \/ SweepExit
         \/ Close \/ UNCHANGED vars
  PROVE  Balanced'
<1>1. /\ UNCHANGED <<now, buckets, heap, seen, pc, call, admitted, forgiven, detached>>
      /\ lock' \in Procs \cup {Nobody, Sweeper}
  BY Zenon DEF Balanced, Typed, SweepBegin, SweepRead, SweepEnd, SweepExit, Close, vars, map, history
<1>2. now \in Nat
  BY DEF Balanced, Typed
<1>3. SweepOK'
  <2>1. CASE SweepBegin
    BY <1>1, <1>2, <2>1 DEF SweepBegin, Balanced, SweepOK
  <2>2. ASSUME NEW k \in Keys, SweepRead(k) PROVE SweepOK'
    <3>1. PICK ts : ts = heap[buckets[k]].lastRefillTime
      BY Zenon
    <3>2. /\ sweep.state = "sweeping" /\ k \in sweep.todo
          /\ sweep = [state |-> "sweeping", now |-> sweep.now, todo |-> sweep.todo]
          /\ sweep.now \in Nat /\ sweep.now <= now /\ sweep.todo \subseteq DOMAIN buckets
      BY <2>2, Zenon DEF SweepRead, Balanced, SweepOK
    <3>3. ts \in Nat
      BY <3>1, <3>2, Zenon DEF Balanced, HeapOK, BucketOK, Sane, TokenBuckets
    <3>4. CASE Idle(ts)
      <4>1. sweep' = [state |-> "dropping", now |-> sweep.now, key |-> k, ts |-> ts,
                      todo |-> sweep.todo \ {k}]
        BY <2>2, <3>1, <3>4, Zenon DEF SweepRead
      <4>2. QED
        BY <1>1, <3>2, <3>3, <3>4, <4>1, Zenon DEF Balanced, SweepOK, Idle
    <3>5. CASE ~Idle(ts)
      <4>1. sweep' = [state |-> "sweeping", now |-> sweep.now, todo |-> sweep.todo \ {k}]
        BY <2>2, <3>1, <3>2, <3>5, Zenon DEF SweepRead
      <4>2. QED
        BY <1>1, <3>2, <4>1, Zenon DEF Balanced, SweepOK
    <3>6. QED
      BY <3>4, <3>5, Zenon
  <2>3. CASE SweepEnd \/ SweepExit
    BY <1>1, <2>3 DEF SweepEnd, SweepExit, Waiting, Balanced, SweepOK
  <2>4. CASE Close \/ UNCHANGED vars
    BY <1>1, <2>4, Zenon DEF Close, vars, Balanced, SweepOK, Idle
  <2>5. QED
    BY <2>1, <2>2, <2>3, <2>4, Zenon
<1>4. QED
  BY <1>1, <1>3, QuietStep, Zenon

LEMMA BalancedInit ==
  ASSUME Init
  PROVE  Balanced
<1>1. DOMAIN buckets = {} /\ DOMAIN heap = {} /\ DOMAIN seen = {} /\ now = 0
  BY NothingMapped, Zenon DEF Init
<1>2. Typed /\ HeapOK /\ SweepOK /\ \A p \in Procs : CallOK(p)
  BY <1>1, MemoryBounds DEF Init, Typed, HeapOK, SweepOK, CallOK, NoCall, Waiting
<1>3. ASSUME NEW k \in Keys PROVE Solvent(k)
  <2>1. [q \in Procs |-> Owed(call[q], k)] = [q \in Procs |-> 0]
    BY Zenon DEF Init, NoCall, Owed
  <2>2. Pending(k) = 0
    BY <2>1, TotalZero, Zenon DEF Pending
  <2>3. /\ Worth(k) = Limit * Period /\ Limit * Period \in Nat
        /\ admitted[k] = 0 /\ forgiven[k] = 0 /\ detached[k] = 0
    BY <1>1, MemoryBounds, ProductNat, Zenon DEF Init, Worth
  <2>4. Period * (0 + 0) = 0 /\ Limit * Period * (1 + 0) = Limit * Period /\ Limit * 0 = 0
        /\ Period * 0 = 0
    BY <2>3, MemoryBounds
  <2>5. QED
    BY <1>1, <2>2, <2>3, <2>4 DEF Solvent
<1>4. QED
  BY <1>2, <1>3, LocksInit, Zenon DEF Balanced

LEMMA BalancedStep ==
  ASSUME Balanced, [Next]_vars
  PROVE  Balanced'
<1>0. IInv'
  BY LocksStep, Zenon DEF Balanced
<1>1. ASSUME NEW p \in Procs, NEW k \in Keys, NEW op \in {"allow", "available"}, NEW n \in Nat,
             Begin(p, op, k, n)
      PROVE  Balanced'
  <2>1. PICK c : c = [op |-> op, key |-> k, n |-> n, ref |-> Nobody]
    BY Zenon
  <2>2. pc[p] = "idle" /\ Lookup(p, c) /\ call[p] = NoCall
    BY <1>1, <2>1, Zenon DEF Begin, Balanced, CallOK
  <2>3. c \in Requested /\ c.ref = Nobody /\ c.op # "refund"
    BY <2>1, Zenon DEF Requested
  <2>4. \A x \in Keys : Owed(c, x) = Owed(call[p], x)
    BY <2>2, <2>3 DEF Owed, NoCall
  <2>5. QED
    BY <1>0, <2>2, <2>3, <2>4, LookupStep, Zenon
<1>2. ASSUME NEW p \in Procs, BeginRefund(p) PROVE Balanced'
  <2>1. PICK c : c = call[p]
    BY Zenon
  <2>2. pc[p] = "refund" /\ Lookup(p, c) /\ c \in Requested /\ c.ref = Nobody
    BY <1>2, <2>1, Zenon DEF BeginRefund, Balanced, CallOK
  <2>3. QED
    BY <1>0, <2>1, <2>2, LookupStep, Zenon
<1>3. ASSUME NEW p \in Procs, Step(p) PROVE Balanced'
  BY <1>0, <1>2, <1>3, CreateStep, FinishStep, ScanStep, EvictStep, TakeStep, Zenon DEF Step
<1>4. Requests \subseteq Nat /\ 0 \in Nat
  BY MemoryBounds, Zenon
<1>5. QED
  BY <1>0, <1>1, <1>3, <1>4, SweepStep, SweepDeleteStep, TickStep, Zenon DEF Next, Sweeping

LEMMA BalancedAlways ==
  Spec => []Balanced
BY BalancedInit, BalancedStep, PTL DEF Spec

----------------------------------------------------------------------------
\* The map and the goroutines refer to buckets that exist, and a goroutine has a
\* bucket in hand exactly while it is about to use one (getOrCreate).
THEOREM Types == Spec => []TypeOK
<1>1. ASSUME Balanced PROVE TypeOK
  <2>1. \A a \in DOMAIN heap : heap[a] \in TokenBuckets
    BY <1>1, Zenon DEF Balanced, HeapOK, BucketOK, Sane
  <2>2. DOMAIN heap \subseteq Addresses /\ DOMAIN buckets \subseteq Keys
    BY <1>1, Zenon DEF Balanced, HeapOK
  <2>3. Range(buckets) \subseteq DOMAIN heap /\ Range(heap) \subseteq TokenBuckets
    BY <1>1, <2>1, Zenon DEF Balanced, HeapOK, Range
  <2>4. Nobody \notin DOMAIN heap
    BY <2>2, MemoryNames DEF Addresses
  <2>5. \A p \in Procs : /\ pc[p] \in {"idle", "refund", "create", "evict", "bucket"}
                         /\ pc[p] = "bucket" <=> call[p].ref # Nobody
    BY <1>1, <2>4, Zenon DEF Balanced, CallOK
  <2>6. QED
    BY <1>1, <2>2, <2>3, <2>5, Zenon DEF Balanced, Typed, SweepOK, TypeOK
<1>2. QED
  BY <1>1, BalancedAlways, PTL

\* However calls, refunds, evictions and sweeps interleave, a key's admissions exceed
\* its budget only by the debts of dropped buckets and by what dropped buckets granted.
THEOREM BudgetKept == Spec => []BudgetBound
<1>1. ASSUME Balanced PROVE BudgetBound
  <2> SUFFICES ASSUME NEW k \in Keys
               PROVE  Period * admitted[k]
                        <= Limit * Period * (1 + forgiven[k]) + Limit * now + Period * detached[k]
    BY Zenon DEF BudgetBound
  <2>1. PICK u, w, F, T, D, n \in Nat :
          /\ u = admitted[k] + Pending(k) /\ w = Worth(k) /\ F = forgiven[k] /\ T = now
          /\ D = detached[k] /\ n = Pending(k)
    BY <1>1, SolventCovers, Zenon
  <2>2. Covers(u, w, F, T, D) /\ admitted[k] = u - n
    BY <1>1, <2>1, SolventCovers, Zenon
  <2>3. Covers(u - n, 0, F, T, D)
    <3>1. n * Period \in Nat
      BY MemoryBounds, ProductNat, Zenon
    <3>2. 0 <= w + n * Period /\ 0 \in Nat
      BY <3>1
    <3>3. QED
      BY <2>2, <3>2, CoversSteps, Zenon
  <2>4. Period * (u - n) \in Int
    BY MemoryBounds
  <2>5. QED
    BY <2>1, <2>2, <2>3, <2>4 DEF Covers
<1>2. QED
  BY <1>1, BalancedAlways, PTL

\* cleanup drops only full buckets, unless one was used after its age was read: an
\* idle bucket has been refilled for longer than a period.
THEOREM CleanupHarmless == Spec => CleanupForgetsNoDebt
<1> DEFINE Harmless ==
             \A k \in DOMAIN buckets \ DOMAIN buckets' :
               lock = Sweeper =>
                 \/ ~Short(buckets[k])
                 \/ heap[buckets[k]].lastRefillTime # sweep.ts
<1>1. ASSUME Balanced, [Next]_vars PROVE Harmless
  <2> SUFFICES ASSUME NEW k \in DOMAIN buckets \ DOMAIN buckets', lock = Sweeper
               PROVE  \/ ~Short(buckets[k])
                      \/ heap[buckets[k]].lastRefillTime # sweep.ts
    BY Zenon
  <2>1. SweepDelete
    <3>1. \A p \in Procs : pc[p] # "evict"
      BY <1>1, MemoryNames, Zenon DEF Balanced, IInv, Evictor
    <3>2. lock # Nobody /\ ~UNCHANGED buckets
      BY MemoryNames, Zenon
    <3>3. ASSUME NEW p \in Procs, Step(p) PROVE FALSE
      BY <3>1, <3>2, <3>3, Zenon DEF Step, BeginRefund, Lookup, Create, Finish, Scan, Evict, Take, map
    <3>4. QED
      BY <1>1, <3>2, <3>3, Zenon
      DEF Next, Sweeping, Begin, Lookup, SweepBegin, SweepRead, SweepEnd, SweepExit, Close,
          Tick, vars, map
  <2>2. sweep.state = "dropping" /\ k = sweep.key
    BY <2>1, Zenon DEF SweepDelete, Dropped, Restrict
  <2>3. QED
    BY <1>1, <2>2, IdleIsFull, Zenon
<1>2. QED
  BY <1>1, BalancedAlways, PTL DEF Spec, CleanupForgetsNoDebt

----------------------------------------------------------------------------
\* ms.mu is held across steps only by evictOldestLocked, in a map that is full,
\* and by cleanup.
Holder ==
  /\ lock \in Procs => pc[lock] = "evict" /\ Full /\ \A k \in DOMAIN seen : seen[k] \in Nat
  /\ lock = Sweeper => sweep.state \in {"sweeping", "dropping"}

\* Whoever holds ms.mu can take its next step, without anybody else: read one
\* more timestamp, or evict at least one bucket, the oldest there are; or read
\* one more bucket's age, drop the bucket, or unlock.
HolderGoesOn ==
  /\ lock \in Procs =>
       /\ pc[lock] = "evict"
       /\ \/ \E k \in Keys : k \in DOMAIN buckets \ DOMAIN seen
          \/ /\ DOMAIN seen = DOMAIN buckets
             /\ \E gone \in SUBSET DOMAIN buckets : gone # {} /\ Oldest(gone)
  /\ lock = Sweeper =>
       \/ sweep.state = "dropping" /\ sweep.key \in DOMAIN buckets
       \/ sweep.state = "sweeping" /\ (sweep.todo = {} \/ \E k \in Keys : k \in sweep.todo)

LEMMA HolderKept ==
  ASSUME Balanced, Balanced', Holder, [Next]_vars
  PROVE  Holder'
<1>1. CASE lock' = Nobody
  BY <1>1, MemoryNames, Zenon DEF Holder
<1>2. ASSUME UNCHANGED <<buckets, lock, seen>>, lock \in Procs => pc'[lock] = pc[lock],
             lock = Sweeper => sweep'.state \in {"sweeping", "dropping"}
      PROVE  Holder'
  BY <1>2, Zenon DEF Holder, Full
<1>3. \A p \in Procs : lock = p => pc[p] = "evict"
  BY Zenon DEF Holder
<1>4. DOMAIN pc = Procs
  BY Zenon DEF Balanced, IInv
<1>5. ASSUME NEW p \in Procs, Create(p) PROVE Holder'
  <2>1. CASE Full /\ ~Recheck(call[p].key)
    <3>1. /\ lock = Nobody /\ lock' = p /\ pc'[p] = "evict"
          /\ UNCHANGED <<buckets, seen>>
      BY <1>4, <1>5, <2>1, Zenon DEF Create
    <3>2. DOMAIN seen = {}
      BY <3>1, MemoryNames, Zenon DEF Balanced, IInv, Evictor, SweepOK
    <3>3. QED
      BY <2>1, <3>1, <3>2, MemoryNames, Zenon DEF Holder, Full
  <2>2. CASE ~(Full /\ ~Recheck(call[p].key))
    BY <1>1, <1>5, <2>2, Zenon DEF Create
  <2>3. QED
    BY <2>1, <2>2, Zenon
<1>6. ASSUME NEW p \in Procs, NEW k \in Keys, Scan(p, k) PROVE Holder'
  <2>1. lock = p /\ lock' = p /\ pc' = pc /\ pc[p] = "evict" /\ UNCHANGED <<buckets, heap>>
    BY <1>6, Zenon DEF Scan, Balanced, IInv, Evictor
  <2>2. heap[buckets[k]].lastRefillTime \in Nat
    BY <1>6, Zenon DEF Scan, Balanced, HeapOK, BucketOK, Sane, TokenBuckets
  <2>3. \A x \in DOMAIN seen' : seen'[x] \in Nat
    BY <1>6, <2>1, <2>2, Zenon DEF Scan, Holder
  <2>4. QED
    BY <2>1, <2>3, MemoryNames, Zenon DEF Holder, Full
<1>7. ASSUME NEW p \in Procs, Step(p) PROVE Holder'
  <2>1. CASE BeginRefund(p)
    BY <1>1, <2>1, Zenon DEF BeginRefund, Lookup, map
  <2>2. CASE Finish(p)
    BY <1>2, <1>3, <1>4, <2>2, Zenon DEF Finish, Holder
  <2>3. ASSUME NEW gone \in SUBSET DOMAIN buckets, Evict(p, gone) PROVE Holder'
    BY <1>1, <2>3, Zenon DEF Evict
  <2>4. ASSUME NEW back \in 0 .. Limit, Take(p, back) PROVE Holder'
    BY <1>2, <1>3, <1>4, <2>4, Zenon DEF Take, Holder
  <2>5. QED
    BY <1>5, <1>6, <1>7, <2>1, <2>2, <2>3, <2>4, Zenon DEF Step
<1>8. ASSUME NEW p \in Procs, NEW op, NEW k, NEW n, Begin(p, op, k, n) PROVE Holder'
  BY <1>1, <1>8, Zenon DEF Begin, Lookup, map
<1>9. CASE SweepBegin
  BY <1>9, MemoryNames, Zenon DEF SweepBegin, Holder
<1>10. ASSUME NEW k \in Keys, SweepRead(k) PROVE Holder'
  <2>1. lock = Sweeper /\ lock' = Sweeper
    BY <1>10, Zenon DEF SweepRead, map, Balanced, IInv, SweepsLocked
  <2>2. sweep' = [sweep EXCEPT !.todo = @ \ {k}] => sweep'.state = "sweeping"
    BY <1>10, Zenon DEF SweepRead, Balanced, SweepOK
  <2>3. sweep'.state \in {"sweeping", "dropping"}
    BY <1>10, <2>2, Zenon DEF SweepRead
  <2>4. QED
    BY <2>1, <2>3, MemoryNames, Zenon DEF Holder
<1>11. CASE SweepDelete
  <2>1. lock = Sweeper /\ lock' = Sweeper /\ sweep'.state = "sweeping"
    BY <1>11, Zenon DEF SweepDelete, Balanced, IInv, SweepsLocked
  <2>2. QED
    BY <2>1, MemoryNames, Zenon DEF Holder
<1>12. CASE SweepEnd
  BY <1>1, <1>12, Zenon DEF SweepEnd
<1>13. CASE SweepExit
  BY <1>2, <1>13, Zenon DEF SweepExit, map, Waiting, Holder
<1>14. CASE Close \/ Tick \/ UNCHANGED vars
  BY <1>2, <1>14, Zenon DEF Close, Tick, vars, map, Holder
<1>15. QED
  BY <1>7, <1>8, <1>9, <1>10, <1>11, <1>12, <1>13, <1>14, Zenon DEF Next, Sweeping

\* evictOldestLocked and cleanup never get stuck with ms.mu in their hands, so
\* that nobody waits for it on account of the map's state: an eviction always
\* finds as many oldest buckets as it has to drop, and at least one.
THEOREM HolderIsFree == Spec => []HolderGoesOn
<1>1. Init => Holder
  BY MemoryNames, Zenon DEF Init, Holder
<1>2. ASSUME Balanced, Holder PROVE HolderGoesOn
  <2>1. ASSUME lock \in Procs, ~(\E k \in Keys : k \in DOMAIN buckets \ DOMAIN seen)
        PROVE  /\ DOMAIN seen = DOMAIN buckets
               /\ \E gone \in SUBSET DOMAIN buckets : gone # {} /\ Oldest(gone)
    <3>1. DOMAIN seen = DOMAIN buckets
      BY <1>2, <2>1, Zenon DEF Balanced, HeapOK, SweepOK
    <3>2. /\ IsFiniteSet(DOMAIN buckets) /\ Cardinality(DOMAIN buckets) >= maxBuckets
          /\ \A k \in DOMAIN buckets : seen[k] \in Nat
      BY <1>2, <2>1, <3>1, Zenon DEF Balanced, IInv, Holder, Full
    <3>3. PICK c \in Nat : c = Cardinality(DOMAIN buckets)
      BY <3>2, FS_CardinalityType, Zenon
    <3>4. PICK n \in Nat : n = c - target /\ n <= Cardinality(DOMAIN buckets) /\ n # 0
      BY <3>2, <3>3, EvictsSome, Zenon
    <3>5. PICK gone \in SUBSET DOMAIN buckets :
            /\ IsFiniteSet(gone) /\ Cardinality(gone) = n
            /\ \A k \in gone, x \in DOMAIN buckets \ gone : seen[k] <= seen[x]
      <4>1. PICK S, f : S = DOMAIN buckets /\ f = seen
        BY Zenon
      <4>2. IsFiniteSet(S) /\ n <= Cardinality(S) /\ \A k \in S : f[k] \in Nat
        BY <3>2, <3>4, <4>1, Zenon
      <4>3. \E T \in SUBSET S : /\ IsFiniteSet(T) /\ Cardinality(T) = n
                                /\ \A k \in T, x \in S \ T : f[k] <= f[x]
        BY <4>2, OldestExist, Zenon
      <4>4. QED
        BY <4>1, <4>3, Zenon
    <3>6. gone # {}
      BY <3>4, <3>5, FS_EmptySet, Zenon
    <3>7. QED
      BY <3>1, <3>3, <3>4, <3>5, <3>6, Zenon DEF Oldest
  <2>2. lock = Sweeper =>
          \/ sweep.state = "dropping" /\ sweep.key \in DOMAIN buckets
          \/ sweep.state = "sweeping" /\ (sweep.todo = {} \/ \E k \in Keys : k \in sweep.todo)
    BY <1>2, Zenon DEF Holder, Balanced, SweepOK, HeapOK
  <2>3. QED
    BY <1>2, <2>1, <2>2, Zenon DEF HolderGoesOn, Holder
<1>3. Balanced /\ Balanced' /\ Holder /\ [Next]_vars => Holder'
  BY HolderKept, Zenon
<1>4. Balanced /\ Holder => HolderGoesOn
  BY <1>2, Zenon
<1>5. QED
  BY <1>1, <1>3, <1>4, BalancedAlways, PTL DEF Spec
=============================================================================
