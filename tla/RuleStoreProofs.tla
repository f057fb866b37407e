-------------------------- MODULE RuleStoreProofs --------------------------
(***************************************************************************)
(* What RuleStore promises for any number of replicas, operators and       *)
(* writes, any rule documents and any full_resync_every.                   *)
(***************************************************************************)
EXTENDS RuleStore, FiniteSetTheorems, TLAPS

\* Versions and histories of the store are numbers.
StoreTypes ==
  /\ version \in Nat /\ writes \in Nat /\ covered \in Nat /\ covered <= writes
  /\ wiped \in BOOLEAN
  /\ WaitForInitialLoad \in BOOLEAN /\ FailClosedOnEmpty \in BOOLEAN
  /\ reading \in [Replicas -> Nat \cup {None}]
  /\ fresh \in [Replicas -> Nat]
  /\ missed \in [Replicas -> Nat] /\ pollsSinceFull \in [Replicas -> Nat]
  /\ everLoaded \in [Replicas -> BOOLEAN] /\ mode \in [Replicas -> Modes]
  /\ snapshot = [r \in Replicas |-> snapshot[r]]
  /\ \A r \in Replicas : snapshot[r].version \in Nat

\* No replica is ahead of Redis, and one that is level with it has everything
\* the last INCR covered.
Level ==
  ~wiped =>
    /\ version = 0 => covered = 0
    /\ \A r \in Replicas :
         /\ snapshot[r].version <= version
         /\ reading[r] # None => reading[r] <= version
         /\ snapshot[r].version = version => fresh[r] >= covered

\* Polls that left a replica out of date were version-only polls.
Counted ==
  \A r \in Replicas :
    /\ missed[r] <= pollsSinceFull[r]
    /\ pollsSinceFull[r] <= IF fullEvery <= 1 THEN 0 ELSE fullEvery - 1

StoreInv == StoreTypes /\ Level /\ Counted /\ FailClosed

----------------------------------------------------------------------------
\* The rules built from a hash do not depend on the version they are built
\* under.
LEMMA BuiltRules ==
  ASSUME NEW d, NEW v, NEW u
  PROVE  /\ buildRuleSet(d, v).rules = buildRuleSet(d, u).rules
         /\ buildRuleSet(d, v).version = v
BY DEF buildRuleSet

\* The program starts in the invariant.
LEMMA StoreInit == Init => StoreInv
<1> SUFFICES ASSUME Init PROVE StoreInv
  OBVIOUS
<1>1. \A r \in Replicas : snapshot[r].version = 0
  BY DEF Init, emptyRuleSet
<1>2. StoreTypes
  <2>1. snapshot = [r \in Replicas |-> snapshot[r]]
    BY DEF Init
  <2>2. everLoaded \in [Replicas -> BOOLEAN] /\ mode \in [Replicas -> Modes]
    BY DEF Init, Modes
  <2>3. /\ wiped \in BOOLEAN
        /\ WaitForInitialLoad \in BOOLEAN /\ FailClosedOnEmpty \in BOOLEAN
    BY DEF Init
  <2>4. /\ version \in Nat /\ writes \in Nat /\ covered \in Nat /\ covered <= writes
        /\ reading \in [Replicas -> Nat \cup {None}]
        /\ fresh \in [Replicas -> Nat]
        /\ missed \in [Replicas -> Nat] /\ pollsSinceFull \in [Replicas -> Nat]
    BY DEF Init
  <2> QED BY <1>1, <2>1, <2>2, <2>3, <2>4 DEF StoreTypes
<1>3. Level
  BY <1>1 DEF Init, Level
<1>4. Counted
  BY StoreConstants DEF Init, Counted
<1>5. FailClosed
  BY DEF Init, FailClosed
<1> QED BY <1>2, <1>3, <1>4, <1>5 DEF StoreInv

\* Steps that touch neither Redis' version nor any replica keep the invariant,
\* as do writes to the hash.
LEMMA WriterKeeps ==
  ASSUME StoreInv, UNCHANGED <<config, store, version, covered, wiped>>,
         writes' \in Nat, writes' >= writes
  PROVE  StoreInv'
BY DEF StoreInv, StoreTypes, Level, Counted, FailClosed, config, store

\* An operator's command keeps the invariant.
LEMMA CommandKeeps ==
  ASSUME StoreInv, NEW w \in Writers, Command(w)
  PROVE  StoreInv'
<1> USE DEF StoreInv, StoreTypes
<1>1. CASE bump(w)
  <2> USE <1>1 DEF bump, config, store
  <2>1. StoreTypes' /\ Counted' /\ FailClosed'
    BY DEF Counted, FailClosed
  <2>2. Level'
    BY DEF Level
  <2> QED BY <2>1, <2>2
<1>2. ASSUME NEW d, Write(w, d) PROVE StoreInv'
  BY <1>2, WriterKeeps DEF Write
<1>3. CASE \E i \in Ids : rm(w, i) \/ toggleRead(w, i) \/ \E d \in Docs : add(w, i, d)
  <2>1. PICK i \in Ids : rm(w, i) \/ toggleRead(w, i) \/ \E d \in Docs : add(w, i, d)
    BY <1>3
  <2>2. CASE rm(w, i)
    BY <2>2, <1>2 DEF rm
  <2>3. CASE toggleRead(w, i)
    BY <2>3, WriterKeeps DEF toggleRead
  <2>4. CASE \E d \in Docs : add(w, i, d)
    BY <2>4, <1>2 DEF add
  <2> QED BY <2>1, <2>2, <2>3, <2>4
<1>4. CASE \E want \in BOOLEAN : toggleWrite(w, want)
  BY <1>4, <1>2 DEF toggleWrite
<1>5. CASE flush(w)
  BY <1>5, <1>2 DEF flush
<1>6. CASE Forget(w)
  BY <1>6, WriterKeeps DEF Forget
<1> QED BY <1>1, <1>3, <1>4, <1>5, <1>6 DEF Command

\* A loss of data keeps the invariant: it promises nothing about versions then.
LEMMA WipeKeeps == StoreInv /\ Wipe => StoreInv'
BY DEF StoreInv, StoreTypes, Level, Counted, FailClosed, Wipe, config, store

\* A start and a failed read change no snapshot.
LEMMA ControlKeeps ==
  ASSUME StoreInv, NEW r \in Replicas, Start(r) \/ recordError(r)
  PROVE  StoreInv'
<1> USE DEF StoreInv, StoreTypes, config, redis
<1>1. CASE Start(r)
  BY <1>1 DEF Start, Level, Counted, FailClosed, Modes
<1>2. CASE recordError(r)
  BY <1>2, StoreConstants DEF recordError, Level, Counted, FailClosed, Modes
<1> QED BY <1>1, <1>2

\* A poll of the version: either it is counted, or the hash is read next.
LEMMA ReadVersionKeeps ==
  ASSUME StoreInv, NEW r \in Replicas, ReadVersion(r)
  PROVE  StoreInv'
<1> USE DEF StoreInv, StoreTypes, config, redis
<1>1. CASE ~fullDue(r) /\ version = snapshot[r].version
  <2>1. /\ fullEvery > 1 /\ pollsSinceFull[r] + 1 <= fullEvery - 1
        /\ mode[r] # "load" /\ (mode[r] = "first" => everLoaded[r])
    BY <1>1, StoreConstants DEF fullDue, Counted
  <2>2. StoreTypes' /\ Level'
    BY <1>1 DEF ReadVersion, Level, AfterRefresh, Modes
  <2>3. Counted'
    BY <1>1, <2>1, StoreConstants DEF ReadVersion, Counted
  <2>4. FailClosed'
    BY <1>1, <2>1 DEF ReadVersion, FailClosed, AfterRefresh, Modes
  <2> QED BY <2>2, <2>3, <2>4
<1>2. CASE fullDue(r) \/ version # snapshot[r].version
  BY <1>2 DEF ReadVersion, Level, Counted, FailClosed
<1> QED BY <1>1, <1>2

\* A read of the hash, published under the version read before it.
LEMMA FetchKeeps ==
  ASSUME StoreInv, NEW r \in Replicas, Fetch(r)
  PROVE  StoreInv'
<1> USE DEF StoreInv, StoreTypes, config, redis
<1>1. /\ reading[r] \in Nat
      /\ snapshot'[r].version = reading[r]
      /\ \A q \in Replicas : q # r => snapshot'[q] = snapshot[q]
      /\ snapshot' = [q \in Replicas |-> snapshot'[q]]
  BY BuiltRules DEF Fetch
<1>2. StoreTypes'
  BY <1>1 DEF Fetch, AfterRefresh, Modes
<1>3. Level'
  BY <1>1 DEF Fetch, Level
<1>4. Counted'
  BY StoreConstants DEF Fetch, Counted
<1>5. FailClosed'
  BY DEF Fetch, FailClosed, AfterRefresh, Modes
<1> QED BY <1>2, <1>3, <1>4, <1>5

\* A replica that is gone is as it was in the beginning.
LEMMA GoneKeeps ==
  ASSUME StoreInv, NEW r \in Replicas, Gone(r), UNCHANGED <<config, redis>>
  PROVE  StoreInv'
<1> USE DEF StoreInv, StoreTypes, config, redis
<1>1. StoreTypes'
  BY DEF Gone, Modes, emptyRuleSet
<1>2. Level'
  BY DEF Gone, Level, emptyRuleSet
<1>3. Counted'
  BY StoreConstants DEF Gone, Counted
<1>4. FailClosed'
  BY DEF Gone, FailClosed, Modes
<1> QED BY <1>1, <1>2, <1>3, <1>4

\* Every step keeps the invariant.
LEMMA StepKeeps == StoreInv /\ [Next]_vars => StoreInv'
<1> SUFFICES ASSUME StoreInv, [Next]_vars PROVE StoreInv'
  OBVIOUS
<1>1. CASE UNCHANGED vars
  BY <1>1, WriterKeeps DEF vars, redis, StoreInv, StoreTypes
<1>2. ASSUME NEW w \in Writers, Command(w) PROVE StoreInv'
  BY <1>2, CommandKeeps
<1>3. CASE Wipe
  BY <1>3, WipeKeeps
<1>4. ASSUME NEW r \in Replicas, Replica(r) PROVE StoreInv'
  <2>1. CASE Crash(r) \/ Exit(r)
    BY <2>1, GoneKeeps DEF Crash, Exit
  <2> QED BY <1>4, <2>1, ControlKeeps, ReadVersionKeeps, FetchKeeps DEF Replica
<1> QED BY <1>1, <1>2, <1>3, <1>4 DEF Next

\* The store's invariant holds throughout.
THEOREM StoreInvariant == Spec => []StoreInv
BY StoreInit, StepKeeps, PTL DEF Spec

\* A replica level with the version in Redis has every write made before the
\* last INCR: skipping the hash loses nothing (refresh, store.go).
THEOREM VersionIsEnough == Spec => []VersionCovers
<1>1. StoreInv => VersionCovers
  BY DEF StoreInv, Level, VersionCovers
<1> QED BY <1>1, StoreInvariant, PTL

\* However rules are written, at most full_resync_every - 1 successful polls in
\* a row miss them (pollsSinceFull, store.go).
THEOREM ResyncBound == Spec => []StaleForAtMost
<1>1. StoreInv => StaleForAtMost
  BY StoreConstants DEF StoreInv, StoreTypes, Counted, StaleForAtMost
<1> QED BY <1>1, StoreInvariant, PTL

\* A collector that must not start without rules never runs without
\* (statefulFilterProcessor.start).
THEOREM NeverOpen == Spec => []FailClosed
<1>1. StoreInv => FailClosed
  BY DEF StoreInv
<1> QED BY <1>1, StoreInvariant, PTL

\* No failure makes a running collector give up a rule that Redis still holds.
THEOREM StaysStale == Spec => FailStale
<1> DEFINE Keeps ==
      \A r \in Replicas :
        mode'[r] # "off" =>
          snapshot[r].rules \cap buildRuleSet(docs, 0).rules \subseteq snapshot'[r].rules
<1>1. StoreInv /\ [Next]_vars => [Keeps]_vars
  <2> SUFFICES ASSUME StoreInv, Next PROVE Keeps
    OBVIOUS
  <2>1. CASE UNCHANGED snapshot
    BY <2>1
  <2>2. ASSUME NEW r \in Replicas, Fetch(r) PROVE Keeps
    <3>1. snapshot'[r].rules = buildRuleSet(docs, 0).rules
      BY <2>2, BuiltRules DEF Fetch, StoreInv, StoreTypes
    <3>2. \A q \in Replicas : q # r => snapshot'[q] = snapshot[q]
      BY <2>2 DEF Fetch, StoreInv, StoreTypes
    <3> QED BY <3>1, <3>2
  <2>3. ASSUME NEW r \in Replicas, Gone(r) PROVE Keeps
    <3>1. mode'[r] = "off"
      BY <2>3 DEF Gone, StoreInv, StoreTypes
    <3>2. \A q \in Replicas : q # r => snapshot'[q] = snapshot[q]
      BY <2>3 DEF Gone, StoreInv, StoreTypes
    <3> QED BY <3>1, <3>2
  <2>4. ASSUME NEW w \in Writers, Command(w) PROVE UNCHANGED snapshot
    BY <2>4 DEF Command, rm, toggleRead, add, toggleWrite, flush, bump, Forget, Write,
                store
  <2>5. ASSUME NEW r \in Replicas, Start(r) \/ ReadVersion(r) \/ recordError(r)
        PROVE  UNCHANGED snapshot
    BY <2>5 DEF Start, ReadVersion, recordError
  <2>6. Wipe => UNCHANGED snapshot
    BY DEF Wipe, store
  <2> QED BY <2>1, <2>2, <2>3, <2>4, <2>5, <2>6 DEF Next, Replica, Crash, Exit
<1>2. FailStale <=> [][Keeps]_vars
  BY DEF FailStale
<1> QED BY <1>1, <1>2, StoreInvariant, PTL DEF Spec

----------------------------------------------------------------------------
\* The operators that wrote the hash and have not sent their INCR.
Pending == {w \in Writers : toBump[w]}

\* The writes of the operators: a loss of data is counted as a write too.
Made == writes - (IF wiped THEN 1 ELSE 0)

\* Every INCR follows a write of its own, so that the version stays within the
\* number of writes; versions read are versions there were.
Ordered ==
  /\ DOMAIN docs \subseteq Ids /\ toBump \in [Writers -> BOOLEAN]
  /\ editing = [w \in Writers |-> editing[w]]
  /\ \A w \in Writers : editing[w] # None => editing[w][1] \in Ids /\ ~toBump[w]
  /\ version + Cardinality(Pending) <= Made /\ Made <= MaxWrites
  /\ \A r \in Replicas :
       /\ fresh[r] <= writes /\ snapshot[r].version <= MaxWrites
       /\ mode[r] \in {"off", "refused"} => reading[r] = None
       /\ reading[r] # None => reading[r] <= MaxWrites

LEMMA PendingFinite == IsFiniteSet(Pending) /\ Cardinality(Pending) \in Nat
BY StoreConstants, FS_Subset, FS_CardinalityType DEF Pending

LEMMA OrderedInit == Init => Ordered
<1> SUFFICES ASSUME Init PROVE Ordered
  OBVIOUS
<1>1. Pending = {} /\ Cardinality(Pending) = 0
  BY FS_EmptySet DEF Init, Pending
<1>2. Made = 0
  <2>1. (IF wiped THEN 1 ELSE 0) = 0 /\ writes = 0
    BY Zenon DEF Init
  <2>2. Made = 0 - 0
    BY <2>1, Zenon DEF Made
  <2> QED BY <2>2
<1> QED BY <1>1, <1>2, StoreConstants DEF Init, Ordered, emptyRuleSet

\* An operator writes the hash; w had no INCR to send.
LEMMA WriteOrdered ==
  ASSUME StoreInv, Ordered, NEW w \in Writers, NEW d, Write(w, d), ~toBump[w], DOMAIN d \subseteq Ids,
         editing' = [editing EXCEPT ![w] = None] \/ (UNCHANGED editing /\ editing[w] = None)
  PROVE  Ordered'
<1>1. Pending' = Pending \cup {w} /\ w \notin Pending
  BY DEF Pending, Write, Ordered
<1>2. Cardinality(Pending') = Cardinality(Pending) + 1
  BY <1>1, PendingFinite, FS_AddElement
<1>3. writes' = writes + 1 /\ UNCHANGED <<version, wiped>> /\ writes \in Nat /\ version \in Nat
  BY DEF Write, StoreInv, StoreTypes
<1>4. Made' = Made + 1 /\ Made < MaxWrites /\ Made \in Int
  BY <1>3 DEF Made, Write, WritesLeft
<1>5. version' + Cardinality(Pending') <= Made' /\ Made' <= MaxWrites
  BY <1>2, <1>3, <1>4, PendingFinite, StoreConstants DEF Ordered
<1>6. /\ editing' = [x \in Writers |-> editing'[x]]
      /\ \A x \in Writers : editing'[x] # None => editing'[x][1] \in Ids /\ ~toBump'[x]
  BY DEF Write, Ordered
<1>7. \A r \in Replicas : fresh'[r] <= writes'
  BY <1>3 DEF Write, store, Ordered, StoreInv, StoreTypes
<1> QED BY <1>3, <1>5, <1>6, <1>7 DEF Write, store, Ordered

\* The operators' commands.
LEMMA CommandOrdered ==
  ASSUME StoreInv, Ordered, NEW w \in Writers, Command(w)
  PROVE  Ordered'
<1>1. CASE \E i \in Ids : rm(w, i) \/ \E d \in Docs : add(w, i, d)
  <2>1. PICK i \in Ids : rm(w, i) \/ \E d \in Docs : add(w, i, d)
    BY <1>1
  <2>2. ~toBump[w] /\ editing[w] = None /\ UNCHANGED editing
    BY <2>1 DEF rm, add, Idle
  <2>3. CASE rm(w, i)
    <3>1. PICK d : d = [j \in DOMAIN docs \ {i} |-> docs[j]]
      OBVIOUS
    <3>2. Write(w, d) /\ DOMAIN d \subseteq Ids
      BY <2>3, <3>1 DEF rm, Ordered
    <3> QED BY <2>2, <3>2, WriteOrdered
  <2>4. CASE \E d \in Docs : add(w, i, d)
    <3>1. PICK e \in Docs : add(w, i, e)
      BY <2>4
    <3>2. PICK d : d = With(i, e)
      OBVIOUS
    <3>3. Write(w, d) /\ DOMAIN d \subseteq Ids
      BY <3>1, <3>2 DEF add, With, Ordered
    <3> QED BY <2>2, <3>3, WriteOrdered
  <2> QED BY <2>1, <2>3, <2>4
<1>2. CASE \E want \in BOOLEAN : toggleWrite(w, want)
  <2>1. PICK want \in BOOLEAN : toggleWrite(w, want)
    BY <1>2
  <2>2. PICK d : d = With(editing[w][1], Toggled(editing[w][2], want))
    OBVIOUS
  <2>3. Write(w, d) /\ editing[w] # None /\ editing' = [editing EXCEPT ![w] = None]
    BY <2>1, <2>2 DEF toggleWrite
  <2>4. ~toBump[w] /\ DOMAIN d \subseteq Ids
    BY <2>2, <2>3 DEF With, Ordered
  <2> QED BY <2>3, <2>4, WriteOrdered
<1>3. CASE flush(w)
  <2>1. PICK d : d = <<>>
    OBVIOUS
  <2>2. Write(w, d) /\ ~toBump[w] /\ editing[w] = None /\ UNCHANGED editing /\ DOMAIN d \subseteq Ids
    BY <1>3, <2>1 DEF flush, Idle
  <2> QED BY <2>2, WriteOrdered
<1>4. CASE \E i \in Ids : toggleRead(w, i)
  <2>1. PICK i \in Ids : toggleRead(w, i)
    BY <1>4
  <2>2. /\ editing' = [editing EXCEPT ![w] = <<i, docs[i]>>] /\ ~toBump[w]
        /\ UNCHANGED <<docs, version, toBump, writes, wiped, fresh, snapshot, mode, reading>>
    BY <2>1 DEF toggleRead, Idle, store
  <2>3. /\ editing' = [x \in Writers |-> editing'[x]]
        /\ \A x \in Writers : editing'[x] # None => editing'[x][1] \in Ids /\ ~toBump'[x]
    BY <2>2 DEF Ordered
  <2>4. Pending' = Pending /\ Made' = Made
    BY <2>2 DEF Pending, Made
  <2> QED BY <2>2, <2>3, <2>4 DEF Ordered
<1>5. CASE bump(w)
  <2>1. /\ toBump[w] /\ version' = version + 1 /\ toBump' = [toBump EXCEPT ![w] = FALSE]
        /\ UNCHANGED <<docs, editing, writes, wiped, fresh, snapshot, mode, reading>>
    BY <1>5 DEF bump, store
  <2>2. Pending' = Pending \ {w} /\ w \in Pending
    BY <2>1 DEF Pending, Ordered
  <2>3. Cardinality(Pending') = Cardinality(Pending) - 1
    BY <2>2, PendingFinite, FS_RemoveElement
  <2>4. Made' = Made /\ version \in Nat
    BY <2>1 DEF Made, StoreInv, StoreTypes
  <2>5. version' + Cardinality(Pending') <= Made'
    BY <2>1, <2>3, <2>4, PendingFinite DEF Ordered
  <2> QED BY <2>1, <2>4, <2>5 DEF Ordered
<1>6. CASE Forget(w)
  <2>1. /\ toBump' = [toBump EXCEPT ![w] = FALSE] /\ editing' = [editing EXCEPT ![w] = None]
        /\ UNCHANGED <<docs, version, writes, wiped, fresh, snapshot, mode, reading>>
    BY <1>6 DEF Forget, store
  <2>2. Pending' \subseteq Pending
    BY <2>1 DEF Pending, Ordered
  <2>3. Cardinality(Pending') \in Nat /\ Cardinality(Pending') <= Cardinality(Pending)
    BY <2>2, PendingFinite, FS_Subset, FS_CardinalityType
  <2>4. Made' = Made /\ Made \in Int /\ version \in Nat
    BY <2>1 DEF Made, StoreInv, StoreTypes
  <2>5. version' + Cardinality(Pending') <= Made'
    BY <2>1, <2>3, <2>4, PendingFinite DEF Ordered
  <2> QED BY <2>1, <2>4, <2>5 DEF Ordered
<1> QED BY <1>1, <1>2, <1>3, <1>4, <1>5, <1>6 DEF Command

\* What the replicas do, and a loss of data.
LEMMA ReplicaOrdered ==
  ASSUME StoreInv, Ordered, NEW r \in Replicas, Replica(r)
  PROVE  Ordered'
<1>1. UNCHANGED redis
  BY DEF Replica, Start, ReadVersion, Fetch, recordError, Crash, Exit
<1>2. Pending' = Pending /\ Made' = Made
  BY <1>1 DEF redis, Pending, Made
<1>3. version \in Nat /\ version <= MaxWrites
  BY PendingFinite, StoreConstants DEF StoreInv, StoreTypes, Ordered, Made
<1>4. writes \in Nat
  BY DEF StoreInv, StoreTypes
<1>5. ASSUME NEW q \in Replicas
      PROVE  /\ fresh'[q] <= writes /\ snapshot'[q].version <= MaxWrites
             /\ mode'[q] \in {"off", "refused"} => reading'[q] = None
             /\ reading'[q] # None => reading'[q] <= MaxWrites
  <2>1. CASE Start(r)
    BY <2>1 DEF Start, Ordered, StoreInv, StoreTypes
  <2>2. CASE ReadVersion(r)
    BY <1>3, <2>2 DEF ReadVersion, AfterRefresh, Ordered, StoreInv, StoreTypes
  <2>3. CASE Fetch(r)
    BY <1>4, <2>3, BuiltRules DEF Fetch, AfterRefresh, Ordered, StoreInv, StoreTypes
  <2>4. CASE recordError(r)
    BY <2>4 DEF recordError, Ordered, StoreInv, StoreTypes
  <2>5. CASE Gone(r)
    BY <1>4, <2>5, StoreConstants DEF Gone, emptyRuleSet, Ordered, StoreInv, StoreTypes
  <2> QED BY <2>1, <2>2, <2>3, <2>4, <2>5 DEF Replica, Crash, Exit
<1> QED BY <1>1, <1>2, <1>5 DEF redis, Ordered

LEMMA WipeOrdered ==
  ASSUME StoreInv, Ordered, Wipe
  PROVE  Ordered'
<1>1. /\ ~wiped /\ wiped' = TRUE /\ docs' = <<>> /\ version' = 0 /\ writes' = writes + 1
      /\ UNCHANGED <<editing, toBump, fresh, snapshot, mode, reading>>
      /\ writes \in Nat /\ version \in Nat
  BY DEF Wipe, store, StoreInv, StoreTypes
<1>2. Pending' = Pending /\ Made' = Made /\ Made \in Int
  BY <1>1 DEF Pending, Made
<1>3. version' + Cardinality(Pending') <= Made'
  BY <1>1, <1>2, PendingFinite DEF Ordered
<1>4. \A r \in Replicas : fresh'[r] <= writes'
  BY <1>1 DEF Ordered, StoreInv, StoreTypes
<1> QED BY <1>1, <1>2, <1>3, <1>4 DEF Ordered

LEMMA OrderedInvariant == Spec => []Ordered
<1>1. StoreInv /\ Ordered /\ [Next]_vars => Ordered'
  <2> SUFFICES ASSUME StoreInv, Ordered, [Next]_vars PROVE Ordered'
    OBVIOUS
  <2>1. CASE UNCHANGED vars
    <3>1. UNCHANGED <<docs, version, editing, toBump, writes, wiped, fresh, snapshot, mode, reading>>
      BY <2>1 DEF vars, redis, store
    <3>2. Pending' = Pending /\ Made' = Made
      BY <3>1 DEF Pending, Made
    <3> QED BY <3>1, <3>2 DEF Ordered
  <2> QED BY <2>1, CommandOrdered, WipeOrdered, ReplicaOrdered DEF Next
<1> QED BY <1>1, OrderedInit, StoreInvariant, PTL DEF Spec

\* Versions stay within the writes that were made (every INCR follows a write
\* of its own) and a replica that is not running has no refresh in progress.
THEOREM Types == Spec => []TypeOK
<1>1. StoreInv /\ Ordered => TypeOK
  <2> SUFFICES ASSUME StoreInv, Ordered PROVE TypeOK
    OBVIOUS
  <2>1. version \in 0 .. MaxWrites
    BY PendingFinite, StoreConstants DEF StoreInv, StoreTypes, Ordered, Made
  <2>2. covered \in 0 .. writes /\ fresh \in [Replicas -> 0 .. writes]
    BY DEF StoreInv, StoreTypes, Ordered
  <2>3. reading \in [Replicas -> 0 .. MaxWrites \cup {None}]
    BY StoreConstants DEF StoreInv, StoreTypes, Ordered
  <2>4. \A r \in Replicas : snapshot[r].version \in 0 .. MaxWrites
    BY StoreConstants DEF StoreInv, StoreTypes, Ordered
  <2> QED BY <2>1, <2>2, <2>3, <2>4 DEF StoreInv, StoreTypes, Ordered, TypeOK
<1> QED BY <1>1, OrderedInvariant, StoreInvariant, PTL

----------------------------------------------------------------------------
\* A replica that has seen every write has the rules that are in Redis.
Seen ==
  /\ writes = 0 => docs = <<>>
  /\ \A r \in Replicas : fresh[r] = writes => snapshot[r].rules = buildRuleSet(docs, 0).rules

\* What the version is for: when every write had its INCR and Redis kept its
\* data, a replica whose snapshot carries the current version, so that its
\* polls skip the hash, has exactly the rules that are in Redis.
LevelIsCurrent ==
  ~wiped /\ covered = writes =>
    \A r \in Replicas :
      snapshot[r].version = version => snapshot[r].rules = buildRuleSet(docs, 0).rules

LEMMA NoDocsNoRules ==
  ASSUME NEW d, d = <<>>
  PROVE  buildRuleSet(d, 0).rules = emptyRuleSet.rules
BY DEF buildRuleSet, emptyRuleSet, Rules

LEMMA SeenInit == Init => Seen
BY NoDocsNoRules DEF Init, Seen

\* Whoever had seen all writes has not seen the next one.
LEMMA WriteSeen ==
  ASSUME StoreInv, Ordered, writes' = writes + 1, UNCHANGED <<fresh, snapshot>>
  PROVE  Seen'
<1>1. writes \in Nat /\ \A r \in Replicas : fresh[r] \in Nat /\ fresh[r] <= writes
  BY DEF StoreInv, StoreTypes, Ordered
<1>2. writes' # 0 /\ \A r \in Replicas : fresh'[r] # writes'
  BY <1>1
<1> QED BY <1>2, Zenon DEF Seen

LEMMA SameSeen ==
  ASSUME Seen, UNCHANGED <<docs, writes, fresh, snapshot>>
  PROVE  Seen'
BY Zenon DEF Seen

LEMMA CommandSeen ==
  ASSUME StoreInv, Ordered, Seen, NEW w \in Writers, Command(w)
  PROVE  Seen'
<1>1. CASE \E d : Write(w, d)
  BY <1>1, WriteSeen, Zenon DEF Write, store
<1>2. CASE \E i \in Ids : toggleRead(w, i)
  BY <1>2, SameSeen, Zenon DEF toggleRead, store
<1>3. CASE bump(w) \/ Forget(w)
  BY <1>3, SameSeen, Zenon DEF bump, Forget, store
<1> QED BY <1>1, <1>2, <1>3, Zenon DEF Command, rm, add, toggleWrite, flush

LEMMA ReplicaSeen ==
  ASSUME StoreInv, Seen, NEW r \in Replicas, Replica(r)
  PROVE  Seen'
<1>1. CASE Start(r) \/ ReadVersion(r) \/ recordError(r)
  BY <1>1, SameSeen, Zenon DEF Start, ReadVersion, recordError, redis
<1>2. CASE Fetch(r)
  <2>1. /\ snapshot' = [snapshot EXCEPT ![r] = buildRuleSet(docs, reading[r])]
        /\ fresh' = [fresh EXCEPT ![r] = writes] /\ UNCHANGED <<docs, writes>>
    BY <1>2, Zenon DEF Fetch, redis
  <2>2. snapshot'[r].rules = buildRuleSet(docs, 0).rules
    BY <2>1, BuiltRules DEF StoreInv, StoreTypes
  <2>3. \A q \in Replicas \ {r} : snapshot'[q] = snapshot[q] /\ fresh'[q] = fresh[q]
    BY <2>1 DEF StoreInv, StoreTypes
  <2> QED BY <2>1, <2>2, <2>3, Zenon DEF Seen
<1>3. CASE Gone(r) /\ UNCHANGED redis
  <2>1. /\ snapshot' = [snapshot EXCEPT ![r] = emptyRuleSet]
        /\ fresh' = [fresh EXCEPT ![r] = 0] /\ UNCHANGED <<docs, writes>>
    BY <1>3, Zenon DEF Gone, redis
  <2>2. snapshot'[r] = emptyRuleSet /\ fresh'[r] = 0
    BY <2>1 DEF StoreInv, StoreTypes
  <2>3. \A q \in Replicas \ {r} : snapshot'[q] = snapshot[q] /\ fresh'[q] = fresh[q]
    BY <2>1 DEF StoreInv, StoreTypes
  <2>4. fresh'[r] = writes => snapshot'[r].rules = buildRuleSet(docs, 0).rules
    BY <2>2, NoDocsNoRules, Zenon DEF Seen
  <2> QED BY <2>1, <2>3, <2>4, Zenon DEF Seen
<1> QED BY <1>1, <1>2, <1>3, Zenon DEF Replica, Crash, Exit

\* refresh skips the hash when the version has not moved: with no INCR missing
\* and no data lost, what it then goes on with are the rules in Redis, however
\* writes, reads, failures and crashes of any number of replicas interleave.
THEOREM VersionMeansRules == Spec => []LevelIsCurrent
<1>1. StoreInv /\ Ordered /\ Seen /\ [Next]_vars => Seen'
  <2> SUFFICES ASSUME StoreInv, Ordered, Seen, [Next]_vars PROVE Seen'
    OBVIOUS
  <2>1. CASE UNCHANGED vars
    BY <2>1, SameSeen, Zenon DEF vars, redis, store
  <2>2. CASE Wipe
    BY <2>2, WriteSeen, Zenon DEF Wipe, store
  <2> QED BY <2>1, <2>2, CommandSeen, ReplicaSeen, Zenon DEF Next
<1>2. StoreInv /\ Ordered /\ Seen => LevelIsCurrent
  <2> SUFFICES ASSUME StoreInv, Ordered, Seen, ~wiped, covered = writes,
                      NEW r \in Replicas, snapshot[r].version = version
               PROVE  snapshot[r].rules = buildRuleSet(docs, 0).rules
    BY Zenon DEF LevelIsCurrent
  <2>1. fresh[r] >= writes /\ fresh[r] <= writes /\ fresh[r] \in Nat /\ writes \in Nat
    BY DEF StoreInv, StoreTypes, Level, Ordered
  <2>2. fresh[r] = writes
    BY <2>1
  <2> QED BY <2>2, Zenon DEF Seen
<1> QED BY <1>1, <1>2, SeenInit, OrderedInvariant, StoreInvariant, PTL DEF Spec
=============================================================================
