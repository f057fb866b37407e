----------------------------- MODULE RuleStore -----------------------------
(***************************************************************************)
(* How filter rules travel: operators write them to Redis with             *)
(* filter-rules.sh, a write to the rule hash followed by an INCR of its    *)
(* version; every collector replica polls the version and reads the hash   *)
(* when it moved or when a full resync is due (redisRuleStore of store.go, *)
(* started by statefulFilterProcessor.start).  Each Redis command is one   *)
(* step; a replica may see its reads fail, and may crash and start again.  *)
(***************************************************************************)
EXTENDS RuleSet

CONSTANTS
  Replicas, Writers,
  Ids, Docs,          \* rule ids and the documents that may be written
  fullEvery,          \* full_resync_every
  None,               \* no HGETALL pending; no document read
  MaxWrites,          \* bound on the operators' writes to the hash
  MaxRestarts         \* bound on the crashes of replicas

ASSUME StoreConstants ==
  /\ fullEvery \in Nat /\ None \notin Nat
  /\ MaxWrites \in Nat /\ MaxRestarts \in Nat /\ IsFiniteSet(Writers)

VARIABLES
  WaitForInitialLoad, FailClosedOnEmpty,  \* the configuration
  docs, version,      \* Redis: the rule hash and its version
  editing,            \* writer -> the document `enable' has read, or None
  toBump,             \* writer -> it wrote the hash and will INCR
  mode,               \* replica -> what its next refresh is
  reading,            \* replica -> the version read, while HGETALL is due
  snapshot, pollsSinceFull, everLoaded,
  writes,             \* history: writes to the hash so far
  covered,            \* history: writes there were at the last INCR
  fresh,              \* history: replica -> writes its snapshot has seen
  missed,             \* history: replica -> polls that left it out of date
  restarts, wiped     \* history: crashes; Redis has lost its data

config == <<WaitForInitialLoad, FailClosedOnEmpty>>
redis == <<docs, version, editing, toBump, writes, covered, wiped>>
store == <<mode, reading, snapshot, pollsSinceFull, everLoaded, fresh, missed>>
vars == <<config, redis, store, restarts>>

\* A replica that is not started, loads at start, is in its loop for the first
\* time or later, or has refused to start.
Modes == {"off", "load", "first", "poll", "refused"}

Init ==
  /\ WaitForInitialLoad \in BOOLEAN /\ FailClosedOnEmpty \in BOOLEAN
  /\ docs = <<>> /\ version = 0 /\ wiped = FALSE
  /\ editing = [w \in Writers |-> None] /\ toBump = [w \in Writers |-> FALSE]
  /\ mode = [r \in Replicas |-> "off"] /\ reading = [r \in Replicas |-> None]
  /\ snapshot = [r \in Replicas |-> emptyRuleSet]
  /\ pollsSinceFull = [r \in Replicas |-> 0]
  /\ everLoaded = [r \in Replicas |-> FALSE]
  /\ writes = 0 /\ covered = 0 /\ restarts = 0
  /\ fresh = [r \in Replicas |-> 0] /\ missed = [r \in Replicas |-> 0]

----------------------------------------------------------------------------
\* filter-rules.sh.  Every command that changes the hash ends with bump.
Idle(w) == ~toBump[w] /\ editing[w] = None

WritesLeft == writes - (IF wiped THEN 1 ELSE 0) < MaxWrites

\* The hash changes to d; writer w still has to INCR.
Write(w, d) ==
  /\ WritesLeft
  /\ docs' = d
  /\ writes' = writes + 1
  /\ toBump' = [toBump EXCEPT ![w] = TRUE]
  /\ UNCHANGED <<config, version, covered, wiped, store, restarts>>

With(i, d) == [j \in DOMAIN docs \cup {i} |-> IF j = i THEN d ELSE docs[j]]

add(w, i, d) == Idle(w) /\ Write(w, With(i, d)) /\ UNCHANGED editing

rm(w, i) ==
  /\ Idle(w)
  /\ Write(w, [j \in DOMAIN docs \ {i} |-> docs[j]])
  /\ UNCHANGED editing

flush(w) == Idle(w) /\ Write(w, <<>>) /\ UNCHANGED editing

\* enable and disable read the document (it must be there) and write it back with
\* `enabled' set, whatever happened to the hash in between.  Where jq cannot parse
\* it, HSET is run all the same, with no text: one refused document for another.
toggleRead(w, i) ==
  /\ Idle(w) /\ i \in DOMAIN docs
  /\ WritesLeft
  /\ editing' = [editing EXCEPT ![w] = <<i, docs[i]>>]
  /\ UNCHANGED <<config, docs, version, toBump, writes, covered, wiped, store,
                 restarts>>

Toggled(d, want) == IF d.json THEN [d EXCEPT !.enabled = want] ELSE d

toggleWrite(w, want) ==
  /\ editing[w] # None
  /\ Write(w, With(editing[w][1], Toggled(editing[w][2], want)))
  /\ editing' = [editing EXCEPT ![w] = None]

bump(w) ==
  /\ toBump[w]
  /\ version' = version + 1
  /\ covered' = writes
  /\ toBump' = [toBump EXCEPT ![w] = FALSE]
  /\ UNCHANGED <<config, docs, editing, writes, wiped, store, restarts>>

\* The script dies, or somebody ran HSET by hand: no INCR.
Forget(w) ==
  /\ ~Idle(w)
  /\ toBump' = [toBump EXCEPT ![w] = FALSE]
  /\ editing' = [editing EXCEPT ![w] = None]
  /\ UNCHANGED <<config, docs, version, writes, covered, wiped, store, restarts>>

\* Redis comes back without its data.
Wipe ==
  /\ ~wiped
  /\ wiped' = TRUE
  /\ docs' = <<>> /\ version' = 0
  /\ writes' = writes + 1
  /\ UNCHANGED <<config, editing, toBump, covered, store, restarts>>

----------------------------------------------------------------------------
\* statefulFilterProcessor.start, up to the first refresh.
Start(r) ==
  /\ mode[r] = "off"
  /\ mode' = [mode EXCEPT ![r] = IF WaitForInitialLoad THEN "load" ELSE "first"]
  /\ UNCHANGED <<config, redis, reading, snapshot, pollsSinceFull, everLoaded,
                 fresh, missed, restarts>>

\* What follows a refresh that succeeded.
AfterRefresh(r) == IF mode[r] = "load" THEN "first" ELSE "poll"

fullDueLate(r) ==
  \/ mode[r] = "load"
  \/ mode[r] = "first" /\ ~everLoaded[r]
  \/ pollsSinceFull[r] >= fullEvery
\* fullDue of refresh; force is set by initialLoad, and by the loop as long as
\* nothing was loaded when it begins.
fullDue(r) ==
  \/ mode[r] = "load"
  \/ mode[r] = "first" /\ ~everLoaded[r]
  \/ fullEvery <= 1
  \/ pollsSinceFull[r] >= fullEvery - 1

ReadVersionUncounted(r) ==
  /\ mode[r] \in {"load", "first", "poll"} /\ reading[r] = None
  /\ IF ~fullDue(r) /\ version = snapshot[r].version
     THEN mode' = [mode EXCEPT ![r] = AfterRefresh(r)] /\ UNCHANGED reading
     ELSE reading' = [reading EXCEPT ![r] = version] /\ UNCHANGED mode
  /\ UNCHANGED <<config, redis, snapshot, pollsSinceFull, everLoaded, fresh, missed,
                 restarts>>
\* refresh, first half: GET of the version, which may settle it.
ReadVersion(r) ==
  /\ mode[r] \in {"load", "first", "poll"} /\ reading[r] = None
  /\ IF ~fullDue(r) /\ version = snapshot[r].version
     THEN /\ pollsSinceFull' = [pollsSinceFull EXCEPT ![r] = @ + 1]
          /\ mode' = [mode EXCEPT ![r] = AfterRefresh(r)]
          /\ missed' = [missed EXCEPT ![r] = @ + IF fresh[r] < writes THEN 1 ELSE 0]
          /\ UNCHANGED reading
     ELSE /\ reading' = [reading EXCEPT ![r] = version]
          /\ UNCHANGED <<pollsSinceFull, mode, missed>>
  /\ UNCHANGED <<config, redis, snapshot, everLoaded, fresh, restarts>>

\* refresh, second half: HGETALL; the snapshot is published under the version
\* read before.
Fetch(r) ==
  /\ reading[r] # None
  /\ snapshot' = [snapshot EXCEPT ![r] = buildRuleSet(docs, reading[r])]
  /\ pollsSinceFull' = [pollsSinceFull EXCEPT ![r] = 0]
  /\ everLoaded' = [everLoaded EXCEPT ![r] = TRUE]
  /\ mode' = [mode EXCEPT ![r] = AfterRefresh(r)]
  /\ reading' = [reading EXCEPT ![r] = None]
  /\ fresh' = [fresh EXCEPT ![r] = writes]
  /\ missed' = [missed EXCEPT ![r] = 0]
  /\ UNCHANGED <<config, redis, restarts>>

recordErrorStamps(r) ==
  /\ mode[r] \in {"load", "first", "poll"}
  /\ snapshot' = IF reading[r] = None THEN snapshot
                 ELSE [snapshot EXCEPT ![r].version = reading[r]]
  /\ reading' = [reading EXCEPT ![r] = None]
  /\ mode' = [mode EXCEPT ![r] = IF @ = "load" THEN "first" ELSE "poll"]
  /\ UNCHANGED <<config, redis, pollsSinceFull, everLoaded, fresh, missed,
                 restarts>>
recordErrorEmpties(r) ==
  /\ mode[r] \in {"load", "first", "poll"}
  /\ snapshot' = [snapshot EXCEPT ![r] = emptyRuleSet]
  /\ reading' = [reading EXCEPT ![r] = None]
  /\ mode' = [mode EXCEPT ![r] = "poll"]
  /\ UNCHANGED <<config, redis, pollsSinceFull, everLoaded, fresh, missed,
                 restarts>>
recordErrorNoReset(r) ==
  /\ mode[r] \in {"load", "first", "poll"}
  /\ mode' = [mode EXCEPT ![r] = IF @ = "load" THEN "refused" ELSE "poll"]
  /\ UNCHANGED <<config, redis, reading, snapshot, pollsSinceFull, everLoaded, fresh,
                 missed, restarts>>
\* Either read fails: the snapshot stays.  At start this is fatal or not.
recordError(r) ==
  /\ mode[r] \in {"load", "first", "poll"}
  /\ reading' = [reading EXCEPT ![r] = None]
  /\ mode' = [mode EXCEPT ![r] =
       IF @ # "load" THEN "poll"
       ELSE IF FailClosedOnEmpty THEN "refused" ELSE "first"]
  /\ UNCHANGED <<config, redis, snapshot, pollsSinceFull, everLoaded, fresh, missed,
                 restarts>>

\* The process of r is gone; its supervisor will start a new one.
Gone(r) ==
  /\ mode' = [mode EXCEPT ![r] = "off"]
  /\ reading' = [reading EXCEPT ![r] = None]
  /\ snapshot' = [snapshot EXCEPT ![r] = emptyRuleSet]
  /\ pollsSinceFull' = [pollsSinceFull EXCEPT ![r] = 0]
  /\ everLoaded' = [everLoaded EXCEPT ![r] = FALSE]
  /\ fresh' = [fresh EXCEPT ![r] = 0]
  /\ missed' = [missed EXCEPT ![r] = 0]

\* The collector crashes, or is stopped for an upgrade.
Crash(r) ==
  /\ mode[r] \in {"load", "first", "poll"} /\ restarts < MaxRestarts
  /\ restarts' = restarts + 1
  /\ Gone(r)
  /\ UNCHANGED <<config, redis>>

\* A collector whose start failed exits.
Exit(r) ==
  /\ mode[r] = "refused"
  /\ Gone(r)
  /\ UNCHANGED <<config, redis, restarts>>

Command(w) ==
  \/ \E i \in Ids : rm(w, i) \/ toggleRead(w, i) \/ \E d \in Docs : add(w, i, d)
  \/ \E want \in BOOLEAN : toggleWrite(w, want)
  \/ flush(w) \/ bump(w) \/ Forget(w)

Replica(r) ==
  \/ Start(r) \/ ReadVersion(r) \/ Fetch(r) \/ recordError(r) \/ Crash(r) \/ Exit(r)

Next ==
  \/ \E w \in Writers : Command(w)
  \/ Wipe
  \/ \E r \in Replicas : Replica(r)

\* The collector is started again whenever it is gone.  Its loop never stops
\* polling and Redis is not out of reach for ever, though any read may fail.
\* Nothing makes an operator's script go on.
Fairness ==
  \A r \in Replicas :
    /\ WF_vars(Start(r)) /\ WF_vars(Exit(r))
    /\ SF_vars(ReadVersion(r)) /\ SF_vars(Fetch(r))

Spec == Init /\ [][Next]_vars /\ Fairness

----------------------------------------------------------------------------
\* Types: versions and histories stay in range, and a replica that is not running has
\* no refresh in progress (refresh of store.go).
TypeOK ==
  /\ DOMAIN docs \subseteq Ids
  /\ version \in 0 .. MaxWrites /\ writes \in Nat /\ covered \in 0 .. writes
  /\ toBump \in [Writers -> BOOLEAN]
  /\ mode \in [Replicas -> Modes]
  /\ reading \in [Replicas -> 0 .. MaxWrites \cup {None}]
  /\ \A r \in Replicas : mode[r] \in {"off", "refused"} => reading[r] = None
  /\ pollsSinceFull \in [Replicas -> Nat] /\ missed \in [Replicas -> Nat]
  /\ everLoaded \in [Replicas -> BOOLEAN]
  /\ fresh \in [Replicas -> 0 .. writes]
  /\ \A r \in Replicas : snapshot[r].version \in 0 .. MaxWrites

\* A replica whose snapshot carries the current version, so that polls skip the
\* hash, has every write that was made before the last INCR; unless Redis lost
\* its data and began to count from zero.  This is why refresh reads the
\* version before the hash, and why the script writes in the other order.
VersionCovers ==
  ~wiped => \A r \in Replicas : snapshot[r].version = version => fresh[r] >= covered

\* Whatever was written, with an INCR or without, and even if Redis lost its
\* data, at most full_resync_every - 1 polls in a row succeed without seeing it.
StaleForAtMost ==
  \A r \in Replicas : missed[r] <= IF fullEvery <= 1 THEN 0 ELSE fullEvery - 1

\* "Fail-stale, not fail-empty": while a collector runs it gives up no rule
\* that it has and that Redis still holds, whatever fails.
FailStale ==
  [][\A r \in Replicas :
       mode'[r] # "off" =>
         snapshot[r].rules \cap buildRuleSet(docs, 0).rules \subseteq snapshot'[r].rules
    ]_vars

\* With wait_for_initial_load and fail_closed_on_empty, a collector that runs
\* has loaded the rules.
FailClosed ==
  WaitForInitialLoad /\ FailClosedOnEmpty =>
    \A r \in Replicas : mode[r] \in {"first", "poll"} => everLoaded[r]

\* Once nobody writes any more every replica comes to have the rules that are
\* in Redis, and keeps them, although reads fail, scripts die before their
\* INCR, replicas crash and Redis may have lost its data.
Converges ==
  <>[](\A r \in Replicas : snapshot[r].rules = buildRuleSet(docs, 0).rules)
=============================================================================
