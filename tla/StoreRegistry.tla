--------------------------- MODULE StoreRegistry ---------------------------
(***************************************************************************)
(* The registries that share one backend among the pipelines of a          *)
(* component: storageRegistry of the rate limiter (storage_shared.go) and  *)
(* storeRegistry of the filter (store_shared.go), which are the same up to *)
(* the refresh loop that only rule stores have.  The module follows the    *)
(* latter.  What is done under the registry's mutex is one step; loading,  *)
(* starting, unregistering and closing happen outside of it.               *)
(*                                                                         *)
(* The pipelines (traces, metrics, logs) are created, started and shut     *)
(* down in any interleaving, and again after a reload of the               *)
(* configuration.  A scrape may run the gauge callback at any time.        *)
(***************************************************************************)
EXTENDS Integers, FiniteSets

CONSTANTS
  Pipelines,
  None,
  MaxStores,   \* bound on the stores built
  MaxFailures  \* bound on the creations that fail

\* The value of an entry that is in the registry.
Entries ==
  [store : Nat, refs : Nat, loaded : BOOLEAN, started : BOOLEAN, gaugeSet : BOOLEAN]

ASSUME RegistryAssumption ==
  /\ IsFiniteSet(Pipelines) /\ None \notin Entries /\ None \notin Nat
  /\ MaxStores \in Nat

VARIABLES
  WaitForInitialLoad,  \* the configuration
  entry,       \* registry.entries[id], or None
  stores,      \* the stores built so far are 1 .. stores
  open,        \* the stores that are not closed
  looping,     \* the stores whose refresh loop runs
  gauges,      \* the stores whose gauge callback is registered
  scraping,    \* the store a callback is reading, or None
  pc, handle,  \* pipeline -> its next step and the store of its handle
  once,        \* pipeline -> closeOnce of its handle is spent
  leaked       \* history: handles dropped by a creation that failed

config == <<WaitForInitialLoad>>
vars == <<config, entry, stores, open, looping, gauges, scraping, pc, handle, once, leaked>>

Starting == {"loading", "loaded", "starting"}
Closing == {"unregister", "stop", "closeClient"}
\* A pipeline in these states holds a handle it has not released.
Holding == {"acquired", "created", "running", "failed"} \cup Starting

Init ==
  /\ WaitForInitialLoad \in BOOLEAN
  /\ entry = None /\ stores = 0
  /\ open = {} /\ looping = {} /\ gauges = {} /\ scraping = None
  /\ pc = [p \in Pipelines |-> "closed"] /\ handle = [p \in Pipelines |-> 0]
  /\ once = [p \in Pipelines |-> TRUE]
  /\ leaked = 0

Goto(p, l) == pc' = [pc EXCEPT ![p] = l]

----------------------------------------------------------------------------
\* The factory's create functions, first acquire.  A store that cannot be
\* built changes nothing.
acquire(p) ==
  /\ pc[p] = "closed"
  /\ IF entry # None
     THEN /\ entry' = [entry EXCEPT !.refs = @ + 1]
          /\ UNCHANGED <<stores, open>>
     ELSE /\ stores < MaxStores
          /\ stores' = stores + 1
          /\ open' = open \cup {stores'}
          /\ entry' = [store |-> stores', refs |-> 1, loaded |-> FALSE,
                       started |-> FALSE, gaugeSet |-> FALSE]
  /\ handle' = [handle EXCEPT ![p] = entry'.store]
  /\ once' = [once EXCEPT ![p] = FALSE]
  /\ Goto(p, "acquired")
  /\ UNCHANGED <<config, looping, gauges, scraping, leaked>>

registerGaugesEach(p) ==
  /\ pc[p] = "acquired" /\ gauges' = gauges \cup {handle[p]}
  /\ Goto(p, "created")
  /\ UNCHANGED <<config, entry, stores, open, looping, scraping, handle, once, leaked>>
\* The constructor registers the gauges, for the first pipeline only.
registerGauges(p) ==
  /\ pc[p] = "acquired"
  /\ IF entry # None /\ ~entry.gaugeSet
     THEN /\ gauges' = gauges \cup {entry.store}
          /\ entry' = [entry EXCEPT !.gaugeSet = TRUE]
     ELSE UNCHANGED <<gauges, entry>>
  /\ Goto(p, "created")
  /\ UNCHANGED <<config, stores, open, looping, scraping, handle, once, leaked>>

\* The constructor fails, or after it processorhelper: the create function
\* returns without closing the handle it had acquired.
CreateFails(p) ==
  /\ pc[p] \in {"acquired", "created"} /\ leaked < MaxFailures
  /\ leaked' = leaked + 1
  /\ Goto(p, "closed") /\ once' = [once EXCEPT ![p] = TRUE]
  /\ UNCHANGED <<config, entry, stores, open, looping, gauges, scraping, handle>>

\* start, with wait_for_initial_load: the first pipeline to come loads.
initialLoadOnce(p) ==
  /\ pc[p] = "created" /\ WaitForInitialLoad
  /\ IF entry = None \/ entry.loaded
     THEN Goto(p, "loaded") /\ UNCHANGED entry
     ELSE Goto(p, "loading") /\ entry' = [entry EXCEPT !.loaded = TRUE]
  /\ UNCHANGED <<config, stores, open, looping, gauges, scraping, handle, once, leaked>>

\* The load ends, with an error that may be fatal or not.
Loaded(p) ==
  /\ pc[p] = "loading"
  /\ Goto(p, "loaded") \/ Goto(p, "failed")
  /\ UNCHANGED <<config, entry, stores, open, looping, gauges, scraping, handle, once, leaked>>

startOnce(p) ==
  /\ pc[p] = IF WaitForInitialLoad THEN "loaded" ELSE "created"
  /\ IF entry = None \/ entry.started
     THEN Goto(p, "running") /\ UNCHANGED entry
     ELSE Goto(p, "starting") /\ entry' = [entry EXCEPT !.started = TRUE]
  /\ UNCHANGED <<config, stores, open, looping, gauges, scraping, handle, once, leaked>>

\* store.start, outside the mutex.
StartLoop(p) ==
  /\ pc[p] = "starting"
  /\ looping' = looping \cup {handle[p]}
  /\ Goto(p, "running")
  /\ UNCHANGED <<config, entry, stores, open, gauges, scraping, handle, once, leaked>>

----------------------------------------------------------------------------
closeOnceForgotten(p) == TRUE
closeOnce(p) == ~once[p]

releaseLate(p) ==
  IF entry = None THEN Goto(p, "closed") /\ UNCHANGED entry
  ELSE /\ entry' = [entry EXCEPT !.refs = @ - 1]
       /\ Goto(p, "closed")
\* release, under the mutex.
release(p) ==
  IF entry = None THEN Goto(p, "closed") /\ UNCHANGED entry
  ELSE IF entry.refs > 1
  THEN entry' = [entry EXCEPT !.refs = @ - 1] /\ Goto(p, "closed")
  ELSE entry' = None /\ Goto(p, "unregister")

\* The handle is closed, by the shutdown of its pipeline or once more.
Close(p) ==
  /\ pc[p] \in {"created", "running", "failed", "closed"}
  /\ closeOnce(p)
  /\ once' = [once EXCEPT ![p] = TRUE]
  /\ release(p)
  /\ UNCHANGED <<config, stores, open, looping, gauges, scraping, handle, leaked>>

\* release after the mutex: Unregister waits for a callback that runs.
Unregister(p) ==
  /\ pc[p] = "unregister" /\ scraping # handle[p]
  /\ gauges' = gauges \ {handle[p]}
  /\ Goto(p, "stop")
  /\ UNCHANGED <<config, entry, stores, open, looping, scraping, handle, once, leaked>>

StopLoopUnawaited(p) ==
  /\ pc[p] = "stop"
  /\ Goto(p, "closeClient")
  /\ UNCHANGED <<config, entry, stores, open, looping, gauges, scraping, handle, once, leaked>>
StopLoopWaits(p) ==
  /\ pc[p] = "stop" /\ handle[p] \in looping
  /\ looping' = looping \ {handle[p]}
  /\ Goto(p, "closeClient")
  /\ UNCHANGED <<config, entry, stores, open, gauges, scraping, handle, once, leaked>>
\* store.close cancels the loop and waits for its end,
StopLoop(p) ==
  /\ pc[p] = "stop"
  /\ looping' = looping \ {handle[p]}
  /\ Goto(p, "closeClient")
  /\ UNCHANGED <<config, entry, stores, open, gauges, scraping, handle, once, leaked>>

\* and then closes the client.
CloseClient(p) ==
  /\ pc[p] = "closeClient"
  /\ open' = open \ {handle[p]}
  /\ Goto(p, "closed")
  /\ UNCHANGED <<config, entry, stores, looping, gauges, scraping, handle, once, leaked>>

----------------------------------------------------------------------------
\* The gauge callback reads the store it was registered for.
Scrape ==
  /\ scraping = None
  /\ \E s \in gauges : scraping' = s
  /\ UNCHANGED <<config, entry, stores, open, looping, gauges, pc, handle, once, leaked>>

ScrapeEnds ==
  /\ scraping # None /\ scraping' = None
  /\ UNCHANGED <<config, entry, stores, open, looping, gauges, pc, handle, once, leaked>>

\* All pipelines are gone and no store may be built any more.
Exhausted ==
  /\ stores = MaxStores /\ entry = None
  /\ \A p \in Pipelines : pc[p] = "closed"
  /\ UNCHANGED vars

Create(p) == acquire(p) \/ registerGauges(p) \/ CreateFails(p)
Start(p) == initialLoadOnce(p) \/ Loaded(p) \/ startOnce(p) \/ StartLoop(p)
Shutdown(p) == Unregister(p) \/ StopLoop(p) \/ CloseClient(p)

Next ==
  \/ \E p \in Pipelines : Create(p) \/ Start(p) \/ Close(p) \/ Shutdown(p)
  \/ Scrape \/ ScrapeEnds
  \/ Exhausted

\* Shutdowns are carried on and callbacks end.  A pipeline need not be shut
\* down, and scrapes may come all the time: an Unregister that waits for the
\* lock gets it eventually.
Fairness ==
  /\ \A p \in Pipelines :
       SF_vars(Unregister(p)) /\ WF_vars(StopLoop(p)) /\ WF_vars(CloseClient(p))
  /\ WF_vars(ScrapeEnds)

Spec == Init /\ [][Next]_vars /\ Fairness

----------------------------------------------------------------------------
Holders == {p \in Pipelines : pc[p] \in Holding}

\* Types: what loops or is observed was built, an entry of the registry has a handle,
\* and its gauges are registered exactly when it says so (registerGauges).
TypeOK ==
  /\ stores \in 0 .. MaxStores
  /\ UNION {open, looping, gauges} \subseteq 1 .. stores
  /\ pc \in [Pipelines -> Holding \cup Closing \cup {"closed"}]
  /\ once \in [Pipelines -> BOOLEAN] /\ leaked \in Nat
  /\ entry # None => entry.store \in 1 .. stores /\ entry.refs \in Nat \ {0}
  /\ entry # None => (entry.store \in gauges <=> entry.gaugeSet)

\* All pipelines that hold a handle hold one on the same store, the one in the
\* registry: "one bucket per key, shared by every signal".
OneStore ==
  \A p \in Holders : entry # None /\ handle[p] = entry.store

\* No pipeline, refresh loop or gauge callback is left with a store that was
\* closed, however shutdowns, starts and scrapes interleave.
NoUseAfterClose ==
  {handle[p] : p \in Holders} \cup looping \cup gauges \cup ({scraping} \ {None})
    \subseteq open

\* "the store is closed when the last one goes": once no pipeline holds a
\* handle or is closing a store, none is open; unless a creation failed.
ClosedWithTheLast ==
  leaked = 0 /\ (\A p \in Pipelines : pc[p] = "closed") => open = {}

\* A shutdown that was begun comes to its end.
ShutdownEnds ==
  \A p \in Pipelines : pc[p] \in Closing ~> pc[p] = "closed"
=============================================================================
