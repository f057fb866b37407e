------------------------ MODULE StoreRegistryProofs ------------------------
(***************************************************************************)
(* The registries share one store and close it with the last handle, for   *)
(* any number of pipelines and reloads.                                    *)
(***************************************************************************)
EXTENDS StoreRegistry, FiniteSetTheorems, TLAPS

\* Store s is the one in the registry, or is being taken down by a pipeline
\* that has come as far as one of the steps.
Owned(s, steps) ==
  \/ entry # None /\ s = entry.store
  \/ \E p \in Pipelines : pc[p] \in steps /\ handle[p] = s

Typed ==
  /\ entry \in Entries \cup {None} /\ stores \in Nat /\ leaked \in Nat
  /\ open \subseteq 1 .. stores
  /\ pc \in [Pipelines -> Holding \cup Closing \cup {"closed"}]
  /\ handle \in [Pipelines -> Nat] /\ once \in [Pipelines -> BOOLEAN]

\* A handle that was released cannot be closed again.
Released == \A p \in Pipelines : pc[p] \notin Holding => once[p]

\* The references are the handles in use and those that were lost.
Counted ==
  IF entry = None THEN leaked = 0
  ELSE entry.refs = Cardinality(Holders) + leaked /\ entry.refs > 0

\* A store is taken down by one pipeline, after it left the registry.
Alone ==
  \A p \in Pipelines : pc[p] \in Closing =>
    /\ handle[p] \in open
    /\ entry # None => handle[p] # entry.store
    /\ \A q \in Pipelines : pc[q] \in Closing /\ handle[q] = handle[p] => q = p

\* What is open, loops or is observed has an owner that will end it.
Kept ==
  /\ entry # None => entry.store \in open
  /\ \A s \in open : Owned(s, Closing)
  /\ \A s \in looping : Owned(s, {"unregister", "stop"})
  /\ \A s \in gauges : Owned(s, {"unregister"})
  /\ scraping # None => scraping \in gauges

IInv == Typed /\ Released /\ OneStore /\ Counted /\ Alone /\ Kept

----------------------------------------------------------------------------
\* The inductive invariant of acquire, registerGauges, startOnce, release and close of
\* the registries.
LEMMA Invariance == Spec => []IInv
<1>1. Init => IInv
  <2> SUFFICES ASSUME Init PROVE IInv
    OBVIOUS
  <2>1. Holders = {}
    BY DEF Init, Holders, Holding, Starting
  <2> QED
    BY <2>1 DEF Init, IInv, Typed, Released, OneStore, Counted, Alone, Kept, Owned,
                Holding, Closing, Starting
<1>2. IInv /\ [Next]_vars => IInv'
  <2> SUFFICES ASSUME IInv, [Next]_vars PROVE IInv'
    OBVIOUS
  <2> USE DEF IInv
  <2>0. /\ IsFiniteSet(Holders)
        /\ Cardinality(Holders) \in Nat
    BY RegistryAssumption, FS_Subset, FS_CardinalityType DEF Holders
  <2>1. ASSUME NEW p \in Pipelines, acquire(p) PROVE IInv'
    <3> USE <2>1
    <3>1. Holders' = Holders \cup {p} /\ p \notin Holders
      BY DEF acquire, Goto, Holders, Holding, Closing, Starting, Typed
    <3>2. Cardinality(Holders') = Cardinality(Holders) + 1
      BY <3>1, <2>0, FS_AddElement
    <3>3. entry = None => Holders = {} /\ Cardinality(Holders) = 0
      BY FS_EmptySet DEF OneStore
    <3>4. Typed' /\ entry' # None
      <4>1. entry' \in Entries
        <5>1. CASE entry # None
          <6>1. entry \in Entries /\ entry' = [entry EXCEPT !.refs = @ + 1]
            BY <5>1 DEF acquire, Typed
          <6> QED
            BY <6>1 DEF Entries
        <5>2. CASE entry = None
          <6>1. stores' \in Nat
            BY <5>2 DEF acquire, Typed
          <6>2. entry' = [store |-> stores', refs |-> 1, loaded |-> FALSE,
                          started |-> FALSE, gaugeSet |-> FALSE]
            BY <5>2 DEF acquire
          <6> QED
            BY <6>1, <6>2 DEF Entries
        <5> QED
          BY <5>1, <5>2
      <4>2. stores' \in Nat /\ open' \subseteq 1 .. stores'
        BY DEF acquire, Typed
      <4>3. handle' \in [Pipelines -> Nat]
        BY <4>1 DEF acquire, Typed, Entries
      <4> QED
        BY <4>1, <4>2, <4>3, RegistryAssumption DEF acquire, Goto, Typed, Holding
    <3>5. Released' /\ OneStore' /\ Counted'
      BY <3>1, <3>2, <3>3, <3>4, <2>0, RegistryAssumption
      DEF acquire, Goto, Released, OneStore, Counted, Typed, Entries, Holding
    <3>6. Alone'
      BY <3>4, RegistryAssumption DEF acquire, Goto, Alone, Typed, Closing, Entries, Kept
    <3>7. Kept'
      BY <3>4, RegistryAssumption
      DEF acquire, Goto, Kept, Owned, Typed, Closing, Entries
    <3> QED
      BY <3>4, <3>5, <3>6, <3>7
  <2>2. ASSUME NEW p \in Pipelines, registerGauges(p) PROVE IInv'
    <3> USE <2>2
    <3>1. Holders' = Holders
      BY DEF registerGauges, Goto, Holders, Holding, Typed
    <3>2. Typed' /\ Released' /\ (entry # None <=> entry' # None)
      <4>1. entry # None => entry \in Entries /\ entry' \in Entries
        BY DEF registerGauges, Typed, Entries
      <4>2. entry = None => entry' = None
        BY DEF registerGauges
      <4> QED
        BY <4>1, <4>2, RegistryAssumption
        DEF registerGauges, Goto, Typed, Released, Holding
    <3>3. entry # None => entry'.store = entry.store /\ entry'.refs = entry.refs
      BY DEF registerGauges, Typed, Entries
    <3>4. OneStore' /\ Counted' /\ Alone'
      BY <3>1, <3>2, <3>3 DEF registerGauges, Goto, OneStore, Counted, Alone, Typed, Closing
    <3>5. Kept'
      BY <3>2, <3>3 DEF registerGauges, Goto, Kept, Owned, Typed, Closing
    <3> QED
      BY <3>2, <3>4, <3>5
  <2>3. ASSUME NEW p \in Pipelines, CreateFails(p) PROVE IInv'
    <3> USE <2>3
    <3>1. Holders' = Holders \ {p} /\ p \in Holders
      BY DEF CreateFails, Goto, Holders, Holding, Starting, Typed
    <3>2. Cardinality(Holders') = Cardinality(Holders) - 1
      BY <3>1, <2>0, FS_RemoveElement
    <3>3. Typed' /\ Released' /\ OneStore' /\ Counted'
      BY <3>1, <3>2, <2>0
      DEF CreateFails, Goto, Typed, Released, OneStore, Counted, Entries, Holding
    <3>4. Alone' /\ Kept'
      BY DEF CreateFails, Goto, Alone, Kept, Owned, Typed, Closing
    <3> QED
      BY <3>3, <3>4
  <2>4. ASSUME NEW p \in Pipelines, Start(p) PROVE IInv'
    <3> USE <2>4 DEF Start
    <3>1. Holders' = Holders /\ p \in Holders
      BY DEF initialLoadOnce, Loaded, startOnce, StartLoop, Goto, Holders, Holding,
             Starting, Typed
    <3>2. Typed' /\ Released'
      BY DEF initialLoadOnce, Loaded, startOnce, StartLoop, Goto, Typed, Released,
             Entries, Holding, Starting
    <3>3. entry # None /\ entry' # None /\ entry'.store = entry.store
            /\ entry'.refs = entry.refs
      <4>1. entry # None /\ entry \in Entries
        BY <3>1 DEF OneStore, Typed
      <4>2. \/ entry' = entry
            \/ entry' = [entry EXCEPT !.loaded = TRUE]
            \/ entry' = [entry EXCEPT !.started = TRUE]
        BY DEF initialLoadOnce, Loaded, startOnce, StartLoop
      <4>3. entry' \in Entries /\ entry'.store = entry.store /\ entry'.refs = entry.refs
        BY <4>1, <4>2 DEF Entries
      <4> QED
        BY <4>1, <4>3, RegistryAssumption
    <3>4. OneStore' /\ Counted'
      BY <3>1, <3>2, <3>3
      DEF initialLoadOnce, Loaded, startOnce, StartLoop, OneStore, Counted
    <3>5. \A q \in Pipelines : pc'[q] \in Closing <=> pc[q] \in Closing
      BY DEF initialLoadOnce, Loaded, startOnce, StartLoop, Goto, Typed, Closing
    <3>6. Alone'
      BY <3>3, <3>5 DEF initialLoadOnce, Loaded, startOnce, StartLoop, Alone
    <3>7. looping' \subseteq looping \cup {entry.store}
      BY <3>1 DEF initialLoadOnce, Loaded, startOnce, StartLoop, OneStore
    <3>8. \A q \in Pipelines : pc[q] \in Closing => pc'[q] = pc[q]
      BY DEF initialLoadOnce, Loaded, startOnce, StartLoop, Goto, Typed, Closing
    <3>9. Kept'
      BY <3>3, <3>7, <3>8
      DEF initialLoadOnce, Loaded, startOnce, StartLoop, Kept, Owned, Closing
    <3> QED
      BY <3>2, <3>4, <3>6, <3>9
  <2>5. ASSUME NEW p \in Pipelines, Close(p) PROVE IInv'
    <3> USE <2>5
    <3>1. p \in Holders /\ entry # None /\ handle[p] = entry.store
      BY DEF Close, closeOnce, Released, OneStore, Holders
    <3>2. Holders' = Holders \ {p}
      BY <3>1, RegistryAssumption DEF Close, release, Goto, Holders, Holding, Starting, Typed
    <3>3. Cardinality(Holders') = Cardinality(Holders) - 1
      BY <3>1, <3>2, <2>0, FS_RemoveElement
    <3>4. Typed' /\ Released'
      BY <3>1 DEF Close, release, Goto, Typed, Released, Entries, Holding, Closing
    <3>5. CASE entry.refs > 1
      <4>1. entry' = [entry EXCEPT !.refs = @ - 1] /\ pc' = [pc EXCEPT ![p] = "closed"]
        BY <3>1, <3>5 DEF Close, release, Goto
      <4>2. entry' # None /\ entry'.store = entry.store /\ entry'.refs = entry.refs - 1
        BY <4>1, <3>1, <3>4, <3>5, RegistryAssumption DEF Typed, Entries
      <4>3. OneStore' /\ Counted'
        BY <4>2, <3>1, <3>2, <3>3, <3>5, <2>0 DEF Close, OneStore, Counted, Typed, Entries
      <4>4. \A q \in Pipelines : /\ pc[q] \in Closing => pc'[q] = pc[q]
                                 /\ pc'[q] \in Closing => pc[q] \in Closing
        BY <4>1, <3>1 DEF Typed, Closing, Holders, Holding, Starting
      <4>5. UNCHANGED <<open, looping, gauges, scraping, handle>>
        BY DEF Close
      <4>6. Alone'
        BY <4>2, <4>4, <4>5, <3>1 DEF Alone
      <4>7. Kept'
        BY <4>2, <4>4, <4>5, <3>1 DEF Kept, Owned, Closing
      <4> QED
        BY <3>4, <4>3, <4>6, <4>7
    <3>6. CASE ~(entry.refs > 1)
      <4>1. entry' = None /\ pc' = [pc EXCEPT ![p] = "unregister"]
        BY <3>1, <3>6 DEF Close, release, Goto
      <4>2. Cardinality(Holders) # 0
        BY <3>1, <2>0, FS_EmptySet
      <4>3. leaked = 0 /\ Cardinality(Holders) = 1
        BY <4>2, <3>1, <3>6, <2>0 DEF Counted, Typed, Entries
      <4>4. Holders' = {}
        <5>1. IsFiniteSet(Holders \ {p}) /\ Cardinality(Holders \ {p}) = 0
          BY <4>3, <3>2, <3>3, <2>0, FS_RemoveElement
        <5> QED
          BY <5>1, <3>2, FS_EmptySet
      <4>5. OneStore' /\ Counted'
        BY <4>1, <4>3, <4>4 DEF Close, OneStore, Counted
      <4>6. pc'[p] = "unregister" /\ \A q \in Pipelines : q # p => pc'[q] = pc[q]
        BY <4>1 DEF Typed
      <4>7. pc[p] \notin Closing
        BY <3>1 DEF Holders, Holding, Starting, Closing
      <4>8. Alone'
        BY <4>1, <4>6, <4>7, <3>1 DEF Close, Alone, Kept, Closing
      <4>9. Kept'
        BY <4>1, <4>6, <4>7, <3>1 DEF Close, Kept, Owned, Closing
      <4> QED
        BY <3>4, <4>5, <4>8, <4>9
    <3> QED
      BY <3>5, <3>6
  <2>6. ASSUME NEW p \in Pipelines, Shutdown(p) PROVE IInv'
    <3> USE <2>6 DEF Shutdown
    <3>1. Holders' = Holders /\ p \notin Holders
      BY DEF Unregister, StopLoop, CloseClient, Goto, Holders, Holding, Starting, Typed
    <3>2. Typed' /\ Released' /\ OneStore' /\ Counted'
      BY <3>1 DEF Unregister, StopLoop, CloseClient, Goto, Typed, Released, OneStore,
                  Counted, Holding, Starting, Closing
    <3>3. ASSUME NEW to \in {"stop", "closeClient"}, pc' = [pc EXCEPT ![p] = to],
                 pc[p] \in Closing, UNCHANGED <<entry, open, handle>>
          PROVE  /\ pc'[p] = to /\ \A q \in Pipelines \ {p} : pc'[q] = pc[q]
                 /\ \A q \in Pipelines : pc'[q] \in Closing <=> pc[q] \in Closing
                 /\ Alone' /\ \A s \in open : Owned(s, Closing)'
      <4>1. pc'[p] = to /\ \A q \in Pipelines \ {p} : pc'[q] = pc[q]
        BY <3>3 DEF Typed
      <4>2. \A q \in Pipelines : pc'[q] \in Closing <=> pc[q] \in Closing
        BY <4>1, <3>3 DEF Closing
      <4> QED
        BY <4>1, <4>2, <3>3 DEF Alone, Kept, Owned
    <3>4. CASE Unregister(p)
      <4>1. Alone' /\ (\A s \in open' : Owned(s, Closing)')
              /\ pc'[p] = "stop" /\ \A q \in Pipelines \ {p} : pc'[q] = pc[q]
        BY <3>3, <3>4 DEF Unregister, Goto, Closing
      <4>2. \A s \in looping' : Owned(s, {"unregister", "stop"})'
        BY <4>1, <3>4 DEF Unregister, Kept, Owned
      <4>3. \A s \in gauges' : Owned(s, {"unregister"})'
        BY <4>1, <3>4 DEF Unregister, Kept, Owned
      <4>4. Kept'
        BY <4>1, <4>2, <4>3, <3>4 DEF Unregister, Kept
      <4> QED
        BY <4>1, <4>4, <3>2
    <3>5. CASE StopLoop(p)
      <4>1. Alone' /\ (\A s \in open' : Owned(s, Closing)')
              /\ pc'[p] = "closeClient" /\ \A q \in Pipelines \ {p} : pc'[q] = pc[q]
        BY <3>3, <3>5 DEF StopLoop, Goto, Closing
      <4>2. \A s \in looping' : Owned(s, {"unregister", "stop"})'
        BY <4>1, <3>5 DEF StopLoop, Kept, Owned
      <4>3. \A s \in gauges' : Owned(s, {"unregister"})'
        BY <4>1, <3>5 DEF StopLoop, Kept, Owned
      <4>4. Kept'
        BY <4>1, <4>2, <4>3, <3>5 DEF StopLoop, Kept
      <4> QED
        BY <4>1, <4>4, <3>2
    <3>6. CASE CloseClient(p)
      BY <3>6, <3>2 DEF CloseClient, Goto, Alone, Kept, Owned, Typed, Closing
    <3> QED
      BY <3>4, <3>5, <3>6
  <2>7. CASE Scrape \/ ScrapeEnds \/ UNCHANGED vars
    <3>1. UNCHANGED <<entry, stores, open, looping, gauges, pc, handle, once, leaked>>
            /\ (scraping' # None => scraping' \in gauges)
      BY <2>7 DEF Scrape, ScrapeEnds, vars, Kept
    <3>2. Holders' = Holders /\ \A s, steps : Owned(s, steps)' <=> Owned(s, steps)
      BY <3>1 DEF Holders, Owned
    <3> QED
      BY <3>1, <3>2 DEF Typed, Released, OneStore, Counted, Alone, Kept
  <2> QED
    BY <2>1, <2>2, <2>3, <2>4, <2>5, <2>6, <2>7 DEF Next, Create, Exhausted
<1> QED
  BY <1>1, <1>2, PTL DEF Spec

\* Pipelines never hold handles on different stores.
THEOREM SharesOneStore == Spec => []OneStore
<1>1. IInv => OneStore
  BY DEF IInv
<1> QED
  BY <1>1, Invariance, PTL

\* Nothing is used after it was closed.
THEOREM NeverAfterClose == Spec => []NoUseAfterClose
<1>1. IInv => NoUseAfterClose
  BY DEF IInv, NoUseAfterClose, OneStore, Kept, Owned, Alone, Closing
<1> QED
  BY <1>1, Invariance, PTL

\* The last handle closes the store, unless a creation failed.
THEOREM LastCloses == Spec => []ClosedWithTheLast
<1>1. IInv => ClosedWithTheLast
  <2> SUFFICES ASSUME IInv, leaked = 0, \A p \in Pipelines : pc[p] = "closed"
               PROVE  open = {}
    BY DEF ClosedWithTheLast
  <2>1. Holders = {} /\ Cardinality(Holders) = 0
    BY FS_EmptySet DEF Holders, Holding, Starting
  <2>2. entry = None
    BY <2>1 DEF IInv, Counted
  <2> QED
    BY <2>2 DEF IInv, Kept, Owned, Closing
<1> QED
  BY <1>1, Invariance, PTL

----------------------------------------------------------------------------
\* What loops or is observed was built.
Built ==
  /\ stores <= MaxStores
  /\ entry # None => (entry.store \in gauges <=> entry.gaugeSet)

\* A store that loops or is observed has an owner, and so it was built.
LEMMA OwnedBuilt ==
  ASSUME IInv
  PROVE  UNION {open, looping, gauges} \subseteq 1 .. stores
<1>1. \A s : Owned(s, Closing) => s \in open
  BY DEF IInv, Owned, Alone, Kept
<1>2. \A s \in looping \cup gauges : Owned(s, Closing)
  BY DEF IInv, Kept, Owned, Closing
<1> QED
  BY <1>1, <1>2 DEF IInv, Typed

\* acquire, registerGauges and release keep gaugeSet true to the callbacks.
LEMMA BuiltKept ==
  ASSUME IInv, Built, [Next]_vars
  PROVE  Built'
<1> USE DEF Built
<1>1. ASSUME NEW p \in Pipelines, acquire(p) PROVE Built'
  <2>1. CASE entry # None
    <3>1. /\ entry \in Entries /\ entry' = [entry EXCEPT !.refs = @ + 1]
          /\ UNCHANGED <<stores, gauges>>
      BY <1>1, <2>1 DEF acquire, IInv, Typed
    <3> QED
      BY <2>1, <3>1 DEF Entries
  <2>2. CASE entry = None
    <3>1. /\ stores < MaxStores /\ stores' = stores + 1 /\ UNCHANGED gauges
          /\ entry' = [store |-> stores', refs |-> 1, loaded |-> FALSE,
                       started |-> FALSE, gaugeSet |-> FALSE]
      BY <1>1, <2>2 DEF acquire
    <3>2. stores \in Nat /\ gauges \subseteq 1 .. stores
      BY OwnedBuilt DEF IInv, Typed
    <3>3. stores' \notin gauges /\ stores' <= MaxStores
      BY <3>1, <3>2, RegistryAssumption
    <3> QED
      BY <3>1, <3>3
  <2> QED
    BY <2>1, <2>2
<1>2. ASSUME NEW p \in Pipelines, registerGauges(p) PROVE Built'
  BY <1>2 DEF registerGauges, IInv, Typed, Entries
<1>3. ASSUME NEW p \in Pipelines, CreateFails(p) PROVE Built'
  BY <1>3 DEF CreateFails
<1>4. ASSUME NEW p \in Pipelines, Start(p) PROVE Built'
  BY <1>4 DEF Start, initialLoadOnce, Loaded, startOnce, StartLoop, IInv, Typed, Entries
<1>5. ASSUME NEW p \in Pipelines, Close(p) PROVE Built'
  BY <1>5 DEF Close, release, IInv, Typed, Entries
<1>6. ASSUME NEW p \in Pipelines, Shutdown(p) PROVE Built'
  <2>1. CASE Unregister(p)
    <3>1. entry # None => handle[p] # entry.store
      BY <2>1 DEF Unregister, IInv, Alone, Closing
    <3> QED
      BY <2>1, <3>1 DEF Unregister
  <2> QED
    BY <1>6, <2>1 DEF Shutdown, StopLoop, CloseClient
<1>7. CASE Scrape \/ ScrapeEnds \/ UNCHANGED vars
  BY <1>7 DEF Scrape, ScrapeEnds, vars
<1> QED
  BY <1>1, <1>2, <1>3, <1>4, <1>5, <1>6, <1>7 DEF Next, Create, Exhausted

\* What loops or is observed was built, an entry has a reference, and its
\* gauges are registered exactly when it says so, so that no pipeline
\* registers them twice and release unregisters them.
THEOREM Types == Spec => []TypeOK
<1>1. Init => Built
  BY RegistryAssumption DEF Init, Built
<1>2. IInv /\ Built => TypeOK
  <2> SUFFICES ASSUME IInv, Built PROVE TypeOK
    OBVIOUS
  <2>1. entry # None => /\ entry.store \in open /\ entry.store \in 1 .. stores
                        /\ entry.refs \in Nat \ {0}
    BY DEF IInv, Typed, Kept, Counted, Entries
  <2>2. stores \in 0 .. MaxStores
    BY RegistryAssumption DEF IInv, Typed, Built
  <2> QED
    BY <2>1, <2>2, OwnedBuilt DEF IInv, Typed, Built, TypeOK
<1>3. IInv /\ Built /\ [Next]_vars => Built'
  BY BuiltKept
<1> QED
  BY <1>1, <1>2, <1>3, Invariance, PTL DEF Spec

----------------------------------------------------------------------------
\* Store s was built and is not, or no longer, in the registry.
Left(s) == s \in 1 .. stores /\ (entry # None => entry.store # s)

\* A store that has left the registry is only wound down: it does not come back
\* into it, is not opened, started or observed again, although a pipeline that
\* acquired it earlier may be starting while another one closes.
OnlyWindsDown ==
  [][\A s : Left(s) => /\ Left(s)'
                       /\ s \in open' => s \in open
                       /\ s \in looping' => s \in looping
                       /\ s \in gauges' => s \in gauges]_vars

LEMMA LeftStays ==
  ASSUME IInv, [Next]_vars, NEW s, Left(s)
  PROVE  /\ Left(s)'
         /\ s \in open' => s \in open
         /\ s \in looping' => s \in looping
         /\ s \in gauges' => s \in gauges
<1> DEFINE Goal == /\ Left(s)'
                   /\ s \in open' => s \in open
                   /\ s \in looping' => s \in looping
                   /\ s \in gauges' => s \in gauges
<1>0. /\ stores \in Nat /\ s \in 1 .. stores /\ (entry # None => entry.store # s)
      /\ entry # None => entry \in Entries
  BY DEF IInv, Typed, Left
\* The registry keeps its store, or has none.
<1>1. ASSUME UNCHANGED stores, entry' # None => entry # None /\ entry'.store = entry.store
      PROVE  Left(s)'
  BY <1>0, <1>1 DEF Left
<1>2. ASSUME NEW p \in Pipelines, acquire(p) PROVE Goal
  <2>1. CASE entry # None
    <3>1. entry' = [entry EXCEPT !.refs = @ + 1] /\ UNCHANGED <<stores, open, looping, gauges>>
      BY <1>2, <2>1 DEF acquire
    <3>2. entry'.store = entry.store
      BY <1>0, <2>1, <3>1 DEF Entries
    <3> QED
      BY <1>1, <2>1, <3>1, <3>2
  <2>2. CASE entry = None
    <3>1. /\ stores' = stores + 1 /\ entry'.store = stores' /\ open' = open \cup {stores'}
          /\ UNCHANGED <<looping, gauges>>
      BY <1>2, <2>2 DEF acquire
    <3>2. s # stores' /\ s \in 1 .. stores'
      BY <1>0, <3>1
    <3> QED
      BY <3>1, <3>2 DEF Left
  <2> QED
    BY <2>1, <2>2
<1>3. ASSUME NEW p \in Pipelines, registerGauges(p) PROVE Goal
  <2>1. /\ UNCHANGED <<stores, open, looping>>
        /\ \/ UNCHANGED <<gauges, entry>>
           \/ /\ entry # None /\ gauges' = gauges \cup {entry.store}
              /\ entry' = [entry EXCEPT !.gaugeSet = TRUE]
    BY <1>3 DEF registerGauges
  <2> QED
    BY <1>0, <1>1, <2>1 DEF Entries
<1>4. ASSUME NEW p \in Pipelines, Start(p) PROVE Goal
  <2>1. CASE StartLoop(p)
    <3>1. entry # None /\ handle[p] = entry.store
      BY <2>1 DEF StartLoop, IInv, OneStore, Holders, Holding, Starting
    <3> QED
      BY <1>0, <1>1, <2>1, <3>1 DEF StartLoop
  <2>2. CASE initialLoadOnce(p) \/ Loaded(p) \/ startOnce(p)
    <3>1. /\ UNCHANGED <<stores, open, looping, gauges>>
          /\ \/ UNCHANGED entry
             \/ entry # None /\ entry' = [entry EXCEPT !.loaded = TRUE]
             \/ entry # None /\ entry' = [entry EXCEPT !.started = TRUE]
      BY <2>2 DEF initialLoadOnce, Loaded, startOnce
    <3> QED
      BY <1>0, <1>1, <3>1 DEF Entries
  <2> QED
    BY <1>4, <2>1, <2>2 DEF Start
<1>5. ASSUME NEW p \in Pipelines, Close(p) PROVE Goal
  <2>1. /\ UNCHANGED <<stores, open, looping, gauges>>
        /\ \/ UNCHANGED entry
           \/ entry' = None
           \/ entry # None /\ entry' = [entry EXCEPT !.refs = @ - 1]
    BY <1>5 DEF Close, release
  <2> QED
    BY <1>0, <1>1, <2>1 DEF Entries
<1>6. ASSUME NEW p \in Pipelines, CreateFails(p) \/ Shutdown(p) PROVE Goal
  <2>1. /\ UNCHANGED <<stores, entry>> /\ open' \subseteq open /\ looping' \subseteq looping
        /\ gauges' \subseteq gauges
    BY <1>6 DEF CreateFails, Shutdown, Unregister, StopLoop, CloseClient
  <2> QED
    BY <1>1, <2>1
<1>7. CASE Scrape \/ ScrapeEnds \/ UNCHANGED vars
  BY <1>1, <1>7 DEF Scrape, ScrapeEnds, vars
<1> QED
  BY <1>2, <1>3, <1>4, <1>5, <1>6, <1>7 DEF Next, Create, Exhausted

\* Once the last handle is released, the store is only wound down; the next
\* acquire builds a new one.
THEOREM NoComeback == Spec => OnlyWindsDown
<1>1. IInv /\ [Next]_vars =>
        [\A s : Left(s) => /\ Left(s)'
                           /\ s \in open' => s \in open
                           /\ s \in looping' => s \in looping
                           /\ s \in gauges' => s \in gauges]_vars
  BY LeftStays
<1> QED
  BY <1>1, Invariance, PTL DEF Spec, OnlyWindsDown
=============================================================================
