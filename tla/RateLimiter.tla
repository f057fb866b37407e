---------------------------- MODULE RateLimiter ----------------------------
(***************************************************************************)
(* RateLimiter of ratelimiter.go: goroutines that serve batches call       *)
(* AllowUpToNCtx (traces, logs) or AllowNCtx (metrics).  Both coordinate a *)
(* per-key bucket with an optional global bucket through several separate  *)
(* Storage calls, each of which is atomic (a bucket mutex, or one Lua      *)
(* script) while the sequence of calls is not.                             *)
(*                                                                         *)
(* The buckets are those of a backend that neither loses nor refuses       *)
(* anything; MemoryStorage and RedisStorage model what the two backends do *)
(* beyond that.                                                            *)
(***************************************************************************)
EXTENDS TokenBucket, Totals, LimiterCalls

CONSTANTS
  Procs,       \* goroutines calling the limiter
  Keys,        \* rate-limit keys (service.name, header, attribute values)
  globalKey,   \* the reserved bucket name
  Limit,       \* GetLimit / GlobalLimit: bucket name -> limit per Period
  Period,      \* ticks in a period
  Requests,    \* batch sizes a goroutine may ask for (n <= 0 returns at once)
  MaxTime      \* bound on the clock

Buckets == Keys \cup {globalKey}

ASSUME ProcsFinite == IsFiniteSet(Procs)
ASSUME GlobalKeyReserved == globalKey \notin Keys
ASSUME LimitType == Limit \in [Buckets -> Nat]
ASSUME PeriodPositive == Period \in Nat \ {0}
ASSUME RequestsPositive == Requests \subseteq Nat \ {0}
ASSUME MaxTimeNat == MaxTime \in Nat

VARIABLES
  hasGlobal,   \* RateLimiter.hasGlobal, fixed by the configuration
  now,         \* the clock
  bucket,      \* bucket name -> token bucket held by the Storage
  pc,          \* goroutine -> the Storage call it makes next
  call,        \* goroutine -> arguments and results of its current call
  window       \* history: an observation window and what was admitted in it

vars == <<hasGlobal, now, bucket, pc, call, window>>

\* The arguments of a call and its locals.
Calls == [key : Keys, n : Nat, whole : BOOLEAN,
          globalGranted : Nat, keyGranted : Nat]

\* No call: what a goroutine's locals are once it has returned.
NoCall == [n |-> 0]

----------------------------------------------------------------------------
\* What a goroutine that is about to make the Storage call `label' with locals
\* c has taken from bucket b and will give back, or has not yet decided about.
Hold(label, c, b) ==
  CASE label = "key" /\ hasGlobal /\ b = globalKey -> c.globalGranted
    [] label = "surplus" /\ b = globalKey ->
         (c.globalGranted - c.keyGranted) + Undone(c)
    [] label \in {"undoKey", "undoGlobal"} /\ hasGlobal /\ b = globalKey ->
         c.keyGranted
    [] label \in {"surplus", "undoKey"} /\ b = c.key -> Undone(c)
    [] OTHER -> 0

\* Held by all goroutines together.
Held(b) == Total([p \in Procs |-> Hold(pc[p], call[p], b)])

\* What bucket b has in hand now, in units, outstanding tokens included.
Stock(b) == Refilled(bucket[b], now) + bucket[b].unit * Held(b)

----------------------------------------------------------------------------
Init ==
  /\ hasGlobal \in BOOLEAN
  /\ now = 0
  /\ bucket = [b \in Buckets |-> NewTokenBucket(Limit[b], Period, 0)]
  /\ pc = [p \in Procs |-> "idle"]
  /\ call = [p \in Procs |-> NoCall]
  /\ window = [opened |-> FALSE, start |-> 0, admitted |-> [b \in Buckets |-> 0],
               held |-> [b \in Buckets |-> 0],
               stock |-> [b \in Buckets |-> 0]]

\* While the observer watches, items count as admitted from the moment their
\* fate is sealed.
Admit(c) ==
  window' = [window EXCEPT !.admitted = [b \in Buckets |->
    IF window.opened /\ (b = c.key \/ (hasGlobal /\ b = globalKey))
    THEN @[b] + Admitted(c) ELSE @[b]]]

\* The goroutine moves on to the Storage call `label', its locals being c.
Goto(p, label, c) ==
  /\ pc' = [pc EXCEPT ![p] = label]
  /\ call' = [call EXCEPT ![p] = IF label = "idle" THEN NoCall ELSE c]

Begin(p, k, n, whole) ==
  /\ pc[p] = "idle"
  /\ Goto(p, FirstLabel(hasGlobal), NewCall(k, n, whole))
  /\ UNCHANGED <<hasGlobal, now, bucket, window>>

\* storage.AllowUpToN(globalKey, n); nothing granted ends the call.
TakeGlobal(p) ==
  LET c == call[p]
      granted == Granted(bucket[globalKey], c.n, now) IN
  /\ pc[p] = "global"
  /\ bucket' = [bucket EXCEPT ![globalKey] = AllowUpToN(@, c.n, now)]
  /\ Goto(p, IF granted = 0 THEN "idle" ELSE "key",
          [c EXCEPT !.globalGranted = granted])
  /\ UNCHANGED <<hasGlobal, now, window>>

\* storage.AllowUpToN(key, globalGranted).
TakeKey(p) ==
  LET c == call[p]
      d == [c EXCEPT !.keyGranted =
              Granted(bucket[c.key], c.globalGranted, now)] IN
  /\ pc[p] = "key"
  /\ bucket' = [bucket EXCEPT ![c.key] = AllowUpToN(@, c.globalGranted, now)]
  /\ Goto(p, AfterKey(hasGlobal, d), d)
  /\ Admit(d)
  /\ UNCHANGED <<hasGlobal, now>>

\* storage.Refund(globalKey, globalGranted - keyGranted).
RefundSurplus(p) ==
  LET c == call[p] IN
  /\ pc[p] = "surplus"
  /\ bucket' = [bucket EXCEPT ![globalKey] =
                  Refund(@, c.globalGranted - c.keyGranted)]
  /\ Goto(p, AfterGrant(c), c)
  /\ UNCHANGED <<hasGlobal, now, window>>

\* AllowNCtx gives back a partial grant: first the key's bucket ...
UndoKey(p) ==
  LET c == call[p] IN
  /\ pc[p] = "undoKey"
  /\ bucket' = [bucket EXCEPT ![c.key] = Refund(@, c.keyGranted)]
  /\ Goto(p, AfterUndoKey(hasGlobal), c)
  /\ UNCHANGED <<hasGlobal, now, window>>

\* ... then the global one.
UndoGlobal(p) ==
  /\ pc[p] = "undoGlobal"
  /\ bucket' = [bucket EXCEPT ![globalKey] = Refund(@, call[p].keyGranted)]
  /\ Goto(p, "idle", NoCall)
  /\ UNCHANGED <<hasGlobal, now, window>>

Tick ==
  /\ now < MaxTime
  /\ now' = now + 1
  /\ UNCHANGED <<hasGlobal, bucket, pc, call, window>>

\* An observer starts to count, at any moment, once.
OpenWindow ==
  /\ ~window.opened
  /\ window' = [opened |-> TRUE, start |-> now, admitted |-> [b \in Buckets |-> 0],
                held |-> [b \in Buckets |-> Held(b)],
                stock |-> [b \in Buckets |-> Stock(b)]]
  /\ UNCHANGED <<hasGlobal, now, bucket, pc, call>>

Step(p) ==
  \/ TakeGlobal(p) \/ TakeKey(p) \/ RefundSurplus(p)
  \/ UndoKey(p) \/ UndoGlobal(p)

Next ==
  \/ \E p \in Procs, k \in Keys, n \in Requests, w \in BOOLEAN : Begin(p, k, n, w)
  \/ \E p \in Procs : Step(p)
  \/ Tick
  \/ OpenWindow

Spec == Init /\ [][Next]_vars

----------------------------------------------------------------------------
\* Types: buckets never hold a negative number of tokens, and goroutines are at one of
\* the Storage calls of ratelimiter.go with its locals.
TypeOK ==
  /\ hasGlobal \in BOOLEAN
  /\ now \in 0 .. MaxTime
  /\ bucket \in [Buckets -> TokenBuckets]
  /\ pc \in [Procs -> Labels]
  /\ call \in [Procs -> Calls \cup {NoCall}]
  /\ window \in [opened : BOOLEAN, start : Nat, admitted : [Buckets -> Nat],
                 held : [Buckets -> Nat], stock : [Buckets -> Nat]]

\* In every window of time a bucket admits no more than one full burst plus
\* what it refills meanwhile.  Tokens that were in flight when the window
\* opened (taken by a batch that is then refunded) can be spent again in it,
\* on top: that is the price of take-then-refund instead of one atomic check.
BurstBound ==
  \A b \in Buckets :
    bucket[b].unit * window.admitted[b]
      <= bucket[b].maxTokens + bucket[b].unit * window.held[b]
           + bucket[b].refillRate * (now - window.start)

\* "A denied batch never drains budget it didn't use": every token missing
\* from a bucket was admitted or is still in flight.  Whatever the order of
\* the refunds, none of them is forgotten or cut short.
NothingDrained ==
  \A b \in Buckets :
    Stock(b) + bucket[b].unit * window.admitted[b]
      >= AtMost(window.stock[b], bucket[b].maxTokens)

\* The budgets as an outsider sees them: a bucket's tokens, refilled, are free,
\* and what calls in progress hold of it is lent.
Accounts == INSTANCE Budget WITH
  free <- [b \in Buckets |-> Refilled(bucket[b], now)],
  lent <- [b \in Buckets |-> Held(b)],
  watched <- window.opened,
  spent <- window.admitted

\* The sequences of takes and refunds implement Budget: whatever the
\* interleaving, each Storage call lends, spends or returns tokens of one
\* budget, or admits items that the key's and the global budget both pay for.
ImplementsBudget == Accounts!BSpec
=============================================================================
