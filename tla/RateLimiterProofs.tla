-------------------------- MODULE RateLimiterProofs --------------------------
(***************************************************************************)
(* The limiter's budget theorems, for any number of goroutines and keys,   *)
(* any limits and any interleaving of the Storage calls, and that it       *)
(* implements Budget.                                                      *)
(***************************************************************************)
EXTENDS RateLimiter, AccountingProofs

\* What the locals of a goroutine look like at each of its Storage calls.
CallOK(label, c) ==
  /\ label = "idle" => c = NoCall
  /\ label # "idle" =>
       /\ c \in Calls /\ c.n > 0
       /\ c.globalGranted <= c.n /\ c.keyGranted <= c.globalGranted
  /\ label \in {"global", "surplus", "undoGlobal"} => hasGlobal
  /\ label \in {"global", "key"} => c.keyGranted = 0
  /\ label = "surplus" => c.keyGranted < c.globalGranted
  /\ label \in {"undoKey", "undoGlobal"} => c.whole /\ c.keyGranted < c.n

\* The observation window at bucket b: what the bucket has in hand, what is in
\* flight and what was admitted add up to no more than there was plus what was
\* refilled, and to no less than there was (unless the bucket is full anyway).
WindowOK(b) ==
  LET u == bucket[b].unit
      sum == Stock(b) + u * window.admitted[b]
  IN  /\ window.opened =>
           sum <= window.stock[b] + bucket[b].refillRate * (now - window.start)
      /\ window.stock[b] <= bucket[b].maxTokens + u * window.held[b]
      /\ sum >= AtMost(window.stock[b], bucket[b].maxTokens)
      /\ ~window.opened => window.stock[b] = 0 /\ window.admitted[b] = 0

\* The inductive invariant.
IInv ==
  /\ TypeOK
  /\ window.start <= now
  /\ \A p \in Procs : CallOK(pc[p], call[p])
  /\ \A b \in Buckets : Sane(bucket[b], now)
  /\ \A b \in Buckets : WindowOK(b)

----------------------------------------------------------------------------
\* What a goroutine holds is a natural number.
LEMMA HoldNat ==
  ASSUME NEW label \in Labels, NEW c, NEW b, CallOK(label, c), hasGlobal \in BOOLEAN
  PROVE  Hold(label, c, b) \in Nat
BY DEF Hold, CallOK, Calls, Undone, Labels

\* A goroutine that returns holds nothing.
LEMMA HoldIdle ==
  ASSUME NEW c, NEW b
  PROVE  Hold("idle", c, b) = 0
BY Zenon DEF Hold

\* What goroutine p's step does to the tokens in flight at bucket b.
LEMMA HeldStep ==
  ASSUME IInv, NEW p \in Procs, NEW b \in Buckets, NEW l \in Labels, NEW c,
         pc' = [pc EXCEPT ![p] = l], call' = [call EXCEPT ![p] = c],
         hasGlobal' = hasGlobal, CallOK(l, c)
  PROVE  /\ Held(b) \in Nat /\ Held(b)' \in Nat
         /\ Hold(pc[p], call[p], b) \in Nat /\ Hold(l, c, b) \in Nat
         /\ Hold(pc[p], call[p], b) <= Held(b)
         /\ Held(b)' = Held(b) - Hold(pc[p], call[p], b) + Hold(l, c, b)
<1> DEFINE f == [q \in Procs |-> Hold(pc[q], call[q], b)]
           v == Hold(l, c, b)
<1>1. f \in [Procs -> Nat] /\ v \in Nat /\ f[p] = Hold(pc[p], call[p], b)
  BY HoldNat, Zenon DEF IInv, TypeOK
<1>2. Held(b)' = Total([f EXCEPT ![p] = v])
  <2>1. \A q \in Procs : (Hold(pc[q], call[q], b))' =
                            IF q = p THEN v ELSE Hold(pc[q], call[q], b)
    BY DEF IInv, TypeOK, Hold
  <2>2. [q \in Procs |-> Hold(pc[q], call[q], b)]' = [f EXCEPT ![p] = v]
    BY <2>1, Zenon
  <2>3. QED
    BY <2>2, Zenon DEF Held
<1>3. Held(b) = Total(f)
  BY Zenon DEF Held
<1> HIDE DEF f, v
<1>4. /\ f[p] <= Total(f)
      /\ Total([f EXCEPT ![p] = v]) = Total(f) - f[p] + v
  BY <1>1, ProcsFinite, TotalUpdate, Zenon
<1>5. Total(f) \in Nat
  BY <1>1, ProcsFinite, TotalType, Zenon
<1>6. f[p] \in Nat
  BY <1>1, Zenon
<1>7. QED
  BY <1>1, <1>2, <1>3, <1>4, <1>5, <1>6 DEF v

\* The clock, the configuration and the frame of the window stand still.
Still(b) ==
  /\ now' = now /\ Sane(bucket'[b], now) /\ SameConfig(bucket'[b], bucket[b])
  /\ window'.opened = window.opened /\ window'.start = window.start
  /\ window'.stock[b] = window.stock[b] /\ window'.held[b] = window.held[b]

\* Tokens that move between the bucket, a goroutine and the admitted items
\* leave their sum, and so the window's bounds, alone.
LEMMA MoveStep ==
  ASSUME IInv, NEW b \in Buckets, Still(b), NEW d \in Int, NEW a \in Nat,
         Held(b) \in Nat, Held(b)' \in Nat, Held(b)' = Held(b) + d - a,
         Refilled(bucket'[b], now) = Refilled(bucket[b], now) - d * bucket[b].unit,
         window'.admitted[b] = window.admitted[b] + (IF window.opened THEN a ELSE 0)
  PROVE  WindowOK(b)'
<1> DEFINE u == bucket[b].unit
           r == Refilled(bucket[b], now)
           h == Held(b)
           m == window.admitted[b]
<1>1. /\ u \in Nat /\ r \in Nat /\ h \in Nat /\ m \in Nat /\ window.stock[b] \in Nat
      /\ bucket[b].maxTokens \in Nat /\ window.opened \in BOOLEAN
      /\ u * m \in Nat /\ u * h \in Nat
  BY RefilledBounds, ProductNat DEF IInv, TypeOK, TokenBuckets
<1>2. /\ Stock(b)' = Refilled(bucket'[b], now) + u * Held(b)'
      /\ Stock(b) = r + u * h
      /\ bucket'[b].unit = u /\ bucket'[b].maxTokens = bucket[b].maxTokens
      /\ bucket'[b].refillRate = bucket[b].refillRate
  BY Zenon DEF Stock, Still, SameConfig
<1>3. Refilled(bucket'[b], now) \in Nat
  BY RefilledBounds DEF IInv, TypeOK, Still
<1>4. u * Held(b)' = u * h + u * d - u * a /\ d * u = u * d
  BY <1>1
<1>5. CASE window.opened
  <2>1. u * window'.admitted[b] = u * m + u * a
    BY <1>1, <1>5
  <2>2. Stock(b)' + u * window'.admitted[b] = Stock(b) + u * m
    BY <1>1, <1>2, <1>3, <1>4, <2>1
  <2>3. QED
    BY <1>2, <1>5, <2>2, Zenon DEF IInv, WindowOK, Still
<1>6. CASE ~window.opened
  <2>1. window'.admitted[b] = 0 /\ window.stock[b] = 0
    BY <1>1, <1>6 DEF IInv, WindowOK
  <2>2. Stock(b)' \in Nat
    <3>1. u * Held(b)' \in Nat
      BY <1>1, ProductNat, Zenon
    <3>2. QED
      BY <1>2, <1>3, <3>1
  <2>3. QED
    BY <1>1, <1>2, <1>6, <2>1, <2>2 DEF IInv, WindowOK, Still, AtMost
<1>7. QED
  BY <1>5, <1>6, Zenon

\* A step that does not touch bucket b may still admit a of the tokens taken
\* from it, or nothing.
LEMMA QuietStep ==
  ASSUME IInv, NEW b \in Buckets, Still(b), NEW a \in Nat,
         bucket'[b] = bucket[b],
         Held(b) \in Nat, Held(b)' \in Nat, Held(b)' = Held(b) - a,
         window'.admitted[b] = window.admitted[b] + (IF window.opened THEN a ELSE 0)
  PROVE  WindowOK(b)'
<1> DEFINE d == 0
<1>1. Refilled(bucket'[b], now) = Refilled(bucket[b], now) - d * bucket[b].unit
  BY RefilledBounds DEF IInv, TypeOK, Sane, TokenBuckets
<1>2. Held(b)' = Held(b) + d - a /\ d \in Int
  OBVIOUS
<1> HIDE DEF d
<1>3. QED
  BY <1>1, <1>2, MoveStep, Zenon

\* A refund of d tokens may be cut off at the cap: the sum can only shrink, and
\* then the bucket is full.
LEMMA RefundStep ==
  ASSUME IInv, NEW b \in Buckets, Still(b), NEW d \in Nat,
         Held(b) \in Nat, Held(b)' \in Nat, Held(b)' = Held(b) - d,
         Refilled(bucket'[b], now) =
           AtMost(Refilled(bucket[b], now) + d * bucket[b].unit, bucket[b].maxTokens),
         window'.admitted[b] = window.admitted[b]
  PROVE  WindowOK(b)'
<1> DEFINE u == bucket[b].unit
           r == Refilled(bucket[b], now)
           h == Held(b)
           m == window.admitted[b]
<1>1. /\ u \in Nat /\ r \in Nat /\ h \in Nat /\ m \in Nat /\ window.stock[b] \in Nat
      /\ bucket[b].maxTokens \in Nat /\ window.opened \in BOOLEAN
      /\ u * m \in Nat /\ u * h \in Nat /\ u * d \in Nat
  BY RefilledBounds, ProductNat DEF IInv, TypeOK, TokenBuckets
<1>2. /\ Stock(b)' = Refilled(bucket'[b], now) + u * Held(b)'
      /\ Stock(b) = r + u * h
      /\ bucket'[b].unit = u /\ bucket'[b].maxTokens = bucket[b].maxTokens
      /\ bucket'[b].refillRate = bucket[b].refillRate
  BY Zenon DEF Stock, Still, SameConfig
<1>3. u * Held(b)' = u * h - u * d /\ d * u = u * d
  BY <1>1
<1>4. u * Held(b)' \in Nat
  BY <1>1, ProductNat, Zenon
<1>5. /\ Stock(b)' + u * m <= Stock(b) + u * m
      /\ \/ Stock(b)' + u * m >= Stock(b) + u * m
         \/ Stock(b)' + u * m >= bucket[b].maxTokens
  BY <1>1, <1>2, <1>3, <1>4 DEF AtMost
<1>6. Stock(b) \in Nat /\ Stock(b)' \in Nat
  BY <1>1, <1>2, <1>3, <1>4 DEF AtMost
<1>7. bucket[b].refillRate * (now - window.start) \in Nat
  <2>1. bucket[b].refillRate \in Nat /\ now - window.start \in Nat
    BY DEF IInv, TypeOK, TokenBuckets
  <2>2. QED
    BY <2>1, ProductNat, Zenon
<1>8. QED
  BY <1>1, <1>2, <1>5, <1>6, <1>7 DEF IInv, WindowOK, Still, AtMost

----------------------------------------------------------------------------
\* Going to the next Storage call keeps every goroutine's locals in order.
LEMMA GotoStep ==
  ASSUME IInv, NEW p \in Procs, NEW l \in Labels, NEW c, Goto(p, l, c),
         hasGlobal' = hasGlobal, CallOK(l, IF l = "idle" THEN NoCall ELSE c)
  PROVE  /\ pc' \in [Procs -> Labels] /\ call' \in [Procs -> Calls \cup {NoCall}]
         /\ hasGlobal' \in BOOLEAN
         /\ \A q \in Procs : CallOK(pc[q], call[q])'
         /\ \A b \in Buckets :
              /\ Held(b) \in Nat /\ Held(b)' \in Nat
              /\ Hold(pc[p], call[p], b) \in Nat /\ Hold(l, c, b) \in Nat
              /\ Held(b)' = Held(b) - Hold(pc[p], call[p], b) + Hold(l, c, b)
<1> DEFINE d == IF l = "idle" THEN NoCall ELSE c
<1>1. pc' = [pc EXCEPT ![p] = l] /\ call' = [call EXCEPT ![p] = d]
  BY Zenon DEF Goto
<1>2. d \in Calls \cup {NoCall}
  BY Zenon DEF CallOK
<1> HIDE DEF d
<1>3. pc' \in [Procs -> Labels] /\ call' \in [Procs -> Calls \cup {NoCall}]
  BY <1>1, <1>2, Zenon DEF IInv, TypeOK
<1>4. CallOK(l, d)
  BY Zenon DEF d
<1>5. \A q \in Procs : CallOK(pc[q], call[q])'
  <2> TAKE q \in Procs
  <2>1. CASE q = p
    <3>1. pc'[q] = l /\ call'[q] = d
      BY <1>1, <2>1, Zenon DEF IInv, TypeOK
    <3>2. QED
      BY <1>4, <3>1, Zenon DEF CallOK
  <2>2. CASE q # p
    <3>1. pc'[q] = pc[q] /\ call'[q] = call[q]
      BY <1>1, <2>2, Zenon DEF IInv, TypeOK
    <3>2. QED
      BY <3>1, Zenon DEF IInv, CallOK
  <2>3. QED
    BY <2>1, <2>2, Zenon
<1>6. \A b \in Buckets :
        /\ Held(b) \in Nat /\ Held(b)' \in Nat
        /\ Hold(pc[p], call[p], b) \in Nat /\ Hold(l, d, b) \in Nat
        /\ Held(b)' = Held(b) - Hold(pc[p], call[p], b) + Hold(l, d, b)
  BY <1>1, <1>4, HeldStep, Zenon
<1>7. \A b : Hold(l, d, b) = Hold(l, c, b)
  BY HoldIdle, Zenon DEF d
<1>8. hasGlobal' \in BOOLEAN
  BY Zenon DEF IInv, TypeOK
<1>9. QED
  BY <1>3, <1>5, <1>6, <1>7, <1>8, Zenon

\* A step that leaves the buckets, the clock and the window alone and takes
\* nothing changes no bound.
LEMMA BeginInv ==
  ASSUME IInv, NEW p \in Procs, NEW k \in Keys, NEW n \in Requests,
         NEW w \in BOOLEAN, Begin(p, k, n, w)
  PROVE  IInv'
<1> DEFINE l == IF hasGlobal THEN "global" ELSE "key"
           c == [key |-> k, n |-> n, whole |-> w, globalGranted |-> n, keyGranted |-> 0]
<1>1. c \in Calls /\ c.n = n /\ n > 0 /\ c.globalGranted = n /\ c.keyGranted = 0 /\ c.key = k
  BY RequestsPositive DEF Calls
<1>2. l \in Labels /\ l # "idle" /\ Goto(p, l, c) /\ pc[p] = "idle"
      /\ UNCHANGED <<hasGlobal, now, bucket, window>>
  BY Zenon DEF Begin, Labels, FirstLabel, NewCall
<1>3. CallOK(l, c)
  <2> HIDE DEF c
  <2>1. QED
    BY <1>1, RequestsPositive DEF CallOK, IInv, TypeOK, Calls
<1> HIDE DEF c
<1>4. \A b \in Buckets : Hold(pc[p], call[p], b) = 0 /\ Hold(l, c, b) = 0
  BY <1>1, <1>2, HoldIdle, GlobalKeyReserved, Zenon DEF Hold, IInv, TypeOK
<1> HIDE DEF l
<1>5. /\ pc' \in [Procs -> Labels] /\ call' \in [Procs -> Calls \cup {NoCall}]
      /\ hasGlobal' \in BOOLEAN
      /\ \A q \in Procs : CallOK(pc[q], call[q])'
      /\ \A b \in Buckets :
           Held(b) \in Nat /\ Held(b)' \in Nat /\ Held(b)' = Held(b)
  BY <1>2, <1>3, <1>4, GotoStep
<1>6. TypeOK' /\ (window.start <= now)'
  BY <1>2, <1>5, Zenon DEF IInv, TypeOK
<1>7. \A b \in Buckets : Sane(bucket[b], now)'
  BY <1>2, Zenon DEF IInv, Sane
<1>8. \A b \in Buckets : WindowOK(b)'
  BY <1>2, <1>5, Zenon DEF IInv, WindowOK, Stock
<1>9. QED
  BY <1>5, <1>6, <1>7, <1>8, Zenon DEF IInv

\* The common part of the steps that make one Storage call on bucket x: given
\* the effect on the buckets and the locals, the invariant holds again if each
\* window does.
LEMMA StepInv ==
  ASSUME IInv, NEW p \in Procs, NEW l \in Labels, NEW c, Goto(p, l, c),
         CallOK(l, IF l = "idle" THEN NoCall ELSE c),
         UNCHANGED <<hasGlobal, now>>, NEW x \in Buckets, NEW tb,
         bucket' = [bucket EXCEPT ![x] = tb],
         Sane(tb, now), SameConfig(tb, bucket[x]),
         window' \in [opened : BOOLEAN, start : Nat, admitted : [Buckets -> Nat],
                      held : [Buckets -> Nat], stock : [Buckets -> Nat]],
         window'.opened = window.opened, window'.start = window.start,
         window'.stock = window.stock, window'.held = window.held,
         (\A b \in Buckets : Still(b) /\ bucket'[b] = (IF b = x THEN tb ELSE bucket[b]))
           => \A b \in Buckets : WindowOK(b)'
  PROVE  IInv'
<1>1. bucket' \in [Buckets -> TokenBuckets]
  BY Zenon DEF IInv, TypeOK, Sane
<1>2. \A b \in Buckets : bucket'[b] = IF b = x THEN tb ELSE bucket[b]
  BY Zenon DEF IInv, TypeOK
<1>3. \A b \in Buckets : Still(b)
  BY <1>2, Zenon DEF IInv, Still, SameConfig
<1>4. \A b \in Buckets : Sane(bucket[b], now)'
  <2> TAKE b \in Buckets
  <2>1. Sane(bucket'[b], now)
    BY <1>2, Zenon DEF IInv
  <2>2. QED
    BY <2>1, Zenon DEF Sane
<1>5. /\ pc' \in [Procs -> Labels] /\ call' \in [Procs -> Calls \cup {NoCall}]
      /\ hasGlobal' \in BOOLEAN
      /\ \A q \in Procs : CallOK(pc[q], call[q])'
  BY GotoStep, Zenon
<1>6. TypeOK' /\ (window.start <= now)'
  BY <1>1, <1>5, Zenon DEF IInv, TypeOK
<1>7. QED
  BY <1>2, <1>3, <1>4, <1>5, <1>6, Zenon DEF IInv

\* TakeGlobal moves what it is granted from the global bucket to the goroutine.
LEMMA TakeGlobalInv ==
  ASSUME IInv, NEW p \in Procs, TakeGlobal(p)
  PROVE  IInv'
<1> DEFINE c == call[p]
           x == globalKey
           granted == Granted(bucket[x], c.n, now)
           tb == AllowUpToN(bucket[x], c.n, now)
           l == IF granted = 0 THEN "idle" ELSE "key"
           d == [c EXCEPT !.globalGranted = granted]
<1>1. /\ pc[p] = "global" /\ bucket' = [bucket EXCEPT ![x] = tb]
      /\ Goto(p, l, d) /\ UNCHANGED <<hasGlobal, now, window>> /\ l \in Labels
      /\ x \in Buckets
  BY Zenon DEF TakeGlobal, IInv, TypeOK, Labels, Buckets
<1>2. c \in Calls /\ c.n > 0 /\ hasGlobal /\ c.keyGranted = 0
  BY <1>1, Zenon DEF IInv, CallOK
<1>3. /\ now \in Nat /\ Sane(bucket[x], now) /\ c.n \in Nat
  BY <1>1, <1>2 DEF IInv, TypeOK, Calls
<1>4. granted \in Nat /\ granted <= c.n
  BY <1>3, GrantedBounds, Zenon
<1>5. /\ Sane(tb, now) /\ SameConfig(tb, bucket[x])
      /\ Refilled(tb, now) = Refilled(bucket[x], now) - granted * bucket[x].unit
  BY <1>3, AllowUpToNEffect, Zenon
<1> HIDE DEF granted, tb, c, x
<1>6. d \in Calls /\ d.n = c.n /\ d.globalGranted = granted /\ d.keyGranted = 0
  BY <1>2, <1>4, Zenon DEF Calls
<1> HIDE DEF d
<1>7. CallOK(l, IF l = "idle" THEN NoCall ELSE d)
  BY <1>2, <1>4, <1>6 DEF CallOK
<1>8. \A b \in Buckets : /\ Hold(pc[p], call[p], b) = 0
                         /\ Hold(l, d, b) = IF b = x THEN granted ELSE 0
  BY <1>1, <1>2, <1>4, <1>6, HoldIdle, Zenon DEF Hold, x
<1> HIDE DEF l
<1>9. \A b \in Buckets : /\ Held(b) \in Nat /\ Held(b)' \in Nat
                         /\ Held(b)' = Held(b) + (IF b = x THEN granted ELSE 0) - 0
  BY <1>1, <1>4, <1>7, <1>8, GotoStep
<1>10. ASSUME \A b \in Buckets : Still(b) /\ bucket'[b] = (IF b = x THEN tb ELSE bucket[b])
       PROVE  \A b \in Buckets : WindowOK(b)'
  <2> TAKE b \in Buckets
  <2>1. window'.admitted[b] = window.admitted[b] + (IF window.opened THEN 0 ELSE 0)
    BY <1>1 DEF IInv, TypeOK
  <2>2. CASE b = x
    BY <1>4, <1>5, <1>9, <1>10, <2>1, <2>2, MoveStep
  <2>3. CASE b # x
    BY <1>9, <1>10, <2>1, <2>3, QuietStep
  <2>4. QED
    BY <2>2, <2>3, Zenon
<1>11. QED
  BY <1>1, <1>5, <1>7, <1>10, StepInv, Zenon DEF IInv, TypeOK

\* TakeKey admits items, or leaves the goroutine with what it must give back.
LEMMA TakeKeyInv ==
  ASSUME IInv, NEW p \in Procs, TakeKey(p)
  PROVE  IInv'
<1> DEFINE c == call[p]
           x == c.key
           granted == Granted(bucket[x], c.globalGranted, now)
           tb == AllowUpToN(bucket[x], c.globalGranted, now)
           d == [c EXCEPT !.keyGranted = granted]
           l == IF hasGlobal /\ d.keyGranted < d.globalGranted
                THEN "surplus" ELSE AfterGrant(d)
           a == granted - Undone(d)
<1>1. /\ pc[p] = "key" /\ bucket' = [bucket EXCEPT ![x] = tb]
      /\ Goto(p, l, d) /\ UNCHANGED <<hasGlobal, now>> /\ Admit(d)
  BY Zenon DEF TakeKey, AfterKey
<1>2. c \in Calls /\ c.n > 0 /\ c.globalGranted <= c.n
  BY <1>1, Zenon DEF IInv, CallOK
<1>3. /\ now \in Nat /\ x \in Buckets /\ Sane(bucket[x], now)
      /\ c.globalGranted \in Nat /\ x # globalKey
  BY <1>1, <1>2, GlobalKeyReserved DEF IInv, TypeOK, Calls, Buckets
<1>4. granted \in Nat /\ granted <= c.globalGranted
  BY <1>3, GrantedBounds, Zenon
<1>5. /\ Sane(tb, now) /\ SameConfig(tb, bucket[x])
      /\ Refilled(tb, now) = Refilled(bucket[x], now) - granted * bucket[x].unit
  BY <1>3, AllowUpToNEffect, Zenon
<1> HIDE DEF granted, tb
<1>6. /\ d \in Calls /\ d.n = c.n /\ d.globalGranted = c.globalGranted
      /\ d.keyGranted = granted /\ d.whole = c.whole /\ d.key = x
  BY <1>2, <1>4, Zenon DEF Calls
<1>7. Undone(d) \in Nat /\ Undone(d) <= granted /\ a \in Nat
  BY <1>4, <1>6 DEF Undone
<1> HIDE DEF d, x, c
<1>8. l \in Labels /\ CallOK(l, IF l = "idle" THEN NoCall ELSE d)
  BY <1>2, <1>4, <1>6, Zenon DEF CallOK, AfterGrant, Labels, Calls
<1>9. \A b \in Buckets :
        /\ Hold(pc[p], call[p], b) =
             IF hasGlobal /\ b = globalKey THEN c.globalGranted ELSE 0
        /\ Hold(l, d, b) =
             IF b = x THEN Undone(d)
             ELSE IF hasGlobal /\ b = globalKey
                  THEN c.globalGranted - granted + Undone(d) ELSE 0
  <2>1. \A b \in Buckets : Hold(pc[p], call[p], b) =
             IF hasGlobal /\ b = globalKey THEN c.globalGranted ELSE 0
    BY <1>1, Zenon DEF Hold, c
  <2>2. CASE l = "surplus"
    BY <1>3, <1>6, <2>1, <2>2, Zenon DEF Hold, AfterGrant
  <2>3. CASE l = "undoKey"
    <3>1. Undone(d) = granted /\ (hasGlobal => granted = c.globalGranted)
      BY <1>2, <1>4, <1>6, <2>3 DEF Undone, AfterGrant, Calls
    <3>2. QED
      BY <1>2, <1>3, <1>4, <1>6, <2>1, <2>3, <3>1 DEF Hold, Calls
  <2>4. CASE l = "idle"
    <3>1. Undone(d) = 0 /\ (hasGlobal => granted = c.globalGranted)
      BY <1>2, <1>4, <1>6, <2>4 DEF Undone, AfterGrant, Calls
    <3>2. QED
      BY <1>2, <1>3, <1>4, <1>6, <2>1, <2>4, <3>1, HoldIdle DEF Calls
  <2>5. QED
    BY <2>2, <2>3, <2>4, Zenon DEF AfterGrant
<1> HIDE DEF l
<1>10. \A b \in Buckets : /\ Held(b) \in Nat /\ Held(b)' \in Nat
                          /\ Held(b)' = Held(b) - Hold(pc[p], call[p], b) + Hold(l, d, b)
  BY <1>1, <1>8, GotoStep, Zenon
<1>11. /\ window' \in [opened : BOOLEAN, start : Nat, admitted : [Buckets -> Nat],
                        held : [Buckets -> Nat], stock : [Buckets -> Nat]]
       /\ window'.opened = window.opened /\ window'.start = window.start
       /\ window'.stock = window.stock /\ window'.held = window.held
       /\ \A b \in Buckets : window'.admitted[b] =
            window.admitted[b]
              + (IF window.opened
                 THEN (IF b = x \/ (hasGlobal /\ b = globalKey) THEN a ELSE 0)
                 ELSE 0)
  <2> DEFINE m == [b \in Buckets |->
                     IF window.opened /\ (b = x \/ (hasGlobal /\ b = globalKey))
                     THEN window.admitted[b] + a ELSE window.admitted[b]]
  <2>1. window' = [window EXCEPT !.admitted = m]
    BY <1>1, <1>6, Zenon DEF Admit, Admitted
  <2>2. m \in [Buckets -> Nat]
    BY <1>7 DEF IInv, TypeOK
  <2>3. \A b \in Buckets : m[b] =
            window.admitted[b]
              + (IF window.opened
                 THEN (IF b = x \/ (hasGlobal /\ b = globalKey) THEN a ELSE 0)
                 ELSE 0)
    BY <1>7 DEF IInv, TypeOK
  <2> HIDE DEF m, a
  <2>4. QED
    BY <2>1, <2>2, <2>3, Zenon DEF IInv, TypeOK
<1>12. ASSUME \A b \in Buckets : Still(b) /\ bucket'[b] = (IF b = x THEN tb ELSE bucket[b])
       PROVE  \A b \in Buckets : WindowOK(b)'
  <2> TAKE b \in Buckets
  <2>1. CASE b = x
    <3>1. Held(b)' = Held(b) + granted - a
      BY <1>3, <1>4, <1>7, <1>9, <1>10, <2>1
    <3>2. QED
      BY <1>4, <1>5, <1>7, <1>10, <1>11, <1>12, <2>1, <3>1, MoveStep
  <2>2. CASE b # x /\ hasGlobal /\ b = globalKey
    <3>1. Held(b)' = Held(b) - a
      BY <1>3, <1>4, <1>7, <1>9, <1>10, <2>2 DEF c
    <3>2. QED
      BY <1>7, <1>10, <1>11, <1>12, <2>2, <3>1, QuietStep, Zenon
  <2>3. CASE b # x /\ ~(hasGlobal /\ b = globalKey)
    <3>1. Held(b)' = Held(b) - 0
      BY <1>9, <1>10, <2>3
    <3>2. QED
      BY <1>10, <1>11, <1>12, <2>3, <3>1, QuietStep, Zenon
  <2>4. QED
    BY <2>1, <2>2, <2>3, Zenon
<1>13. QED
  BY <1>1, <1>3, <1>5, <1>8, <1>11, <1>12, StepInv, Zenon

\* A refund by goroutine p of n tokens to bucket x, after which it holds n
\* tokens less of that bucket and as many as before of the others.
LEMMA GiveBackInv ==
  ASSUME IInv, NEW p \in Procs, NEW l \in Labels, NEW c, Goto(p, l, c),
         CallOK(l, IF l = "idle" THEN NoCall ELSE c),
         UNCHANGED <<hasGlobal, now, window>>, NEW x \in Buckets, NEW n \in Nat,
         bucket' = [bucket EXCEPT ![x] = Refund(bucket[x], n)],
         \A b \in Buckets : Hold(l, c, b) =
           Hold(pc[p], call[p], b) - (IF b = x THEN n ELSE 0)
  PROVE  IInv'
<1> DEFINE tb == Refund(bucket[x], n)
<1>1. now \in Nat /\ Sane(bucket[x], now)
  BY DEF IInv, TypeOK
<1>2. /\ Sane(tb, now) /\ SameConfig(tb, bucket[x])
      /\ Refilled(tb, now) =
           AtMost(Refilled(bucket[x], now) + n * bucket[x].unit, bucket[x].maxTokens)
  BY <1>1, RefundEffect, Zenon
<1>3. \A b \in Buckets :
        /\ Held(b) \in Nat /\ Held(b)' \in Nat
        /\ Held(b)' = Held(b) - (IF b = x THEN n ELSE 0)
  <2>1. \A b \in Buckets :
          /\ Held(b) \in Nat /\ Held(b)' \in Nat
          /\ Hold(pc[p], call[p], b) \in Nat
          /\ Held(b)' = Held(b) - Hold(pc[p], call[p], b) + Hold(l, c, b)
    BY GotoStep, Zenon
  <2>2. QED
    BY <2>1
<1> HIDE DEF tb
<1>4. ASSUME \A b \in Buckets : Still(b) /\ bucket'[b] = (IF b = x THEN tb ELSE bucket[b])
      PROVE  \A b \in Buckets : WindowOK(b)'
  <2> TAKE b \in Buckets
  <2>1. CASE b = x
    BY <1>2, <1>3, <1>4, <2>1, RefundStep, Zenon
  <2>2. CASE b # x
    <3>1. window'.admitted[b] = window.admitted[b] + (IF window.opened THEN 0 ELSE 0)
      BY DEF IInv, TypeOK
    <3>2. Held(b)' = Held(b) - 0
      BY <1>3, <2>2, Zenon
    <3>3. QED
      BY <1>3, <1>4, <2>2, <3>1, <3>2, QuietStep, Zenon
  <2>3. QED
    BY <2>1, <2>2, Zenon
<1>5. QED
  BY <1>2, <1>4, StepInv, Zenon DEF IInv, TypeOK, tb

LEMMA RefundSurplusInv ==
  ASSUME IInv, NEW p \in Procs, RefundSurplus(p)
  PROVE  IInv'
<1> DEFINE c == call[p]
           l == AfterGrant(c)
           n == c.globalGranted - c.keyGranted
<1>1. /\ pc[p] = "surplus" /\ Goto(p, l, c)
      /\ bucket' = [bucket EXCEPT ![globalKey] = Refund(bucket[globalKey], n)]
      /\ UNCHANGED <<hasGlobal, now, window>>
  BY Zenon DEF RefundSurplus, IInv, TypeOK, Buckets
<1>2. /\ c \in Calls /\ c.n > 0 /\ hasGlobal
      /\ c.globalGranted <= c.n /\ c.keyGranted < c.globalGranted
  BY <1>1, Zenon DEF IInv, CallOK
<1>3. /\ n \in Nat /\ globalKey \in Buckets /\ l \in Labels
      /\ CallOK(l, IF l = "idle" THEN NoCall ELSE c)
      /\ c.key # globalKey
  BY <1>2, GlobalKeyReserved DEF Calls, Buckets, Labels, AfterGrant, CallOK
<1>4. \A b \in Buckets : Hold(l, c, b) =
        Hold(pc[p], call[p], b) - (IF b = globalKey THEN n ELSE 0)
  <2>1. CASE l = "undoKey"
    <3>1. Undone(c) = c.keyGranted
      BY <2>1, Zenon DEF Undone, AfterGrant
    <3>2. QED
      BY <1>1, <1>2, <1>3, <2>1, <3>1 DEF Hold, Calls
  <2>2. CASE l = "idle"
    <3>1. Undone(c) = 0
      BY <1>2, <2>2 DEF Undone, AfterGrant, Calls
    <3>2. QED
      BY <1>1, <1>2, <1>3, <2>2, <3>1, HoldIdle DEF Hold, Calls
  <2>3. QED
    BY <2>1, <2>2, Zenon DEF AfterGrant
<1> HIDE DEF c, l, n
<1>5. QED
  BY <1>1, <1>3, <1>4, GiveBackInv

LEMMA UndoKeyInv ==
  ASSUME IInv, NEW p \in Procs, UndoKey(p)
  PROVE  IInv'
<1> DEFINE c == call[p]
           l == IF hasGlobal THEN "undoGlobal" ELSE "idle"
           x == c.key
           n == c.keyGranted
<1>1. /\ pc[p] = "undoKey" /\ Goto(p, l, c)
      /\ bucket' = [bucket EXCEPT ![x] = Refund(bucket[x], n)]
      /\ UNCHANGED <<hasGlobal, now, window>>
  BY Zenon DEF UndoKey, AfterUndoKey
<1>2. /\ c \in Calls /\ c.n > 0 /\ c.whole /\ c.keyGranted < c.n
      /\ c.globalGranted <= c.n /\ c.keyGranted <= c.globalGranted
  BY <1>1, Zenon DEF IInv, CallOK
<1>3. /\ n \in Nat /\ x \in Buckets /\ l \in Labels
      /\ CallOK(l, IF l = "idle" THEN NoCall ELSE c)
      /\ c.key # globalKey /\ Undone(c) = c.keyGranted
  BY <1>2, GlobalKeyReserved, Zenon DEF Calls, Buckets, Labels, CallOK, Undone, IInv, TypeOK
<1>4. \A b \in Buckets : Hold(l, c, b) =
        Hold(pc[p], call[p], b) - (IF b = x THEN n ELSE 0)
  BY <1>1, <1>3 DEF Hold
<1> HIDE DEF c, l, x, n
<1>5. QED
  BY <1>1, <1>3, <1>4, GiveBackInv

LEMMA UndoGlobalInv ==
  ASSUME IInv, NEW p \in Procs, UndoGlobal(p)
  PROVE  IInv'
<1> DEFINE c == call[p]
<1>1. /\ pc[p] = "undoGlobal" /\ Goto(p, "idle", NoCall)
      /\ bucket' = [bucket EXCEPT ![globalKey] = Refund(bucket[globalKey], c.keyGranted)]
      /\ UNCHANGED <<hasGlobal, now, window>>
  BY Zenon DEF UndoGlobal
<1>2. c \in Calls /\ hasGlobal
  BY <1>1, Zenon DEF IInv, CallOK
<1>3. /\ c.keyGranted \in Nat /\ globalKey \in Buckets /\ "idle" \in Labels
      /\ CallOK("idle", NoCall) /\ c.key # globalKey
  BY <1>2, GlobalKeyReserved, Zenon DEF Calls, Buckets, Labels, CallOK
<1>4. \A b \in Buckets : Hold("idle", NoCall, b) =
        Hold(pc[p], call[p], b) - (IF b = globalKey THEN c.keyGranted ELSE 0)
  BY <1>1, <1>2, <1>3, HoldIdle DEF Hold
<1> HIDE DEF c
<1>5. QED
  BY <1>1, <1>3, <1>4, GiveBackInv

\* One tick lets every bucket gain at most its rate.
LEMMA TickInv ==
  ASSUME IInv, Tick
  PROVE  IInv'
<1>1. /\ now \in Nat /\ now' = now + 1 /\ now' \in 0 .. MaxTime
      /\ UNCHANGED <<hasGlobal, bucket, pc, call, window>>
  BY MaxTimeNat DEF Tick, IInv, TypeOK
<1>2. TypeOK' /\ (window.start <= now)'
  BY <1>1 DEF IInv, TypeOK
<1>3. \A q \in Procs : CallOK(pc[q], call[q])'
  BY <1>1, Zenon DEF IInv, CallOK
<1>4. \A b \in Buckets :
        /\ Sane(bucket[b], now)'
        /\ Refilled(bucket[b], now) <= Refilled(bucket[b], now)'
        /\ Refilled(bucket[b], now)' <= Refilled(bucket[b], now) + bucket[b].refillRate
  <2> TAKE b \in Buckets
  <2>1. Sane(bucket[b], now)
    BY Zenon DEF IInv
  <2>2. /\ Sane(bucket[b], now + 1)
        /\ Refilled(bucket[b], now) <= Refilled(bucket[b], now + 1)
        /\ Refilled(bucket[b], now + 1) <= Refilled(bucket[b], now) + bucket[b].refillRate
    BY <1>1, <2>1, RefilledTick, Zenon
  <2>3. Refilled(bucket[b], now)' = Refilled(bucket[b], now + 1)
    BY <1>1, Zenon DEF Refilled
  <2>4. QED
    BY <1>1, <2>2, <2>3, Zenon DEF Sane
<1>5. \A b \in Buckets : WindowOK(b)'
  <2> TAKE b \in Buckets
  <2> DEFINE u == bucket[b].unit
             rate == bucket[b].refillRate
             s == window.start
  <2>1. Held(b)' = Held(b) /\ Held(b) \in Nat
    <3>1. [q \in Procs |-> Hold(pc[q], call[q], b)] \in [Procs -> Nat]
      BY HoldNat, Zenon DEF IInv, TypeOK
    <3>2. Held(b) \in Nat
      BY <3>1, ProcsFinite, TotalType, Zenon DEF Held
    <3>3. QED
      BY <1>1, <3>2 DEF Held, Hold
  <2>2. /\ u \in Nat /\ rate \in Nat /\ s \in Nat /\ s <= now
        /\ window.stock[b] \in Nat /\ window.admitted[b] \in Nat
        /\ bucket[b].maxTokens \in Nat
    BY Zenon DEF IInv, TypeOK, TokenBuckets
  <2>3. /\ Refilled(bucket[b], now) \in Nat
        /\ Refilled(bucket[b], now)' \in Nat
    BY <1>1, <1>4, RefilledBounds DEF IInv
  <2>4. u * Held(b) \in Nat /\ u * window.admitted[b] \in Nat /\ rate * (now - s) \in Nat
    BY <2>1, <2>2, <1>1, ProductNat
  <2>5. rate * (now' - s) = rate * (now - s) + rate
    <3> DEFINE e == now - s
    <3>1. now' - s = e + 1 /\ e \in Nat
      BY <1>1, <2>2
    <3> HIDE DEF e, rate
    <3>2. rate * (e + 1) = rate * e + rate
      BY <2>2, <3>1
    <3>3. QED
      BY <3>1, <3>2, Zenon DEF e
  <2>6. /\ Stock(b)' <= Stock(b) + rate /\ Stock(b) <= Stock(b)'
        /\ Stock(b) \in Nat /\ Stock(b)' \in Nat
    BY <1>1, <1>4, <2>1, <2>2, <2>3, <2>4 DEF Stock
  <2>7. WindowOK(b)
    BY Zenon DEF IInv
  <2> HIDE DEF s
  <2>8. QED
    BY <1>1, <2>2, <2>4, <2>5, <2>6, <2>7 DEF WindowOK, AtMost, s
<1>6. QED
  BY <1>2, <1>3, <1>4, <1>5, Zenon DEF IInv

\* The window opens on whatever the buckets hold.
LEMMA OpenWindowInv ==
  ASSUME IInv, OpenWindow
  PROVE  IInv'
<1>1. /\ window' = [opened |-> TRUE, start |-> now, admitted |-> [b \in Buckets |-> 0],
                    held |-> [b \in Buckets |-> Held(b)],
                    stock |-> [b \in Buckets |-> Stock(b)]]
      /\ UNCHANGED <<hasGlobal, now, bucket, pc, call>>
  BY Zenon DEF OpenWindow
<1>2. \A b \in Buckets :
        /\ Held(b) \in Nat /\ Held(b)' = Held(b)
        /\ bucket[b].unit * Held(b) \in Nat /\ Stock(b) \in Nat /\ Stock(b)' = Stock(b)
        /\ Stock(b) <= bucket[b].maxTokens + bucket[b].unit * Held(b)
  <2> TAKE b \in Buckets
  <2>1. Held(b) \in Nat
    <3>1. [q \in Procs |-> Hold(pc[q], call[q], b)] \in [Procs -> Nat]
      BY HoldNat, Zenon DEF IInv, TypeOK
    <3>2. QED
      BY <3>1, ProcsFinite, TotalType, Zenon DEF Held
  <2>2. Held(b)' = Held(b)
    BY <1>1 DEF Held, Hold
  <2>3. /\ Refilled(bucket[b], now) \in Nat
        /\ Refilled(bucket[b], now) <= bucket[b].maxTokens
        /\ bucket[b].maxTokens \in Nat /\ bucket[b].unit \in Nat
    BY RefilledBounds DEF IInv, TypeOK, TokenBuckets
  <2>4. bucket[b].unit * Held(b) \in Nat
    BY <2>1, <2>3, ProductNat, Zenon
  <2>5. Stock(b)' = Stock(b)
    BY <1>1, <2>2, Zenon DEF Stock, Refilled
  <2>6. QED
    BY <2>1, <2>2, <2>3, <2>4, <2>5 DEF Stock
<1>3. TypeOK' /\ (window.start <= now)'
  BY <1>1, <1>2 DEF IInv, TypeOK
<1>4. \A q \in Procs : CallOK(pc[q], call[q])'
  BY <1>1, Zenon DEF IInv, CallOK
<1>5. \A b \in Buckets : Sane(bucket[b], now)'
  BY <1>1, Zenon DEF IInv, Sane
<1>6. \A b \in Buckets : WindowOK(b)'
  <2> TAKE b \in Buckets
  <2>1. /\ window'.opened /\ window'.stock[b] = Stock(b) /\ window'.held[b] = Held(b)
        /\ window'.admitted[b] = 0 /\ window'.start = now
    BY <1>1, Zenon
  <2>2. /\ bucket[b].unit \in Nat /\ bucket[b].refillRate \in Nat
        /\ bucket[b].maxTokens \in Nat /\ now \in Nat
    BY DEF IInv, TypeOK, TokenBuckets
  <2>3. bucket[b].unit * 0 = 0 /\ bucket[b].refillRate * (now - now) = 0
    BY <2>2
  <2>4. QED
    BY <1>1, <1>2, <2>1, <2>2, <2>3 DEF WindowOK, AtMost
<1>7. QED
  BY <1>3, <1>4, <1>5, <1>6, Zenon DEF IInv

\* At the start nothing is in flight and every bucket is full.
LEMMA InitInv ==
  ASSUME Init
  PROVE  IInv
<1>1. \A b \in Buckets : Sane(bucket[b], now) /\ bucket[b] \in TokenBuckets
  BY LimitType, PeriodPositive DEF Init, Sane, NewTokenBucket, TokenBuckets
<1>2. TypeOK /\ window.start <= now
  BY <1>1, MaxTimeNat DEF Init, TypeOK, Labels
<1>3. \A p \in Procs : CallOK(pc[p], call[p])
  BY Zenon DEF Init, CallOK
<1>4. \A b \in Buckets : WindowOK(b)
  <2> TAKE b \in Buckets
  <2>1. Held(b) \in Nat
    <3>1. [q \in Procs |-> Hold(pc[q], call[q], b)] \in [Procs -> Nat]
      BY <1>2, <1>3, HoldNat, Zenon DEF TypeOK
    <3>2. QED
      BY <3>1, ProcsFinite, TotalType, Zenon DEF Held
  <2>2. Refilled(bucket[b], now) \in Nat /\ bucket[b].unit \in Nat /\ bucket[b].maxTokens \in Nat
    BY <1>1, <1>2, RefilledBounds DEF TypeOK, TokenBuckets
  <2>3. bucket[b].unit * Held(b) \in Nat /\ bucket[b].unit * 0 = 0
    BY <2>1, <2>2, ProductNat
  <2>4. /\ ~window.opened /\ window.stock[b] = 0 /\ window.held[b] = 0
        /\ window.admitted[b] = 0
    BY Zenon DEF Init
  <2>5. QED
    BY <2>2, <2>3, <2>4 DEF WindowOK, Stock, AtMost
<1>5. QED
  BY <1>1, <1>2, <1>3, <1>4, Zenon DEF IInv

LEMMA StutterInv ==
  ASSUME IInv, UNCHANGED vars
  PROVE  IInv'
<1>1. UNCHANGED <<hasGlobal, now, bucket, pc, call, window>>
  BY Zenon DEF vars
<1>2. \A b \in Buckets : Stock(b)' = Stock(b)
  BY <1>1 DEF Stock, Held, Hold, Refilled
<1>3. TypeOK' /\ (window.start <= now)' /\ \A b \in Buckets : Sane(bucket[b], now)'
  BY <1>1, Zenon DEF IInv, TypeOK, Sane
<1>4. \A p \in Procs : CallOK(pc[p], call[p])'
  BY <1>1, Zenon DEF IInv, CallOK
<1>5. \A b \in Buckets : WindowOK(b)'
  BY <1>1, <1>2, Zenon DEF IInv, WindowOK
<1>6. QED
  BY <1>3, <1>4, <1>5, Zenon DEF IInv

----------------------------------------------------------------------------
\* The invariant holds in every reachable state, whatever the interleaving.
THEOREM Invariance == Spec => []IInv
<1>1. Init => IInv
  BY InitInv, Zenon
<1>2. IInv /\ [Next]_vars => IInv'
  <2> SUFFICES ASSUME IInv, [Next]_vars
               PROVE  IInv'
    BY Zenon
  <2>1. ASSUME NEW p \in Procs, NEW k \in Keys, NEW n \in Requests, NEW w \in BOOLEAN,
               Begin(p, k, n, w)
        PROVE  IInv'
    BY <2>1, BeginInv, Zenon
  <2>2. ASSUME NEW p \in Procs, Step(p)
        PROVE  IInv'
    BY <2>2, TakeGlobalInv, TakeKeyInv, RefundSurplusInv, UndoKeyInv, UndoGlobalInv, Zenon
       DEF Step
  <2>3. CASE Tick
    BY <2>3, TickInv, Zenon
  <2>4. CASE OpenWindow
    BY <2>4, OpenWindowInv, Zenon
  <2>5. CASE UNCHANGED vars
    BY <2>5, StutterInv, Zenon
  <2>6. QED
    BY <2>1, <2>2, <2>3, <2>4, <2>5, Zenon DEF Next
<1>3. QED
  BY <1>1, <1>2, PTL DEF Spec

\* Type correctness: in particular no bucket of ratelimiter.go ever holds a
\* negative number of tokens or more than its maximum.
THEOREM TypeCorrect == Spec => [](TypeOK /\ \A b \in Buckets : Sane(bucket[b], now))
<1>1. IInv => TypeOK /\ \A b \in Buckets : Sane(bucket[b], now)
  BY Zenon DEF IInv
<1>2. QED
  BY <1>1, Invariance, PTL

\* No window of time admits more than a burst, the tokens in flight when it
\* opened and the refill: AllowUpToNCtx and AllowNCtx never over-admit.
THEOREM BurstBounded == Spec => []BurstBound
<1>1. IInv => BurstBound
  <2> SUFFICES ASSUME IInv, NEW b \in Buckets
               PROVE  bucket[b].unit * window.admitted[b]
                        <= bucket[b].maxTokens + bucket[b].unit * window.held[b]
                             + bucket[b].refillRate * (now - window.start)
    BY Zenon DEF BurstBound
  <2> DEFINE u == bucket[b].unit
             e == now - window.start
             h == Held(b)
  <2>1. /\ u \in Nat /\ bucket[b].refillRate \in Nat /\ bucket[b].maxTokens \in Nat
        /\ window.admitted[b] \in Nat /\ window.held[b] \in Nat /\ e \in Nat
        /\ window.stock[b] \in Nat
    BY DEF IInv, TypeOK, TokenBuckets
  <2>2. h \in Nat
    <3>1. [q \in Procs |-> Hold(pc[q], call[q], b)] \in [Procs -> Nat]
      BY HoldNat, Zenon DEF IInv, TypeOK
    <3>2. QED
      BY <3>1, ProcsFinite, TotalType, Zenon DEF Held
  <2>3. Refilled(bucket[b], now) \in Nat
    BY RefilledBounds DEF IInv, TypeOK
  <2> HIDE DEF u, e, h
  <2>4. /\ u * window.admitted[b] \in Nat /\ u * window.held[b] \in Nat
        /\ bucket[b].refillRate * e \in Nat /\ u * h \in Nat
    BY <2>1, <2>2, ProductNat, Zenon
  <2>5. Stock(b) \in Nat
    BY <2>3, <2>4 DEF Stock, u, h
  <2>6. WindowOK(b)
    BY Zenon DEF IInv
  <2>7. CASE window.opened
    BY <2>1, <2>4, <2>5, <2>6, <2>7 DEF WindowOK, u, e
  <2>8. CASE ~window.opened
    <3>1. window.admitted[b] = 0
      BY <2>6, <2>8, Zenon DEF WindowOK
    <3>2. u * window.admitted[b] = 0
      BY <2>1, <3>1
    <3>3. QED
      BY <2>1, <2>4, <3>2 DEF u, e
  <2>9. QED
    BY <2>7, <2>8, Zenon
<1>2. QED
  BY <1>1, Invariance, PTL

\* Refunds are complete: what is missing from a bucket was admitted or is
\* still in flight, so a denied batch drains nothing once it has returned.
THEOREM NeverDrained == Spec => []NothingDrained
<1>1. IInv => NothingDrained
  BY Zenon DEF IInv, WindowOK, NothingDrained
<1>2. QED
  BY <1>1, Invariance, PTL

----------------------------------------------------------------------------
\* The rate limiter implements Budget: a step simulation under the invariant.
\* Storage calls that grant something lend it, or admit it; refunds return it;
\* everything else stutters.

\* The buckets keep the limit and the period they were created with.
Configured ==
  \A b \in Buckets : /\ bucket[b].unit = Period
                     /\ bucket[b].refillRate = Limit[b]
                     /\ bucket[b].maxTokens = Limit[b] * Period

Free(b) == Refilled(bucket[b], now)

Simulated == [Accounts!BNext]_(Accounts!bvars)

\* What AllowUpToN grants is a number of tokens Budget may lend or admit.
LEMMA Affordable ==
  ASSUME NEW f \in Nat, NEW n \in Nat, n > 0, n * Period <= f
  PROVE  n \in 1 .. f \div Period
<1>1. Period \in Nat /\ Period > 0
  BY PeriodPositive
<1>2. f \div Period \in Nat /\ f % Period \in 0 .. Period - 1
      /\ f = Period * (f \div Period) + (f % Period)
  BY <1>1
<1> DEFINE q == f \div Period
<1>3. SUFFICES ASSUME n >= q + 1 PROVE FALSE
  BY <1>2
<1> HIDE DEF q
<1>4. q \in Nat /\ f < Period * q + Period
  BY <1>1, <1>2 DEF q
<1>5. n * Period >= (q + 1) * Period
  BY <1>1, <1>3, <1>4
<1>6. (q + 1) * Period = Period * q + Period
  BY <1>1, <1>4
<1>7. QED
  BY <1>1, <1>4, <1>5, <1>6

\* A step that moves n tokens of x from the bucket to a goroutine.
LEMMA LendStep ==
  ASSUME NEW x \in Buckets, NEW n \in Nat,
         \A b \in Buckets : Free(b) \in Nat /\ Held(b) \in Nat,
         n * Period <= Free(x),
         \A b \in Buckets : Free(b)' = IF b = x THEN Free(b) - n * Period ELSE Free(b),
         \A b \in Buckets : Held(b)' = IF b = x THEN Held(b) + n ELSE Held(b),
         UNCHANGED <<hasGlobal, window>>
  PROVE  Simulated
<1> DEFINE f == [b \in Buckets |-> Refilled(bucket[b], now)]
           g == [b \in Buckets |-> Held(b)]
<1>1. f' = [f EXCEPT ![x] = f[x] - n * Period] /\ g' = [g EXCEPT ![x] = g[x] + n]
  BY Zenon DEF Free
<1>2. f[x] = Free(x) /\ f \in [Buckets -> Nat] /\ g \in [Buckets -> Nat]
  BY Zenon DEF Free
<1>3. CASE n = 0
  <2>1. n * Period = 0
    BY <1>3, PeriodPositive
  <2>2. f' = f /\ g' = g
    <3>1. \A b \in Buckets : Free(b)' = Free(b) /\ Held(b)' = Held(b)
      BY <1>3, <2>1
    <3>2. QED
      BY <3>1, Zenon DEF Free
  <2>3. QED
    BY <2>2, Zenon DEF Simulated, Accounts!bvars
<1>4. CASE n > 0
  <2>1. n \in 1 .. f[x] \div Period
    BY <1>2, <1>4, Affordable, Zenon
  <2>2. Accounts!Lend(x, n)
    BY <1>1, Zenon DEF Accounts!Lend
  <2>3. x \in Accounts!Budgets
    BY Zenon DEF Accounts!Budgets, Buckets
  <2>4. Accounts!BNext
    BY <2>1, <2>2, <2>3, Zenon DEF Accounts!BNext
  <2>5. QED
    BY <2>4, Zenon DEF Simulated
<1>5. QED
  BY <1>3, <1>4

\* A refund by goroutine p of n tokens to bucket x.
LEMMA ReturnStep ==
  ASSUME IInv, Configured, NEW p \in Procs, NEW l \in Labels, NEW c, Goto(p, l, c),
         CallOK(l, IF l = "idle" THEN NoCall ELSE c),
         UNCHANGED <<hasGlobal, now, window>>, NEW x \in Buckets, NEW n \in Nat,
         bucket' = [bucket EXCEPT ![x] = Refund(bucket[x], n)],
         \A b \in Buckets : Hold(l, c, b) =
           Hold(pc[p], call[p], b) - (IF b = x THEN n ELSE 0)
  PROVE  Simulated
<1> DEFINE f == [b \in Buckets |-> Refilled(bucket[b], now)]
           g == [b \in Buckets |-> Held(b)]
<1>1. \A b \in Buckets : /\ Held(b) \in Nat /\ Held(b)' \in Nat
                         /\ Hold(pc[p], call[p], b) \in Nat /\ Hold(l, c, b) \in Nat
                         /\ Held(b)' = Held(b) - Hold(pc[p], call[p], b) + Hold(l, c, b)
  BY GotoStep, Zenon
<1>2. \A b \in Buckets : Held(b)' = IF b = x THEN Held(b) - n ELSE Held(b)
  BY <1>1
<1>3. /\ now \in Nat /\ Sane(bucket[x], now)
      /\ bucket[x].unit = Period /\ bucket[x].maxTokens = Limit[x] * Period
  BY DEF IInv, TypeOK, Configured
<1>4. Refilled(Refund(bucket[x], n), now)
        = AtMost(Refilled(bucket[x], now) + n * Period, Limit[x] * Period)
  BY <1>3, RefundEffect, Zenon
<1>5. \A b \in Buckets : Refilled(bucket'[b], now') =
        IF b = x THEN AtMost(f[x] + n * Period, Limit[x] * Period) ELSE f[b]
  BY <1>4, Zenon DEF IInv, TypeOK
<1>6. /\ f' = [f EXCEPT ![x] = AtMost(f[x] + n * Period, Limit[x] * Period)]
      /\ g' = [g EXCEPT ![x] = g[x] - n]
  BY <1>2, <1>5, Zenon
<1>7. CASE n = 0
  <2>1. Refund(bucket[x], n) = bucket[x]
    BY <1>7 DEF Refund
  <2>2. bucket' = bucket
    BY <2>1, Zenon DEF IInv, TypeOK
  <2>3. f' = f
    BY <2>2, Zenon
  <2>4. g' = g
    BY <1>1, <1>2, <1>7
  <2>5. QED
    BY <2>3, <2>4, Zenon DEF Simulated, Accounts!bvars
<1>8. CASE n > 0
  <2>1. n \in 1 .. g[x]
    BY <1>1, <1>2, <1>8
  <2>2. Accounts!Return(x, n)
    BY <1>6, Zenon DEF Accounts!Return, Accounts!AtMost, AtMost, Accounts!Capacity
  <2>3. x \in Accounts!Budgets
    BY Zenon DEF Accounts!Budgets, Buckets
  <2>4. Accounts!BNext
    BY <2>1, <2>2, <2>3, Zenon DEF Accounts!BNext
  <2>5. QED
    BY <2>4, Zenon DEF Simulated
<1>9. QED
  BY <1>7, <1>8

\* RateLimiter implements Budget, for every number of goroutines and keys, all
\* limits and every interleaving: the takes and refunds of ratelimiter.go are
\* loans, admissions paid by both budgets, and returns.
THEOREM Implementation == Spec => ImplementsBudget
<1>1. Init => Accounts!BInit /\ Configured
  <2> SUFFICES ASSUME Init PROVE Accounts!BInit /\ Configured
    BY Zenon
  <2>1. \A b \in Buckets : Limit[b] \in Nat /\ Limit[b] * Period \in Nat
    BY LimitType, PeriodPositive, ProductNat, Zenon
  <2>2. \A b \in Buckets : Free(b) = Limit[b] * Period
    BY <2>1 DEF Init, Free, Refilled, AtMost, NewTokenBucket
  <2>3. \A b \in Buckets : Held(b) = 0
    <3> TAKE b \in Buckets
    <3>1. [p \in Procs |-> Hold(pc[p], call[p], b)] = [p \in Procs |-> 0]
      BY HoldIdle, Zenon DEF Init
    <3>2. QED
      BY <3>1, TotalZero, Zenon DEF Held
  <2>4. Configured
    BY Zenon DEF Init, Configured, NewTokenBucket
  <2>5. Buckets = Accounts!Budgets
    BY Zenon DEF Buckets, Accounts!Budgets
  <2>6. /\ [b \in Buckets |-> Refilled(bucket[b], now)]
             = [b \in Accounts!Budgets |-> Accounts!Capacity(b)]
        /\ [b \in Buckets |-> Held(b)] = [b \in Accounts!Budgets |-> 0]
    BY <2>2, <2>3, <2>5, Zenon DEF Free, Accounts!Capacity
  <2>7. QED
    BY <2>4, <2>5, <2>6, Zenon DEF Init, Accounts!BInit
<1>2. ASSUME IInv, Configured, [Next]_vars
      PROVE  Configured'
  <2>1. ASSUME NEW x \in Buckets, NEW tb, bucket' = [bucket EXCEPT ![x] = tb],
               SameConfig(tb, bucket[x])
        PROVE  Configured'
    BY <1>2, <2>1, Zenon DEF IInv, TypeOK, Configured, SameConfig
  <2>2. ASSUME NEW x \in Buckets, NEW n \in Nat
        PROVE  /\ SameConfig(AllowUpToN(bucket[x], n, now), bucket[x])
               /\ SameConfig(Refund(bucket[x], n), bucket[x])
    <3>1. now \in Nat /\ Sane(bucket[x], now)
      BY <1>2 DEF IInv, TypeOK
    <3>2. QED
      BY <3>1, AllowUpToNEffect, RefundEffect, Zenon
  <2>3. ASSUME NEW p \in Procs, Step(p)
        PROVE  Configured'
    <3>1. /\ pc[p] # "idle" => call[p] \in Calls /\ call[p].keyGranted <= call[p].globalGranted
          /\ globalKey \in Buckets
      BY <1>2, Zenon DEF IInv, CallOK, Buckets
    <3>2. CASE TakeGlobal(p)
      BY <2>1, <2>2, <3>1, <3>2, Zenon DEF TakeGlobal, Calls
    <3>3. CASE TakeKey(p)
      BY <2>1, <2>2, <3>1, <3>3, Zenon DEF TakeKey, Calls, Buckets
    <3>4. CASE RefundSurplus(p)
      <4>1. call[p].globalGranted - call[p].keyGranted \in Nat
        BY <3>1, <3>4 DEF RefundSurplus, Calls
      <4>2. QED
        BY <2>1, <2>2, <3>1, <3>4, <4>1, Zenon DEF RefundSurplus
    <3>5. CASE UndoKey(p)
      BY <2>1, <2>2, <3>1, <3>5, Zenon DEF UndoKey, Calls, Buckets
    <3>6. CASE UndoGlobal(p)
      BY <2>1, <2>2, <3>1, <3>6, Zenon DEF UndoGlobal, Calls
    <3>7. QED
      BY <2>3, <3>2, <3>3, <3>4, <3>5, <3>6, Zenon DEF Step
  <2>4. ASSUME bucket' = bucket
        PROVE  Configured'
    BY <1>2, <2>4, Zenon DEF Configured
  <2>5. QED
    BY <1>2, <2>3, <2>4, Zenon DEF Next, Begin, Tick, OpenWindow, vars
<1>3. ASSUME IInv, Configured, [Next]_vars
      PROVE  Simulated
  <2>1. /\ \A b \in Buckets : /\ Sane(bucket[b], now) /\ Free(b) \in Nat
                              /\ bucket[b].unit = Period /\ bucket[b].refillRate = Limit[b]
                              /\ bucket[b].maxTokens = Limit[b] * Period
        /\ now \in Nat
    BY <1>3, RefilledBounds DEF IInv, TypeOK, Configured, Free
  <2>2. ASSUME NEW p \in Procs, NEW k \in Keys, NEW n \in Requests, NEW w \in BOOLEAN,
               Begin(p, k, n, w)
        PROVE  Simulated
    <3> DEFINE l == FirstLabel(hasGlobal)
               c == NewCall(k, n, w)
    <3>1. /\ Goto(p, l, c) /\ pc[p] = "idle" /\ l \in Labels /\ l # "idle"
          /\ UNCHANGED <<hasGlobal, now, bucket, window>>
      BY <2>2, Zenon DEF Begin, FirstLabel, Labels
    <3>2. CallOK(l, c)
      BY <1>3, RequestsPositive DEF CallOK, FirstLabel, NewCall, Calls, IInv, TypeOK
    <3>3. \A b \in Buckets : Hold(pc[p], call[p], b) = 0 /\ Hold(l, c, b) = 0
      BY <1>3, <3>1, HoldIdle, Zenon DEF Hold, FirstLabel, NewCall, IInv, TypeOK
    <3> HIDE DEF l, c
    <3>4. \A b \in Buckets : Held(b)' = Held(b)
      BY <1>3, <3>1, <3>2, <3>3, GotoStep
    <3>5. QED
      BY <3>1, <3>4, Zenon DEF Simulated, Accounts!bvars
  <2>3. ASSUME NEW p \in Procs, TakeGlobal(p)
        PROVE  Simulated
    <3> DEFINE c == call[p]
               x == globalKey
               granted == Granted(bucket[x], c.n, now)
               tb == AllowUpToN(bucket[x], c.n, now)
               l == IF granted = 0 THEN "idle" ELSE "key"
               d == [c EXCEPT !.globalGranted = granted]
    <3>1. /\ pc[p] = "global" /\ bucket' = [bucket EXCEPT ![x] = tb]
          /\ Goto(p, l, d) /\ UNCHANGED <<hasGlobal, now, window>> /\ l \in Labels
          /\ x \in Buckets
      BY <1>3, <2>3, Zenon DEF TakeGlobal, IInv, TypeOK, Labels, Buckets
    <3>2. c \in Calls /\ c.n > 0 /\ c.n \in Nat /\ hasGlobal /\ c.keyGranted = 0
      BY <1>3, <3>1, Zenon DEF IInv, CallOK, Calls
    <3>3. /\ granted \in Nat /\ granted <= c.n /\ granted * Period <= Free(x)
          /\ Refilled(tb, now) = Free(x) - granted * Period
      <4>1. Sane(bucket[x], now) /\ now \in Nat /\ bucket[x].unit = Period
        BY <2>1, <3>1, Zenon
      <4>2. /\ granted \in Nat /\ granted <= c.n
            /\ granted * bucket[x].unit <= Refilled(bucket[x], now)
        BY <3>2, <4>1, GrantedBounds, Zenon
      <4>3. Refilled(tb, now) = Refilled(bucket[x], now) - granted * bucket[x].unit
        BY <3>2, <4>1, AllowUpToNEffect, Zenon
      <4>4. QED
        BY <4>1, <4>2, <4>3, Zenon DEF Free
    <3> HIDE DEF granted, tb, c, x
    <3>4. d \in Calls /\ d.n = c.n /\ d.globalGranted = granted /\ d.keyGranted = 0
      BY <3>2, <3>3, Zenon DEF Calls
    <3> HIDE DEF d
    <3>5. CallOK(l, IF l = "idle" THEN NoCall ELSE d)
      BY <3>2, <3>3, <3>4 DEF CallOK
    <3>6. \A b \in Buckets : /\ Hold(pc[p], call[p], b) = 0
                             /\ Hold(l, d, b) = IF b = x THEN granted ELSE 0
      BY <3>1, <3>2, <3>3, <3>4, HoldIdle, Zenon DEF Hold, x
    <3> HIDE DEF l
    <3>7. \A b \in Buckets : /\ Held(b) \in Nat
                             /\ Held(b)' = IF b = x THEN Held(b) + granted ELSE Held(b)
      BY <1>3, <3>1, <3>3, <3>5, <3>6, GotoStep
    <3>8. \A b \in Buckets :
            Free(b)' = IF b = x THEN Free(b) - granted * Period ELSE Free(b)
      BY <1>3, <3>1, <3>3, Zenon DEF Free, IInv, TypeOK
    <3>9. QED
      BY <2>1, <3>1, <3>3, <3>7, <3>8, LendStep, Zenon
  <2>4. ASSUME NEW p \in Procs, TakeKey(p)
        PROVE  Simulated
    <3> DEFINE c == call[p]
               x == c.key
               granted == Granted(bucket[x], c.globalGranted, now)
               tb == AllowUpToN(bucket[x], c.globalGranted, now)
               d == [c EXCEPT !.keyGranted = granted]
               l == AfterKey(hasGlobal, d)
               a == Admitted(d)
    <3>1. /\ pc[p] = "key" /\ bucket' = [bucket EXCEPT ![x] = tb]
          /\ Goto(p, l, d) /\ UNCHANGED <<hasGlobal, now>> /\ Admit(d)
      BY <2>4, Zenon DEF TakeKey
    <3>2. /\ c \in Calls /\ c.n > 0 /\ c.globalGranted <= c.n /\ c.globalGranted \in Nat
          /\ x \in Keys /\ x \in Buckets /\ x # globalKey /\ hasGlobal \in BOOLEAN
      BY <1>3, <3>1, GlobalKeyReserved, Zenon DEF IInv, TypeOK, CallOK, Calls, Buckets
    <3>3. /\ granted \in Nat /\ granted <= c.globalGranted /\ granted * Period <= Free(x)
          /\ Refilled(tb, now) = Free(x) - granted * Period
      <4>1. Sane(bucket[x], now) /\ now \in Nat /\ bucket[x].unit = Period
        BY <2>1, <3>2, Zenon
      <4>2. /\ granted \in Nat /\ granted <= c.globalGranted
            /\ granted * bucket[x].unit <= Refilled(bucket[x], now)
        BY <3>2, <4>1, GrantedBounds, Zenon
      <4>3. Refilled(tb, now) = Refilled(bucket[x], now) - granted * bucket[x].unit
        BY <3>2, <4>1, AllowUpToNEffect, Zenon
      <4>4. QED
        BY <4>1, <4>2, <4>3, Zenon DEF Free
    <3> HIDE DEF granted, tb
    <3>4. /\ d \in Calls /\ d.n = c.n /\ d.globalGranted = c.globalGranted
          /\ d.keyGranted = granted /\ d.whole = c.whole /\ d.key = x
      BY <3>2, <3>3, Zenon DEF Calls
    <3>5. (a = granted /\ Undone(d) = 0) \/ (a = 0 /\ Undone(d) = granted)
      BY <3>3, <3>4 DEF Admitted, Undone
    <3> HIDE DEF d, x, c
    <3>6. l \in Labels /\ CallOK(l, IF l = "idle" THEN NoCall ELSE d)
      BY <3>2, <3>3, <3>4, Zenon DEF CallOK, AfterKey, AfterGrant, Labels, Calls
    <3>7. \A b \in Buckets :
            /\ Hold(pc[p], call[p], b) =
                 IF hasGlobal /\ b = globalKey THEN c.globalGranted ELSE 0
            /\ Hold(l, d, b) =
                 IF b = x THEN Undone(d)
                 ELSE IF hasGlobal /\ b = globalKey
                      THEN c.globalGranted - granted + Undone(d) ELSE 0
      <4>1. \A b \in Buckets : Hold(pc[p], call[p], b) =
                 IF hasGlobal /\ b = globalKey THEN c.globalGranted ELSE 0
        BY <3>1, Zenon DEF Hold, c
      <4>2. CASE l = "surplus"
        BY <3>2, <3>4, <4>1, <4>2, Zenon DEF Hold, AfterKey, AfterGrant
      <4>3. CASE l = "undoKey"
        <5>1. Undone(d) = granted /\ (hasGlobal => granted = c.globalGranted)
          BY <3>2, <3>3, <3>4, <4>3 DEF Undone, AfterKey, AfterGrant, Calls
        <5>2. QED
          BY <3>2, <3>3, <3>4, <4>1, <4>3, <5>1 DEF Hold, Calls
      <4>4. CASE l = "idle"
        <5>1. Undone(d) = 0 /\ (hasGlobal => granted = c.globalGranted)
          BY <3>2, <3>3, <3>4, <4>4 DEF Undone, AfterKey, AfterGrant, Calls
        <5>2. QED
          BY <3>2, <3>3, <3>4, <4>1, <4>4, <5>1, HoldIdle DEF Calls
      <4>5. QED
        BY <4>2, <4>3, <4>4, Zenon DEF AfterKey, AfterGrant
    <3> HIDE DEF l
    <3>8. \A b \in Buckets :
            /\ Held(b) \in Nat /\ Held(b)' \in Nat
            /\ Held(b)' = IF b = x THEN Held(b) + Undone(d)
                          ELSE IF hasGlobal /\ b = globalKey THEN Held(b) - a
                          ELSE Held(b)
      <4>1. \A b \in Buckets :
              /\ Held(b) \in Nat /\ Held(b)' \in Nat
              /\ Held(b)' = Held(b) - Hold(pc[p], call[p], b) + Hold(l, d, b)
        BY <1>3, <3>1, <3>6, GotoStep, Zenon
      <4>2. QED
        BY <3>2, <3>3, <3>5, <3>7, <4>1
    <3>9. \A b \in Buckets :
            Free(b)' = IF b = x THEN Free(b) - granted * Period ELSE Free(b)
      BY <1>3, <3>1, <3>2, <3>3, Zenon DEF Free, IInv, TypeOK
    <3> DEFINE m == [b \in Buckets |->
                       IF window.opened /\ (b = x \/ (hasGlobal /\ b = globalKey))
                       THEN window.admitted[b] + a ELSE window.admitted[b]]
    <3>10. window' = [window EXCEPT !.admitted = m]
      BY <3>1, <3>4, Zenon DEF Admit
    <3> HIDE DEF m
    <3>11. CASE a = granted /\ Undone(d) = 0 /\ granted > 0
      <4> DEFINE f == [b \in Buckets |-> Refilled(bucket[b], now)]
                 g == [b \in Buckets |-> Held(b)]
      <4>1. /\ f' = [f EXCEPT ![x] = f[x] - a * Period]
            /\ f[x] = Free(x)
        BY <3>2, <3>9, <3>11, Zenon DEF Free
      <4>2. g' = IF hasGlobal THEN [g EXCEPT ![globalKey] = g[globalKey] - a] ELSE g
        <5>1. \A b \in Buckets : Held(b)' = IF hasGlobal /\ b = globalKey
                                            THEN Held(b) - a ELSE Held(b)
          BY <3>2, <3>8, <3>11
        <5>2. QED
          BY <5>1, Zenon
      <4>3. hasGlobal => a <= g[globalKey]
        BY <3>2, <3>3, <3>8, <3>11 DEF Buckets
      <4>4. /\ Buckets = Accounts!Budgets
            /\ \A b \in Buckets : b \in Accounts!Payers(x)
                                    <=> b = x \/ (hasGlobal /\ b = globalKey)
        BY Zenon DEF Buckets, Accounts!Budgets, Accounts!Payers
      <4>5. m = [b \in Accounts!Budgets |-> window.admitted[b] +
                   IF window.opened /\ b \in Accounts!Payers(x) THEN a ELSE 0]
        BY <1>3, <4>4 DEF IInv, TypeOK, m
      <4>6. window'.opened = window.opened /\ window'.admitted = m
        BY <1>3, <3>10, Zenon DEF IInv, TypeOK
      <4>7. Accounts!Admit(x, a)
        BY <3>1, <4>1, <4>2, <4>3, <4>5, <4>6, Zenon DEF Accounts!Admit
      <4>8. a \in 1 .. f[x] \div Period
        BY <2>1, <3>2, <3>3, <3>11, <4>1, Affordable, Zenon
      <4>9. Accounts!BNext
        BY <3>2, <4>7, <4>8, Zenon DEF Accounts!BNext
      <4>10. QED
        BY <4>9, Zenon DEF Simulated
    <3>12. CASE a = 0 /\ Undone(d) = granted
      <4>1. m = window.admitted
        BY <1>3, <3>12 DEF IInv, TypeOK, m
      <4>2. window' = window
        BY <1>3, <3>10, <4>1, Zenon DEF IInv, TypeOK
      <4>3. \A b \in Buckets : Held(b)' = IF b = x THEN Held(b) + granted ELSE Held(b)
        BY <3>8, <3>12
      <4>4. QED
        BY <2>1, <3>1, <3>2, <3>3, <3>8, <3>9, <4>2, <4>3, LendStep, Zenon
    <3>13. QED
      BY <3>3, <3>5, <3>11, <3>12
  <2>5. ASSUME NEW p \in Procs, RefundSurplus(p)
        PROVE  Simulated
    <3> DEFINE c == call[p]
               l == AfterGrant(c)
               n == c.globalGranted - c.keyGranted
    <3>1. /\ pc[p] = "surplus" /\ Goto(p, l, c)
          /\ bucket' = [bucket EXCEPT ![globalKey] = Refund(bucket[globalKey], n)]
          /\ UNCHANGED <<hasGlobal, now, window>>
      BY <1>3, <2>5, Zenon DEF RefundSurplus, IInv, TypeOK, Buckets
    <3>2. /\ c \in Calls /\ c.n > 0 /\ hasGlobal
          /\ c.globalGranted <= c.n /\ c.keyGranted < c.globalGranted
      BY <1>3, <3>1, Zenon DEF IInv, CallOK
    <3>3. /\ n \in Nat /\ globalKey \in Buckets /\ l \in Labels
          /\ CallOK(l, IF l = "idle" THEN NoCall ELSE c)
          /\ c.key # globalKey
      <4>1. n \in Nat /\ globalKey \in Buckets /\ c.key # globalKey
        BY <3>2, GlobalKeyReserved DEF Calls, Buckets
      <4>2. CASE c.whole /\ 0 < c.keyGranted /\ c.keyGranted < c.n
        <5>1. l = "undoKey"
          BY <4>2, Zenon DEF AfterGrant
        <5>2. CallOK("undoKey", c)
          BY <3>2, <4>2 DEF CallOK, Calls
        <5>3. QED
          BY <4>1, <5>1, <5>2, Zenon DEF Labels
      <4>3. CASE ~(c.whole /\ 0 < c.keyGranted /\ c.keyGranted < c.n)
        <5>1. l = "idle"
          BY <4>3, Zenon DEF AfterGrant
        <5>2. CallOK("idle", NoCall)
          BY Zenon DEF CallOK
        <5>3. QED
          BY <4>1, <5>1, <5>2, Zenon DEF Labels
      <4>4. QED
        BY <4>2, <4>3, Zenon
    <3>4. \A b \in Buckets : Hold(l, c, b) =
            Hold(pc[p], call[p], b) - (IF b = globalKey THEN n ELSE 0)
      <4>1. CASE l = "undoKey"
        <5>1. Undone(c) = c.keyGranted
          BY <4>1, Zenon DEF Undone, AfterGrant
        <5>2. QED
          BY <3>1, <3>2, <3>3, <4>1, <5>1 DEF Hold, Calls
      <4>2. CASE l = "idle"
        <5>1. Undone(c) = 0
          BY <3>2, <4>2 DEF Undone, AfterGrant, Calls
        <5>2. QED
          BY <3>1, <3>2, <3>3, <4>2, <5>1, HoldIdle DEF Hold, Calls
      <4>3. QED
        BY <4>1, <4>2, Zenon DEF AfterGrant
    <3> HIDE DEF c, l, n
    <3>5. QED
      BY <1>3, <3>1, <3>3, <3>4, ReturnStep, Zenon
  <2>6. ASSUME NEW p \in Procs, UndoKey(p)
        PROVE  Simulated
    <3> DEFINE c == call[p]
               l == IF hasGlobal THEN "undoGlobal" ELSE "idle"
               x == c.key
               n == c.keyGranted
    <3>1. /\ pc[p] = "undoKey" /\ Goto(p, l, c)
          /\ bucket' = [bucket EXCEPT ![x] = Refund(bucket[x], n)]
          /\ UNCHANGED <<hasGlobal, now, window>>
      BY <2>6, Zenon DEF UndoKey, AfterUndoKey
    <3>2. /\ c \in Calls /\ c.n > 0 /\ c.whole /\ c.keyGranted < c.n
          /\ c.globalGranted <= c.n /\ c.keyGranted <= c.globalGranted
      BY <1>3, <3>1, Zenon DEF IInv, CallOK
    <3>3. /\ n \in Nat /\ x \in Buckets /\ l \in Labels
          /\ CallOK(l, IF l = "idle" THEN NoCall ELSE c)
          /\ c.key # globalKey /\ Undone(c) = c.keyGranted
      BY <1>3, <3>2, GlobalKeyReserved, Zenon
         DEF Calls, Buckets, Labels, CallOK, Undone, IInv, TypeOK
    <3>4. \A b \in Buckets : Hold(l, c, b) =
            Hold(pc[p], call[p], b) - (IF b = x THEN n ELSE 0)
      BY <3>1, <3>3 DEF Hold
    <3> HIDE DEF c, l, x, n
    <3>5. QED
      BY <1>3, <3>1, <3>3, <3>4, ReturnStep, Zenon
  <2>7. ASSUME NEW p \in Procs, UndoGlobal(p)
        PROVE  Simulated
    <3> DEFINE c == call[p]
    <3>1. /\ pc[p] = "undoGlobal" /\ Goto(p, "idle", NoCall)
          /\ bucket' = [bucket EXCEPT ![globalKey] = Refund(bucket[globalKey], c.keyGranted)]
          /\ UNCHANGED <<hasGlobal, now, window>>
      BY <2>7, Zenon DEF UndoGlobal
    <3>2. c \in Calls /\ hasGlobal
      BY <1>3, <3>1, Zenon DEF IInv, CallOK
    <3>3. /\ c.keyGranted \in Nat /\ globalKey \in Buckets /\ "idle" \in Labels
          /\ CallOK("idle", NoCall) /\ c.key # globalKey
      BY <3>2, GlobalKeyReserved, Zenon DEF Calls, Buckets, Labels, CallOK
    <3>4. \A b \in Buckets : Hold("idle", NoCall, b) =
            Hold(pc[p], call[p], b) - (IF b = globalKey THEN c.keyGranted ELSE 0)
      BY <3>1, <3>2, <3>3, HoldIdle DEF Hold
    <3> HIDE DEF c
    <3>5. QED
      BY <1>3, <3>1, <3>3, <3>4, ReturnStep, Zenon
  <2>8. CASE Tick
    <3>1. now' = now + 1 /\ UNCHANGED <<hasGlobal, bucket, pc, call, window>>
      BY <2>8, Zenon DEF Tick
    <3>2. \A b \in Buckets : Held(b)' = Held(b)
      BY <3>1 DEF Held, Hold
    <3>3. \A b \in Buckets : Free(b)' = AtMost(Free(b) + Limit[b], Limit[b] * Period)
      <4> TAKE b \in Buckets
      <4> DEFINE tb == bucket[b]
                 gain == (now - tb.lastRefillTime) * tb.refillRate
      <4>1. /\ tb.lastRefillTime \in Nat /\ tb.refillRate \in Nat /\ tb.tokens \in Nat
            /\ tb.maxTokens \in Nat /\ now - tb.lastRefillTime \in Nat
            /\ tb.refillRate = Limit[b] /\ tb.maxTokens = Limit[b] * Period
        BY <2>1 DEF Sane, TokenBuckets
      <4>2. gain \in Nat
        BY <4>1, ProductNat, Zenon
      <4>3. ((now + 1) - tb.lastRefillTime) * tb.refillRate = gain + tb.refillRate
        <5> DEFINE e == now - tb.lastRefillTime
                   r == tb.refillRate
        <5>1. e \in Nat /\ r \in Nat /\ (now + 1) - tb.lastRefillTime = e + 1
          BY <2>1, <4>1
        <5> HIDE DEF e, r
        <5>2. (e + 1) * r = e * r + r
          BY <5>1
        <5>3. QED
          BY <5>1, <5>2, Zenon DEF e, r
      <4>4. /\ Refilled(tb, now + 1)
                  = AtMost(tb.tokens + ((now + 1) - tb.lastRefillTime) * tb.refillRate,
                           tb.maxTokens)
            /\ Refilled(bucket[b], now)' = Refilled(tb, now + 1)
        BY <3>1, Zenon DEF Refilled
      <4>5. Free(b) = AtMost(tb.tokens + gain, tb.maxTokens)
        BY Zenon DEF Free, Refilled
      <4> HIDE DEF gain, tb
      <4>6. Refilled(tb, now + 1) = AtMost(Free(b) + tb.refillRate, tb.maxTokens)
        BY <4>1, <4>2, <4>3, <4>4, <4>5 DEF AtMost
      <4>7. QED
        BY <4>1, <4>4, <4>6, Zenon DEF Free
    <3>4. Buckets = Accounts!Budgets
      BY Zenon DEF Buckets, Accounts!Budgets
    <3>5. Accounts!Refill
      BY <3>1, <3>2, <3>3, <3>4, Zenon
         DEF Accounts!Refill, Accounts!AtMost, AtMost, Accounts!Capacity, Free
    <3>6. QED
      BY <3>5, Zenon DEF Accounts!BNext, Simulated
  <2>9. CASE OpenWindow
    <3>1. /\ UNCHANGED <<hasGlobal, now, bucket, pc, call>> /\ ~window.opened
          /\ window'.opened = TRUE /\ window'.admitted = [b \in Buckets |-> 0]
      BY <2>9, Zenon DEF OpenWindow
    <3>2. window.admitted = [b \in Buckets |-> 0]
      BY <1>3, <3>1, Zenon DEF IInv, TypeOK, WindowOK
    <3>3. Accounts!Watch
      BY <3>1, <3>2 DEF Accounts!Watch, Held, Hold, Refilled
    <3>4. QED
      BY <3>3, Zenon DEF Accounts!BNext, Simulated
  <2>10. CASE UNCHANGED vars
    BY <2>10 DEF Simulated, Accounts!bvars, vars, Held, Hold, Refilled
  <2>11. QED
    BY <1>3, <2>2, <2>3, <2>4, <2>5, <2>6, <2>7, <2>8, <2>9, <2>10, Zenon DEF Next, Step
<1>4. QED
  BY <1>1, <1>2, <1>3, Invariance, PTL
     DEF Spec, ImplementsBudget, Simulated, Accounts!BSpec

----------------------------------------------------------------------------
\* The Storage calls of AllowUpToNCtx and AllowNCtx in the order of the code.
Place(label) ==
  CASE label = "global" -> 1 [] label = "key" -> 2 [] label = "surplus" -> 3
    [] label = "undoKey" -> 4 [] label = "undoGlobal" -> 5 [] OTHER -> 6

\* A batch is never retried or sent back inside the limiter: every Storage call
\* takes it to a later one, or to its end, and nothing else moves it; so it
\* ends after at most five, whatever the other goroutines do.
CallsAdvance ==
  [][\A p \in Procs : /\ Step(p) => Place(pc'[p]) > Place(pc[p])
                      /\ pc'[p] # pc[p] => pc[p] = "idle" \/ Step(p)]_vars

LEMMA GotoLater ==
  ASSUME IInv, NEW p \in Procs, NEW label, NEW c, Goto(p, label, c),
         NEW l, pc[p] = l, Place(label) > Place(l)
  PROVE  Place(pc'[p]) > Place(pc[p])
<1>1. pc'[p] = label
  BY Zenon DEF Goto, IInv, TypeOK
<1>2. QED
  BY <1>1, Zenon

LEMMA StepLater ==
  ASSUME IInv, NEW p \in Procs, Step(p)
  PROVE  Place(pc'[p]) > Place(pc[p])
<1>1. /\ Place("global") = 1 /\ Place("key") = 2 /\ Place("surplus") = 3
      /\ Place("undoKey") = 4 /\ Place("undoGlobal") = 5 /\ Place("idle") = 6
  BY Zenon DEF Place
<1>2. CASE TakeGlobal(p)
  <2>1. PICK label \in {"idle", "key"} : \E c : Goto(p, label, c)
    BY <1>2, Zenon DEF TakeGlobal
  <2>2. Place(label) > Place("global")
    BY <1>1
  <2>3. QED
    BY <1>2, <2>1, <2>2, GotoLater, Zenon DEF TakeGlobal
<1>3. CASE TakeKey(p)
  <2>1. PICK label \in {"idle", "surplus", "undoKey"} : \E c : Goto(p, label, c)
    BY <1>3, Zenon DEF TakeKey, AfterKey, AfterGrant
  <2>2. Place(label) > Place("key")
    BY <1>1
  <2>3. QED
    BY <1>3, <2>1, <2>2, GotoLater, Zenon DEF TakeKey
<1>4. CASE RefundSurplus(p)
  <2>1. PICK label \in {"idle", "undoKey"} : \E c : Goto(p, label, c)
    BY <1>4, Zenon DEF RefundSurplus, AfterGrant
  <2>2. Place(label) > Place("surplus")
    BY <1>1
  <2>3. QED
    BY <1>4, <2>1, <2>2, GotoLater, Zenon DEF RefundSurplus
<1>5. CASE UndoKey(p)
  <2>1. PICK label \in {"idle", "undoGlobal"} : \E c : Goto(p, label, c)
    BY <1>5, Zenon DEF UndoKey, AfterUndoKey
  <2>2. Place(label) > Place("undoKey")
    BY <1>1
  <2>3. QED
    BY <1>5, <2>1, <2>2, GotoLater, Zenon DEF UndoKey
<1>6. CASE UndoGlobal(p)
  <2>1. Place("idle") > Place("undoGlobal")
    BY <1>1
  <2>2. QED
    BY <1>6, <2>1, GotoLater, Zenon DEF UndoGlobal
<1>7. QED
  BY <1>2, <1>3, <1>4, <1>5, <1>6, Zenon DEF Step

\* Every call of the limiter makes its Storage calls in the order of the code
\* and ends after at most five of them.
THEOREM CallsEnd == Spec => CallsAdvance
<1>1. ASSUME IInv, [Next]_vars, NEW p \in Procs, pc'[p] # pc[p]
      PROVE  pc[p] = "idle" \/ Step(p)
  <2>1. ASSUME NEW q \in Procs, NEW label, NEW c, Goto(q, label, c)
        PROVE  q = p
    BY <1>1, <2>1, Zenon DEF Goto, IInv, TypeOK
  <2>2. CASE \E q \in Procs, k \in Keys, n \in Requests, w \in BOOLEAN : Begin(q, k, n, w)
    BY <2>1, <2>2, Zenon DEF Begin
  <2>3. CASE \E q \in Procs : Step(q)
    <3>1. PICK q \in Procs : Step(q)
      BY <2>3, Zenon
    <3>2. \E label, c : Goto(q, label, c)
      BY <3>1, Zenon
         DEF Step, TakeGlobal, TakeKey, RefundSurplus, UndoKey, UndoGlobal
    <3>3. QED
      BY <2>1, <3>1, <3>2, Zenon
  <2>4. CASE Tick \/ OpenWindow \/ UNCHANGED vars
    BY <1>1, <2>4, Zenon DEF Tick, OpenWindow, vars
  <2>5. QED
    BY <1>1, <2>2, <2>3, <2>4, Zenon DEF Next
<1>2. IInv /\ [Next]_vars =>
        [\A p \in Procs : /\ Step(p) => Place(pc'[p]) > Place(pc[p])
                          /\ pc'[p] # pc[p] => pc[p] = "idle" \/ Step(p)]_vars
  BY <1>1, StepLater, Zenon
<1>3. QED
  BY <1>2, Invariance, PTL DEF Spec, CallsAdvance
=============================================================================
