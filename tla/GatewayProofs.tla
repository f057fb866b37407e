--------------------------- MODULE GatewayProofs ---------------------------
(***************************************************************************)
(* What becomes of a batch, for every batch, rule hash and configuration,  *)
(* and whatever the limiter grants.                                        *)
(***************************************************************************)
EXTENDS Gateway, AccountingProofs

LEMMA Remainder ==
  ASSUME NEW S, IsFiniteSet(S), NEW T \in SUBSET S
  PROVE  /\ IsFiniteSet(T) /\ IsFiniteSet(S \ T)
         /\ Cardinality(S) \in Nat /\ Cardinality(T) \in Nat
         /\ Cardinality(S \ T) = Cardinality(S) - Cardinality(T)
<1>1. S \cap T = T
  BY Zenon
<1>2. IsFiniteSet(T)
  BY FS_Subset, Zenon
<1>3. IsFiniteSet(S \ T) /\ Cardinality(S \ T) = Cardinality(S) - Cardinality(S \cap T)
  BY FS_Difference, Zenon
<1>4. QED
  BY <1>1, <1>2, <1>3, FS_CardinalityType, Zenon

\* Counters are natural numbers.
LEMMA SumNat ==
  /\ \A a, b \in Nat : a + b \in Nat
  /\ \A a, b, c \in Nat : a + b + c \in Nat /\ (c <= b => a + b - c \in Nat)
OBVIOUS

LEMMA DisjointUnion ==
  ASSUME NEW S, IsFiniteSet(S), NEW T, IsFiniteSet(T), S \cap T = {}
  PROVE  /\ IsFiniteSet(S \cup T)
         /\ Cardinality(S \cup T) = Cardinality(S) + Cardinality(T)
<1>1. /\ IsFiniteSet(S \cup T)
      /\ Cardinality(S \cup T) = Cardinality(S) + Cardinality(T) - Cardinality(S \cap T)
  BY FS_Union, Zenon
<1>2. Cardinality(S \cap T) = 0 /\ Cardinality(S) \in Nat /\ Cardinality(T) \in Nat
  BY FS_EmptySet, FS_CardinalityType, Zenon
<1>3. QED
  BY <1>1, <1>2

----------------------------------------------------------------------------
\* The rules that buildRuleSet loads before max_rules ends its loop are the ones
\* that are in effect.
LEMMA LoadedInEffect ==
  ASSUME NEW d, HashOK(d)
  PROVE  Rules(d) \cap Reached(d) = {i \in DOMAIN d : InEffect(d, i)}
<1> DEFINE Before(i) == {j \in Rules(d) : j < i}
           UpTo(i) == {j \in Rules(d) : j <= i}
<1>1. IsFiniteSet(Rules(d)) /\ Rules(d) \subseteq DOMAIN d /\ Rules(d) \subseteq Nat
  BY FS_Subset, Zenon DEF HashOK, Rules
<1>2. ASSUME NEW i \in Rules(d)
      PROVE  Cardinality(Before(i)) \in Nat /\ Cardinality(UpTo(i)) = Cardinality(Before(i)) + 1
  <2>1. UpTo(i) = Before(i) \cup {i} /\ i \notin Before(i)
    BY <1>1
  <2>2. IsFiniteSet(Before(i))
    BY <1>1, FS_Subset, Zenon
  <2>3. QED
    BY <2>1, <2>2, FS_AddElement, FS_CardinalityType, Zenon
<1>3. \A i \in Rules(d) : i \in Reached(d) <=> InEffect(d, i)
  BY <1>1, <1>2, GatewayInputs DEF Reached, InEffect
<1>4. QED
  BY <1>1, <1>3, Zenon DEF InEffect

\* Every claim of a rule set on an item is the claim of a document in effect,
\* with bodies shown or not.
LEMMA Claims ==
  ASSUME NEW d, HashOK(d), NEW v, NEW item, item.signal \in Signals,
         item.signal # "logs" => \A f \in DOMAIN item.fields : f[1] # "body",
         NEW i \in DOMAIN d, InEffect(d, i)
  PROVE  LET rs == buildRuleSet(d, v)
             r == compile(i, d[i])
         IN  r \in rulesFor(rs, item.signal) /\ matches(r, evalCtx(rs, item), now)
               <=> /\ item.signal \in normalizeSignals(d[i].signals)
                   /\ d[i].expiresAt = Never \/ d[i].expiresAt >= now
                   /\ \A c \in d[i].conditions : eval(c, item.fields)
<1> DEFINE rs == buildRuleSet(d, v)
           r == compile(i, d[i])
           view == evalCtx(rs, item)
<1>1. /\ rs.rules = {compile(j, d[j]) : j \in Rules(d) \cap Reached(d)}
      /\ rs.needsBody = needsBody(rs.rules)
  BY Zenon DEF buildRuleSet
<1>2. r \in rs.rules
  BY <1>1, LoadedInEffect, Zenon
<1>3. /\ r.signals = normalizeSignals(d[i].signals) /\ r.conds = d[i].conditions
      /\ r.expiresAt = d[i].expiresAt
  BY Zenon DEF compile
<1>4. ASSUME item.signal \in r.signals, NEW c \in r.conds
      PROVE  eval(c, view) <=> eval(c, item.fields)
  <2>1. lookup(c)[1] = c.source
    BY Zenon DEF lookup
  <2>2. \A f \in DOMAIN view : f \in DOMAIN item.fields /\ view[f] = item.fields[f]
    BY Zenon DEF evalCtx
  <2>3. lookup(c) \in DOMAIN item.fields => lookup(c) \in DOMAIN view
    <3> SUFFICES ASSUME lookup(c) \in DOMAIN item.fields,
                        lookup(c)[1] = "body", ~rs.needsBody
                 PROVE  FALSE
      BY Zenon DEF evalCtx
    <3>1. item.signal = "logs"
      BY Zenon
    <3>2. needsBody(rs.rules)
      BY <1>2, <1>4, <2>1, <3>1, Zenon DEF needsBody, ReadsBody
    <3>3. QED
      BY <1>1, <3>2, Zenon
  <2>4. QED
    BY <2>2, <2>3, Zenon DEF eval
<1>5. matches(r, view, now) /\ item.signal \in r.signals <=>
        /\ item.signal \in r.signals
        /\ d[i].expiresAt = Never \/ d[i].expiresAt >= now
        /\ \A c \in d[i].conditions : eval(c, item.fields)
  <2>1. (r.expiresAt # Never => now <= r.expiresAt)
          <=> (d[i].expiresAt = Never \/ d[i].expiresAt >= now)
    BY <1>3, GatewayInputs, Zenon DEF HashOK, Never
  <2>2. QED
    BY <1>3, <1>4, <2>1, Zenon DEF matches
<1>6. QED
  BY <1>2, <1>3, <1>5, Zenon DEF rulesFor

\* Taking the first rule of the list that claims an item, keep rules first, drops
\* the items that a drop rule in effect claims and no keep rule in effect does.
LEMMA MutedIsDropped ==
  ASSUME NEW d, HashOK(d), NEW v, NEW item, item.signal \in Signals,
         item.signal # "logs" => \A f \in DOMAIN item.fields : f[1] # "body"
  PROVE  shouldDrop(buildRuleSet(d, v), item, now) <=> Muted(d, item, now)
<1> DEFINE rs == buildRuleSet(d, v)
           rule(i) == compile(i, d[i])
           holds(i) == /\ item.signal \in normalizeSignals(d[i].signals)
                       /\ d[i].expiresAt = Never \/ d[i].expiresAt >= now
                       /\ \A c \in d[i].conditions : eval(c, item.fields)
           claimants == {i \in DOMAIN d : InEffect(d, i) /\ holds(i)}
           claims == {r \in rulesFor(rs, item.signal) : matches(r, evalCtx(rs, item), now)}
           first == {r \in claims : \A s \in claims \ {r} : sortKeepFirst(r, s)}
<1>1. /\ Muted(d, item, now) <=> claimants # {} /\ \A i \in claimants : d[i].action # "keep"
      /\ shouldDrop(rs, item, now) <=> \E r \in first : r.action = "drop"
  BY Zenon DEF Muted, shouldDrop, match
<1>2. claims = {rule(i) : i \in claimants}
  <2>1. rs.rules = {rule(j) : j \in {i \in DOMAIN d : InEffect(d, i)}}
    BY LoadedInEffect, Zenon DEF buildRuleSet
  <2>2. \A i \in DOMAIN d : InEffect(d, i) => (rule(i) \in claims <=> holds(i))
    BY Claims, Zenon
  <2>3. \A r \in claims : r \in rs.rules
    BY Zenon DEF rulesFor
  <2> HIDE DEF claims, rule, holds, rs
  <2>4. QED
    BY <2>1, <2>2, <2>3
<1>3. \A i \in claimants : /\ i \in Nat /\ rule(i).id = i
                           /\ d[i].action \in {"", "drop", "keep"}
                           /\ rule(i).action = IF d[i].action = "" THEN "drop" ELSE d[i].action
  BY Zenon DEF InEffect, Rules, IsRule, Compiles, compile, HashOK
<1> HIDE DEF claims, claimants, rule
<1>4. CASE claimants = {}
  BY <1>1, <1>2, <1>4, Zenon
<1>5. CASE \E i \in claimants : d[i].action = "keep"
  <2>1. PICK k \in claimants : d[k].action = "keep"
    BY <1>5, Zenon
  <2>2. \A r \in first : r.action # "drop"
    <3> SUFFICES ASSUME NEW r \in first, r.action = "drop"
                 PROVE  FALSE
      BY Zenon
    <3>1. rule(k) \in claims \ {r} /\ rule(k).action = "keep"
      <4>1. rule(k).action = "keep"
        BY <1>3, <2>1, Zenon
      <4>2. QED
        BY <1>2, <4>1, Zenon
    <3>2. sortKeepFirst(r, rule(k))
      BY <3>1, Zenon
    <3>3. QED
      BY <3>1, <3>2, Zenon DEF sortKeepFirst
  <2>3. QED
    BY <1>1, <2>1, <2>2, Zenon
<1>6. CASE claimants # {} /\ \A i \in claimants : d[i].action # "keep"
  <2>1. claimants \in SUBSET Nat
    BY <1>3, Zenon
  <2>2. PICK k \in claimants : \A i \in claimants : k <= i
    BY <1>6, <2>1, LeastNumber, Zenon
  <2>3. ASSUME NEW i \in claimants
        PROVE  rule(i).action = "drop"
    <3>1. d[i].action = "" \/ d[i].action = "drop"
      BY <1>3, <1>6, Zenon
    <3>2. QED
      BY <1>3, <3>1, Zenon
  <2>4. ASSUME NEW i \in claimants, rule(i) # rule(k)
        PROVE  sortKeepFirst(rule(k), rule(i))
    <3>1. /\ rule(i).action = "drop" /\ rule(k).action = "drop"
          /\ rule(i).id = i /\ rule(k).id = k /\ k \in Nat /\ i \in Nat /\ k <= i /\ k # i
      BY <1>3, <2>2, <2>3, <2>4, Zenon
    <3>2. rule(k).id < rule(i).id
      BY <3>1
    <3>3. QED
      BY <3>1, <3>2, Zenon DEF sortKeepFirst
  <2>5. rule(k) \in first
    BY <1>2, <2>4, Zenon
  <2>6. QED
    BY <1>1, <1>6, <2>3, <2>5, Zenon
<1>7. QED
  BY <1>4, <1>5, <1>6, Zenon

\* Every document that is neither disabled nor in effect is among those that
\* rules_invalid counts.
LEMMA RefusalsCounted ==
  ASSUME NEW d, HashOK(d), NEW v
  PROVE  Cardinality({i \in DOMAIN d : /\ d[i].json => d[i].enabled
                                       /\ ~InEffect(d, i)}) <= buildRuleSet(d, v).invalid
<1> DEFINE D == DOMAIN d
           out == {i \in D : (d[i].json => d[i].enabled) /\ ~InEffect(d, i)}
           reached == Reached(d)
           loaded == Rules(d) \cap reached
           bad == {i \in reached : ~Compiles(d[i])}
<1>1. /\ IsFiniteSet(D) /\ reached \subseteq D /\ loaded \subseteq D
      /\ loaded = {i \in D : InEffect(d, i)}
  BY LoadedInEffect, Zenon DEF HashOK, Reached
<1>2. /\ IsFiniteSet(bad) /\ Cardinality(bad) \in Nat /\ Cardinality(D) \in Nat
      /\ Cardinality(loaded) \in Nat
  BY <1>1, FS_Subset, FS_CardinalityType, Zenon
<1>3. buildRuleSet(d, v).invalid = Cardinality(bad)
        + IF reached = D THEN 0 ELSE Cardinality(D) - Cardinality(loaded)
  BY Zenon DEF buildRuleSet
<1>4. CASE reached = D
  <2>1. ASSUME NEW i \in out
        PROVE  i \in reached /\ ~Compiles(d[i])
    <3>1. i \in reached /\ i \notin Rules(d) /\ i \in D
      BY <1>1, <1>4, <2>1, Zenon
    <3>2. ~Compiles(d[i]) \/ ~d[i].enabled
      BY <3>1, Zenon DEF Rules, IsRule
    <3>3. d[i].json => d[i].enabled
      BY <2>1, Zenon
    <3>4. QED
      BY <3>1, <3>2, <3>3, Zenon DEF Compiles
  <2>2. Cardinality(out) <= Cardinality(bad)
    <3>1. out \subseteq bad
      BY <2>1, Zenon
    <3>2. QED
      BY <1>2, <3>1, FS_Subset, Zenon
  <2>3. QED
    BY <1>2, <1>3, <1>4, <2>2
<1>5. CASE reached # D
  <2>1. out \subseteq D \ loaded
    BY <1>1, Zenon
  <2>2. IsFiniteSet(D \ loaded) /\ Cardinality(D \ loaded) = Cardinality(D) - Cardinality(loaded)
    BY <1>1, Remainder, Zenon
  <2>3. Cardinality(out) <= Cardinality(D \ loaded) /\ Cardinality(out) \in Nat
    BY <2>1, <2>2, FS_Subset, FS_CardinalityType, Zenon
  <2>4. QED
    BY <1>2, <1>3, <1>5, <2>2, <2>3
<1>6. QED
  BY <1>4, <1>5, Zenon

----------------------------------------------------------------------------
\* The d first numbers of a set are d.
LEMMA FirstOnes ==
  ASSUME NEW N \in SUBSET Nat, IsFiniteSet(N), NEW d \in Nat, d <= Cardinality(N)
  PROVE  Cardinality({i \in N : Cardinality({j \in N : j < i}) < d}) = d
<1> DEFINE Below(i) == {j \in N : j < i}
           First(e) == {i \in N : Cardinality(Below(i)) < e}
           S == {e \in Nat : e <= Cardinality(N) => Cardinality(First(e)) = e}
<1>1. \A i \in N : IsFiniteSet(Below(i)) /\ Cardinality(Below(i)) \in Nat
  BY FS_Subset, FS_CardinalityType, Zenon
<1>2. Cardinality(N) \in Nat
  BY FS_CardinalityType, Zenon
<1> HIDE DEF Below
<1>3. 0 \in S
  <2>1. \A i \in N : ~(Cardinality(Below(i)) < 0)
    BY <1>1
  <2>2. First(0) = {}
    BY <2>1, Zenon
  <2>3. QED
    BY <2>2, FS_EmptySet, Zenon
<1>4. ASSUME NEW e \in Nat, e \in S
      PROVE  e + 1 \in S
  <2> SUFFICES ASSUME e + 1 <= Cardinality(N)
               PROVE  Cardinality(First(e + 1)) = e + 1
    OBVIOUS
  <2>1. IsFiniteSet(First(e)) /\ Cardinality(First(e)) = e /\ First(e) \subseteq N
    <3>1. First(e) \in SUBSET N /\ (e <= Cardinality(N) => Cardinality(First(e)) = e)
      BY <1>4, Zenon
    <3> HIDE DEF First
    <3>2. QED
      BY <1>2, <3>1, FS_Subset
  <2>2. N \ First(e) # {}
    <3>1. First(e) # N
      BY <1>2, <2>1
    <3>2. QED
      BY <2>1, <3>1, Zenon
  <2>3. N \ First(e) \in SUBSET Nat
    BY Zenon
  <2>4. PICK m \in N \ First(e) : \A i \in N \ First(e) : m <= i
    BY <2>2, <2>3, LeastNumber, Zenon
  <2>5. ASSUME NEW i \in N, NEW j \in N, j < i
        PROVE  Cardinality(Below(j)) < Cardinality(Below(i))
    <3>1. Below(j) \cup {j} \subseteq Below(i) /\ j \notin Below(j)
      <4>1. \A l \in N : (l < j => l < i) /\ ~(j < j)
        BY <2>5
      <4>2. QED
        BY <2>5, <4>1, Zenon DEF Below
    <3>2. Cardinality(Below(j) \cup {j}) = Cardinality(Below(j)) + 1
      BY <1>1, <3>1, FS_AddElement, Zenon
    <3>3. Cardinality(Below(j) \cup {j}) <= Cardinality(Below(i))
      BY <1>1, <3>1, FS_Subset, Zenon
    <3>4. QED
      BY <1>1, <3>2, <3>3
  <2>6. First(e) = Below(m)
    <3>1. ASSUME NEW i \in First(e)
          PROVE  i < m
      <4>1. m \in N /\ ~(Cardinality(Below(m)) < e)
        BY <2>4, Zenon
      <4>2. i \in N /\ Cardinality(Below(i)) < e
        BY <3>1, Zenon
      <4>3. CASE m < i
        BY <1>1, <2>5, <4>1, <4>2, <4>3
      <4>4. QED
        BY <4>1, <4>2, <4>3
    <3>2. ASSUME NEW i \in N, i < m
          PROVE  i \in First(e)
      BY <2>4, <3>2
    <3>3. QED
      BY <3>1, <3>2, Zenon DEF Below
  <2>7. First(e + 1) = First(e) \cup {m}
    <3>1. Cardinality(Below(m)) = e
      BY <2>1, <2>6, Zenon
    <3>2. \A i \in N : i \in First(e + 1) <=> Cardinality(Below(i)) < e \/ Cardinality(Below(i)) = e
      BY <1>1
    <3>3. \A i \in N : Cardinality(Below(i)) = e <=> i = m
      BY <1>1, <2>4, <2>5, <3>1
    <3>4. QED
      BY <2>4, <3>2, <3>3, Zenon
  <2>8. m \notin First(e)
    BY <2>4, Zenon
  <2> HIDE DEF First
  <2>9. QED
    BY <2>1, <2>7, <2>8, FS_AddElement, Zenon
<1>5. Nat \subseteq S
  <2> HIDE DEF S
  <2>1. QED
    BY <1>3, <1>4, SetInduction, Zenon
<1>6. Cardinality(First(d)) = d
  BY <1>5, Zenon
<1>7. QED
  BY <1>6, Zenon DEF Below

----------------------------------------------------------------------------
\* What the proofs below know of a batch in transit.
InTransit == BatchOK(batch) /\ left \subseteq Positions

LEMMA ItemsFinite ==
  ASSUME InTransit, NEW k
  PROVE  /\ IsFiniteSet(Here(k)) /\ IsFiniteSet(Critical(k)) /\ IsFiniteSet(Normal(k))
         /\ Here(k) \subseteq Positions /\ Critical(k) \subseteq Here(k)
         /\ Normal(k) \subseteq Here(k) /\ Here(k) \in SUBSET Nat
         /\ Cardinality(Critical(k)) \in Nat /\ Cardinality(Normal(k)) \in Nat
         /\ Cardinality(Here(k)) = Cardinality(Critical(k)) + Cardinality(Normal(k))
<1>1. /\ Here(k) \subseteq Positions /\ Critical(k) \in SUBSET Here(k)
      /\ Normal(k) = Here(k) \ Critical(k)
  BY Zenon DEF InTransit, Here, Critical, Normal
<1>2. IsFiniteSet(Positions) /\ Positions \subseteq Nat
  BY FS_Interval DEF InTransit, BatchOK, Positions
<1>3. IsFiniteSet(Here(k))
  BY <1>1, <1>2, FS_Subset, Zenon
<1>4. /\ IsFiniteSet(Critical(k)) /\ IsFiniteSet(Normal(k))
      /\ Cardinality(Here(k)) \in Nat /\ Cardinality(Critical(k)) \in Nat
      /\ Cardinality(Normal(k)) = Cardinality(Here(k)) - Cardinality(Critical(k))
  BY <1>1, <1>3, Remainder, Zenon
<1>5. Cardinality(Normal(k)) \in Nat
  BY <1>4, FS_CardinalityType, Zenon
<1>6. Cardinality(Here(k)) = Cardinality(Critical(k)) + Cardinality(Normal(k))
  BY <1>4, <1>5
<1>7. QED
  BY <1>1, <1>2, <1>3, <1>4, <1>5, <1>6, Zenon

\* The count of planTraceDrops: the function that its loop computes exists.
LEMMA KeptSpans ==
  ASSUME InTransit, NEW k, NEW g \in Nat
  PROVE  LET kept == keptSpans(k, g) IN
         /\ kept \in [0 .. Len(batch.items) -> Nat] /\ kept[0] = 0
         /\ \A i \in Positions : kept[i] = kept[i - 1] +
              IF Opens(k, i) /\ kept[i - 1] + Spans(k, i) <= g THEN Spans(k, i) ELSE 0
<1> DEFINE L == Len(batch.items)
           more(i, x) == x + IF Opens(k, i) /\ x + Spans(k, i) <= g THEN Spans(k, i) ELSE 0
           Good(n, f) == /\ f \in [0 .. n -> Nat] /\ f[0] = 0
                         /\ \A i \in 1 .. n : f[i] = more(i, f[i - 1])
           S == {n \in Nat : \E f : Good(n, f)}
<1>1. L \in Nat
  BY Zenon DEF InTransit, BatchOK
<1>2. \A i \in Nat, x \in Nat : more(i, x) \in Nat
  <2>1. \A i : Spans(k, i) \in Nat
    <3> TAKE i
    <3>1. {j \in Normal(k) : TraceOf(j) = TraceOf(i)} \in SUBSET Normal(k)
      BY Zenon
    <3>2. QED
      BY <3>1, ItemsFinite, FS_Subset, FS_CardinalityType, Zenon DEF Spans
  <2>2. QED
    BY <2>1
<1> HIDE DEF more
<1>3. 0 \in S
  <2>1. Good(0, [i \in 0 .. 0 |-> 0])
    OBVIOUS
  <2>2. QED
    BY <2>1, Zenon
<1>4. ASSUME NEW n \in Nat, n \in S
      PROVE  n + 1 \in S
  <2>1. PICK f : Good(n, f)
    BY <1>4, Zenon
  <2> DEFINE h == [i \in 0 .. n + 1 |-> IF i = n + 1 THEN more(n + 1, f[n]) ELSE f[i]]
  <2>2. h \in [0 .. n + 1 -> Nat] /\ h[0] = 0
    <3>1. n + 1 \in Nat /\ f[n] \in Nat
      BY <2>1
    <3>2. more(n + 1, f[n]) \in Nat
      BY <1>2, <3>1, Zenon
    <3>3. \A i \in 0 .. n + 1 : i # n + 1 => i \in 0 .. n /\ f[i] \in Nat
      BY <2>1
    <3>4. 0 \in 0 .. n + 1 /\ 0 # n + 1 /\ f[0] = 0
      BY <2>1
    <3>5. QED
      BY <3>2, <3>3, <3>4, Zenon
  <2>3. ASSUME NEW i \in 1 .. n + 1
        PROVE  h[i] = more(i, h[i - 1])
    <3>1. i \in 0 .. n + 1 /\ i - 1 \in 0 .. n + 1 /\ i - 1 # n + 1
      OBVIOUS
    <3>2. h[i - 1] = f[i - 1]
      BY <3>1, Zenon
    <3>3. CASE i = n + 1
      BY <3>1, <3>2, <3>3
    <3>4. CASE i # n + 1
      <4>1. i \in 1 .. n /\ h[i] = f[i]
        BY <3>1, <3>4
      <4>2. QED
        BY <2>1, <3>2, <4>1, Zenon
    <3>5. QED
      BY <3>3, <3>4, Zenon
  <2>4. Good(n + 1, h)
    BY <2>2, <2>3, Zenon
  <2> HIDE DEF Good
  <2>5. QED
    BY <2>4
<1>5. Nat \subseteq S
  <2> HIDE DEF S
  <2>1. QED
    BY <1>3, <1>4, SetInduction, Zenon
<1>6. PICK f : Good(L, f)
  BY <1>1, <1>5, Zenon
<1>7. f = [i \in 0 .. L |-> IF i = 0 THEN 0 ELSE more(i, f[i - 1])]
  BY <1>1, <1>6
<1> DEFINE kept == keptSpans(k, g)
<1>8. kept = [i \in 0 .. L |-> IF i = 0 THEN 0 ELSE more(i, kept[i - 1])]
  BY <1>7, Zenon DEF keptSpans, more
<1> HIDE DEF kept
<1>9. Good(L, kept)
  <2>1. kept[0] = 0 /\ \A i \in 1 .. L : kept[i] = more(i, kept[i - 1])
    <3> DEFINE e(i) == IF i = 0 THEN 0 ELSE more(i, kept[i - 1])
    <3>1. kept = [i \in 0 .. L |-> e(i)]
      BY <1>8, Zenon
    <3>2. e(0) = 0 /\ \A i \in 1 .. L : e(i) = more(i, kept[i - 1])
      OBVIOUS
    <3> HIDE DEF e
    <3>3. \A i \in 0 .. L : kept[i] = e(i)
      BY <3>1, Zenon
    <3>4. QED
      BY <1>1, <3>2, <3>3
  <2> DEFINE T == {i \in Nat : i <= L => kept[i] \in Nat}
  <2>2. 0 \in T
    BY <2>1
  <2>3. ASSUME NEW i \in Nat, i \in T
        PROVE  i + 1 \in T
    <3>1. /\ i + 1 \in Nat
          /\ i + 1 <= L => i + 1 \in 1 .. L /\ (i + 1) - 1 = i /\ kept[i] \in Nat
      BY <1>1, <2>3
    <3>2. i + 1 <= L => kept[i + 1] = more(i + 1, kept[i])
      BY <2>1, <3>1, Zenon
    <3>3. i + 1 <= L => more(i + 1, kept[i]) \in Nat
      BY <1>2, <3>1, Zenon
    <3>4. i + 1 <= L => kept[i + 1] \in Nat
      BY <3>2, <3>3, Zenon
    <3>5. QED
      BY <3>4
  <2>4. Nat \subseteq T
    <3> HIDE DEF T
    <3>1. QED
      BY <2>2, <2>3, SetInduction, Zenon
  <2>5. \A i \in 0 .. L : kept[i] \in Nat
    BY <1>1, <2>4
  <2>6. kept \in [0 .. L -> Nat]
    BY <1>8, <2>5, Zenon
  <2>7. QED
    BY <2>1, <2>6, Zenon
<1>10. QED
  BY <1>9, Zenon DEF kept, more, Positions

KeptOnes(k, g) == {i \in Normal(k) : TraceOf(i) \notin planTraceDrops(k, g)}

\* Keeping whole traces while they fit never keeps more spans than were granted.
LEMMA PlanFits ==
  ASSUME InTransit, NEW k, NEW g \in Nat
  PROVE  /\ IsFiniteSet(KeptOnes(k, g)) /\ Cardinality(KeptOnes(k, g)) \in Nat
         /\ Cardinality(KeptOnes(k, g)) <= g
<1> DEFINE L == Len(batch.items)
           kept == keptSpans(k, g)
           Fits(o) == Opens(k, o) /\ kept[o - 1] + Spans(k, o) <= g
           Same(i) == {j \in Normal(k) : TraceOf(j) = TraceOf(i)}
           U(i) == {j \in Normal(k) : \E o \in 1 .. i : Fits(o) /\ TraceOf(o) = TraceOf(j)}
           S == {i \in Nat : i <= L => Cardinality(U(i)) = kept[i] /\ kept[i] <= g}
<1>1. /\ L \in Nat /\ kept \in [0 .. L -> Nat] /\ kept[0] = 0
      /\ \A i \in 1 .. L : kept[i] = kept[i - 1] + IF Fits(i) THEN Spans(k, i) ELSE 0
  <2>1. L \in Nat /\ Positions = 1 .. L
    BY Zenon DEF InTransit, BatchOK, Positions
  <2>2. QED
    BY <2>1, KeptSpans, Zenon
<1>2. \A i : IsFiniteSet(Same(i)) /\ Cardinality(Same(i)) = Spans(k, i) /\ Spans(k, i) \in Nat
  <2> TAKE i
  <2>1. Same(i) \in SUBSET Normal(k) /\ Spans(k, i) = Cardinality(Same(i))
    BY Zenon DEF Spans
  <2> HIDE DEF Same
  <2>2. QED
    BY <2>1, ItemsFinite, FS_Subset, FS_CardinalityType, Zenon
<1>3. Normal(k) \subseteq 1 .. L /\ IsFiniteSet(Normal(k))
  BY ItemsFinite, Zenon DEF Positions
<1>4. \A i : IsFiniteSet(U(i))
  <2> TAKE i
  <2>1. U(i) \in SUBSET Normal(k)
    BY Zenon
  <2> HIDE DEF U
  <2>2. QED
    BY <1>3, <2>1, FS_Subset, Zenon
<1>5. 0 \in S
  <2>1. U(0) = {}
    OBVIOUS
  <2> HIDE DEF U, kept
  <2>2. Cardinality(U(0)) = 0
    BY <2>1, FS_EmptySet, Zenon
  <2>3. Cardinality(U(0)) = kept[0] /\ kept[0] <= g
    BY <1>1, <2>2
  <2>4. QED
    BY <2>3, Zenon
<1>6. ASSUME NEW i \in Nat, i \in S
      PROVE  i + 1 \in S
  <2> SUFFICES ASSUME i + 1 <= L
               PROVE  Cardinality(U(i + 1)) = kept[i + 1] /\ kept[i + 1] <= g
    OBVIOUS
  <2>1. /\ i + 1 \in 1 .. L /\ i \in 0 .. L /\ (i + 1) - 1 = i /\ kept[i] \in Nat
        /\ Cardinality(U(i)) = kept[i] /\ kept[i] <= g
    BY <1>1, <1>6
  <2>2. kept[i + 1] = kept[i] + IF Fits(i + 1) THEN Spans(k, i + 1) ELSE 0
    BY <1>1, <2>1, Zenon
  <2>3. \A o \in 1 .. i + 1 : o \in 1 .. i \/ o = i + 1
    OBVIOUS
  <2>4. CASE ~Fits(i + 1)
    <3>1. U(i + 1) = U(i)
      <4> HIDE DEF Fits
      <4>1. QED
        BY <2>1, <2>3, <2>4
    <3> HIDE DEF U, Fits, kept
    <3>2. QED
      BY <2>1, <2>2, <2>4, <3>1
  <2>5. CASE Fits(i + 1)
    <3>1. U(i + 1) = U(i) \cup Same(i + 1)
      <4>1. i + 1 \in 1 .. i + 1 /\ \A o \in 1 .. i : o \in 1 .. i + 1
        OBVIOUS
      <4> HIDE DEF Fits
      <4>2. QED
        BY <2>3, <2>5, <4>1, Zenon
    <3>2. U(i) \cap Same(i + 1) = {}
      <4> SUFFICES ASSUME NEW j \in Normal(k), NEW o \in 1 .. i, Fits(o),
                          TraceOf(o) = TraceOf(j), TraceOf(j) = TraceOf(i + 1)
                   PROVE  FALSE
        BY Zenon
      <4>1. Opens(k, o) /\ Opens(k, i + 1)
        BY <2>5, Zenon
      <4>2. i + 1 <= o
        BY <4>1, Zenon DEF Opens
      <4>3. QED
        BY <4>2
    <3>3. kept[i] + Spans(k, i + 1) <= g
      BY <2>1, <2>5, Zenon
    <3> HIDE DEF U, Same, Fits
    <3>4. Cardinality(U(i + 1)) = Cardinality(U(i)) + Cardinality(Same(i + 1))
      BY <1>2, <1>4, <3>1, <3>2, DisjointUnion, Zenon
    <3>5. QED
      BY <1>2, <2>1, <2>2, <2>5, <3>3, <3>4, Zenon
  <2>6. QED
    BY <2>4, <2>5, Zenon
<1>7. Nat \subseteq S
  <2> HIDE DEF S
  <2>1. QED
    BY <1>5, <1>6, SetInduction, Zenon
<1>8. Cardinality(U(L)) <= g
  <2> HIDE DEF U, kept
  <2>1. QED
    BY <1>1, <1>7
<1>9. ASSUME NEW i \in KeptOnes(k, g)
      PROVE  i \in U(L)
  <2>1. i \in Normal(k) /\ TraceOf(i) \notin planTraceDrops(k, g) /\ Same(i) # {}
    BY Zenon DEF KeptOnes
  <2>2. Same(i) \in SUBSET Nat
    BY <1>3
  <2>3. PICK o \in Same(i) : \A j \in Same(i) : o <= j
    BY <2>1, <2>2, LeastNumber, Zenon
  <2>4. /\ Opens(k, o) /\ TraceOf(o) = TraceOf(i) /\ o \in Normal(k) /\ o \in 1 .. L
        /\ o - 1 \in 0 .. L
    BY <1>1, <1>3, <2>3 DEF Opens
  <2>5. ~(kept[o - 1] + Spans(k, o) > g)
    BY <2>1, <2>4, Zenon DEF planTraceDrops
  <2>6. kept[o - 1] \in Nat /\ Spans(k, o) \in Nat
    BY <1>1, <1>2, <2>4, Zenon
  <2>7. Fits(o)
    BY <2>4, <2>5, <2>6
  <2>8. QED
    BY <2>1, <2>4, <2>7, Zenon
<1> HIDE DEF U
<1>10. KeptOnes(k, g) \in SUBSET U(L) /\ IsFiniteSet(U(L))
  BY <1>4, <1>9, Zenon
<1>11. /\ IsFiniteSet(KeptOnes(k, g)) /\ Cardinality(KeptOnes(k, g)) <= Cardinality(U(L))
  BY <1>10, FS_Subset, Zenon
<1>12. Cardinality(KeptOnes(k, g)) \in Nat /\ Cardinality(U(L)) \in Nat
  BY <1>10, <1>11, FS_CardinalityType, Zenon
<1>13. QED
  BY <1>8, <1>11, <1>12

\* What the limiter may answer, and what of it is kept.
LEMMA GrantBounds ==
  ASSUME InTransit, NEW k, NEW g \in Answers(Cardinality(Normal(k)))
  PROVE  /\ g \in Nat /\ g <= Cardinality(Normal(k))
         /\ KeptNormal(k, g) \in Nat /\ KeptNormal(k, g) <= g
         /\ ByTrace => KeptNormal(k, g) = Cardinality(KeptOnes(k, g))
         /\ ~ByTrace => KeptNormal(k, g) = g
<1>1. g \in Nat /\ g <= Cardinality(Normal(k))
  BY ItemsFinite DEF Answers
<1>2. QED
  BY <1>1, PlanFits DEF KeptNormal, KeptOnes

\* A trace that a key's plan drops has a normal span of that key, and so no
\* critical one.
LEMMA PlanOfNormal ==
  ASSUME InTransit, NEW k, NEW g, NEW i, TraceOf(i) \in planTraceDrops(k, g)
  PROVE  /\ \E j \in Normal(k) : TraceOf(j) = TraceOf(i)
         /\ ByTrace => i \notin Critical(k)
<1>1. PICK j \in Normal(k) : TraceOf(j) = TraceOf(i)
  BY Zenon DEF planTraceDrops
<1>2. ASSUME ByTrace, i \in Critical(k)
      PROVE  FALSE
  <2>1. j \in Here(k) /\ j \notin Critical(k)
    BY <1>1, Zenon DEF Normal
  <2>2. PICK l \in Here(k) : TraceOf(l) = TraceOf(i) /\ batch.items[l].error
    BY <1>2, Zenon DEF Critical
  <2>3. j \in Critical(k)
    BY <1>1, <1>2, <2>1, <2>2, Zenon DEF Critical
  <2>4. QED
    BY <2>1, <2>3, Zenon
<1>3. QED
  BY <1>1, <1>2, Zenon

----------------------------------------------------------------------------
Loaded ==
  /\ docs \in Hashes /\ rules = buildRuleSet(docs, 1)
  /\ LimitType \in {"attribute", "header"} /\ batch \in Batches(LimitType)
  /\ DropOnLimit \in BOOLEAN

Blank(k) ==
  /\ granted[k] = 0 /\ received[k] = 0 /\ preserved[k] = 0
  /\ allowed[k] = 0 /\ denied[k] = 0

\* What a turn of the loop has booked for its key, with the answer g.
Booked(k, g) ==
  LET n == Cardinality(Normal(k))
      c == Cardinality(Critical(k)) IN
  /\ g \in Answers(n) /\ granted[k] = g
  /\ received[k] = Cardinality(Here(k)) /\ preserved[k] = c
  /\ allowed[k] = c + KeptNormal(k, g) /\ denied[k] = n - KeptNormal(k, g)

\* The traces to drop are those that the plans of the billed keys drop.
Planned ==
  /\ \A k \in billed, g \in Nat : granted[k] = g => planTraceDrops(k, g) \subseteq dropAll
  /\ \A t \in dropAll : \E k \in billed, g \in Nat :
       granted[k] = g /\ t \in planTraceDrops(k, g)

\* The inductive invariant: the loop over the keys has booked the billed ones
\* and no other, from a batch that is as the filter left it.
IInv ==
  /\ Loaded /\ TypeOK
  /\ pc = "filter" => /\ left = Positions /\ resources = 1 .. Len(batch.attrs)
                      /\ billed = {} /\ dropAll = {} /\ \A k \in Keys : Blank(k)
  /\ pc = "bill" => /\ left = passed
                    /\ \A k \in Keys : IF k \in billed THEN \E g \in Nat : Booked(k, g)
                                       ELSE Blank(k)
                    /\ ByTrace => Planned

LEMMA LoadedOK ==
  ASSUME Loaded
  PROVE  HashOK(docs) /\ BatchOK(batch)
BY GatewayInputs, Zenon DEF Loaded

LEMMA TransitOK ==
  ASSUME IInv
  PROVE  InTransit
BY LoadedOK, Zenon DEF IInv, TypeOK, InTransit

LEMMA KeysOK ==
  ASSUME Loaded
  PROVE  /\ \A j \in 1 .. Len(batch.attrs) : keyForResource(j) \in Keys
         /\ \A i \in Positions : batch.items[i].res \in 1 .. Len(batch.attrs)
         /\ \A i \in Positions : KeyOf(i) \in Keys
<1>1. BatchOK(batch) /\ default \in Keys
  BY LoadedOK, GatewayInputs, Zenon
<1>2. \A j \in 1 .. Len(batch.attrs) : keyForResource(j) \in Keys
  BY <1>1, Zenon DEF BatchOK, keyForResource
<1>3. \A i \in Positions : batch.items[i].res \in 1 .. Len(batch.attrs)
  BY <1>1, Zenon DEF BatchOK, Positions
<1>4. QED
  BY <1>2, <1>3, Zenon DEF KeyOf

LEMMA InitOK ==
  Init => IInv
<1> SUFFICES ASSUME Init PROVE IInv
  BY Zenon
<1>1. Loaded
  BY Zenon DEF Init, Loaded
<1>2. /\ \A k \in Keys : Blank(k)
      /\ {granted, received, allowed, denied, preserved} \subseteq [Keys -> Nat]
  BY DEF Init, Blank, Zero
<1>3. TypeOK
  BY <1>1, <1>2, KeysOK, Zenon DEF Init, TypeOK
<1>4. QED
  BY <1>1, <1>2, <1>3, Zenon DEF Init, IInv

\* What the filter lets through is what the hash does not mute, and nothing goes
\* on to the limiter that has no resource.
LEMMA Filtered ==
  ASSUME IInv, Filter
  PROVE  /\ left' = {i \in Positions : ~Muted(docs, AsItem(i), now)} /\ passed' = left'
         /\ resources' \subseteq 1 .. Len(batch.attrs)
         /\ \A i \in left' : batch.items[i].res \in resources'
         /\ pc' \in {"skipped", "forwarded", "bill"} /\ (pc' # "bill" => left' = {})
         /\ UNCHANGED <<config, batch, billed, granted, dropAll, counters>>
<1> DEFINE keep == {i \in left : ~shouldDrop(rules, AsItem(i), now)}
           inert == rulesFor(rules, batch.signal) = {}
           unmuted == {i \in Positions : ~Muted(docs, AsItem(i), now)}
<1>1. /\ left = Positions /\ resources = 1 .. Len(batch.attrs) /\ Loaded
      /\ rules = buildRuleSet(docs, 1)
      /\ UNCHANGED <<config, batch, billed, granted, dropAll, counters>>
  BY Zenon DEF IInv, Filter, Loaded
<1>2. /\ left' = IF inert THEN left ELSE keep
      /\ passed' = left'
      /\ resources' = IF inert THEN resources ELSE Cleaned(resources, keep)
      /\ pc' = IF ~inert /\ resources' = {} THEN "skipped"
               ELSE IF resources' = {} THEN "forwarded" ELSE "bill"
  BY Zenon DEF Filter
<1>3. ASSUME NEW i \in Positions
      PROVE  shouldDrop(rules, AsItem(i), now) <=> Muted(docs, AsItem(i), now)
  <2>1. /\ AsItem(i).signal = batch.signal /\ AsItem(i).fields = batch.items[i].fields
    BY Zenon DEF AsItem
  <2>2. BatchOK(batch) /\ HashOK(docs)
    BY <1>1, LoadedOK, Zenon
  <2>3. /\ AsItem(i).signal \in Signals
        /\ AsItem(i).signal # "logs" => \A f \in DOMAIN AsItem(i).fields : f[1] # "body"
    BY <2>1, <2>2, Zenon DEF BatchOK, Positions
  <2>4. QED
    BY <1>1, <2>2, <2>3, MutedIsDropped, Zenon
<1>4. inert => \A i \in Positions : ~shouldDrop(rules, AsItem(i), now)
  BY Zenon DEF AsItem, shouldDrop, match
<1>5. left' = unmuted
  BY <1>1, <1>2, <1>3, <1>4, Zenon
<1>6. /\ resources' \subseteq 1 .. Len(batch.attrs)
      /\ \A i \in left' : batch.items[i].res \in resources'
  BY <1>1, <1>2, KeysOK, Zenon DEF Cleaned
<1>7. pc' \in {"skipped", "forwarded", "bill"} /\ (pc' # "bill" => left' = {})
  BY <1>2, <1>6, Zenon
<1>8. QED
  BY <1>1, <1>2, <1>5, <1>6, <1>7, Zenon

LEMMA FilterStep ==
  ASSUME IInv, Filter
  PROVE  IInv'
<1>1. Loaded'
  BY Filtered, Zenon DEF IInv, Loaded, config
<1>2. TypeOK'
  <2>1. left' \subseteq Positions' /\ passed' \subseteq Positions'
    BY Filtered, Zenon DEF Positions
  <2>2. {granted, received, allowed, denied, preserved}' \subseteq [Keys -> Nat]
    BY Filtered, Zenon DEF IInv, TypeOK, counters
  <2>3. QED
    BY <2>1, <2>2, Filtered, Zenon DEF IInv, TypeOK, Ended
<1>3. /\ pc' # "filter" /\ left' = passed' /\ billed' = {} /\ dropAll' = {}
      /\ \A k \in Keys : Blank(k)'
  BY Filtered, Zenon DEF IInv, Blank, counters, Filter
<1>4. Planned'
  BY <1>3, Zenon DEF Planned
<1>5. QED
  BY <1>1, <1>2, <1>3, <1>4, Zenon DEF IInv

\* The order of billing: the loop bills keys of the configuration, each once.
LEMMA NextKeyNew ==
  ASSUME IInv, ~AllBilled
  PROVE  NextKey \in Keys /\ NextKey \notin billed
<1> DEFINE todo == {j \in resources : keyForResource(j) \notin billed}
           first == CHOOSE j \in todo : \A i \in todo : j <= i
<1>1. todo \in SUBSET Nat /\ todo # {} /\ todo \subseteq 1 .. Len(batch.attrs)
  <2>1. resources \subseteq 1 .. Len(batch.attrs) /\ Len(batch.attrs) \in Nat
    BY LoadedOK, Zenon DEF IInv, TypeOK, BatchOK
  <2>2. \A j \in resources : j \in Nat /\ j \in 1 .. Len(batch.attrs)
    BY <2>1
  <2>3. todo # {}
    BY Zenon DEF AllBilled
  <2>4. QED
    BY <2>2, <2>3, Zenon
<1>2. first \in todo
  BY <1>1, LeastNumber, Zenon
<1>3. NextKey = keyForResource(first)
  BY Zenon DEF NextKey
<1>4. QED
  BY <1>1, <1>2, <1>3, KeysOK, Zenon DEF IInv

\* Billing does not touch the batch, and so not what the keys have in it.
LEMMA SameItems ==
  ASSUME UNCHANGED <<LimitType, PreserveErrors, TraceIDAware, batch, left>>
  PROVE  /\ ByTrace' = ByTrace
         /\ \A k : /\ Here(k)' = Here(k) /\ Critical(k)' = Critical(k)
                   /\ Normal(k)' = Normal(k)
         /\ \A n : Answers(n)' = Answers(n)
         /\ \A k, g : /\ planTraceDrops(k, g)' = planTraceDrops(k, g)
                      /\ KeptNormal(k, g)' = KeptNormal(k, g)
<1>1. ByTrace' = ByTrace /\ \A n : Answers(n)' = Answers(n)
  BY Zenon DEF ByTrace, Answers
<1>2. \A i : KeyOf(i)' = KeyOf(i) /\ TraceOf(i)' = TraceOf(i)
  BY Zenon DEF KeyOf, keyForResource, TraceOf
<1>3. \A k : Here(k)' = Here(k)
  BY <1>2, Zenon DEF Here
<1>4. \A k : Critical(k)' = Critical(k)
  BY <1>1, <1>2, <1>3, Zenon DEF Critical
<1>5. \A k : Normal(k)' = Normal(k)
  BY <1>3, <1>4, Zenon DEF Normal
<1>6. \A k, i : Opens(k, i)' = Opens(k, i) /\ Spans(k, i)' = Spans(k, i)
  BY <1>2, <1>5, Zenon DEF Opens, Spans
<1>7. \A k, g : keptSpans(k, g)' = keptSpans(k, g)
  BY <1>6 DEF keptSpans
<1>8. \A k, g : planTraceDrops(k, g)' = planTraceDrops(k, g)
  BY <1>2, <1>5, <1>6, <1>7, Zenon DEF planTraceDrops
<1>9. \A k, g : KeptNormal(k, g)' = KeptNormal(k, g)
  BY <1>1, <1>2, <1>5, <1>8, Zenon DEF KeptNormal
<1>10. QED
  BY <1>1, <1>3, <1>4, <1>5, <1>8, <1>9, Zenon

LEMMA BillStep ==
  ASSUME IInv, NEW g \in 0 .. Len(batch.items), Bill(g)
  PROVE  IInv'
<1>0. PICK k \in Keys : k = NextKey /\ k \notin billed
  BY NextKeyNew, Zenon DEF Bill
<1> DEFINE n == Cardinality(Normal(k))
           kept == KeptNormal(k, g)
<1>1. /\ pc = "bill" /\ pc' = "bill" /\ ~AllBilled /\ g \in Answers(n)
      /\ billed' = billed \cup {k}
      /\ granted' = [granted EXCEPT ![k] = g]
      /\ received' = [received EXCEPT ![k] = @ + Cardinality(Here(k))]
      /\ preserved' = [preserved EXCEPT ![k] = @ + Cardinality(Critical(k))]
      /\ allowed' = [allowed EXCEPT ![k] = @ + Cardinality(Critical(k)) + kept]
      /\ denied' = [denied EXCEPT ![k] = @ + n - kept]
      /\ dropAll' = IF ByTrace THEN dropAll \cup planTraceDrops(k, g) ELSE dropAll
      /\ UNCHANGED <<config, batch, left, resources, passed>>
  BY <1>0, Zenon DEF Bill
<1>2. k \in Keys /\ k \notin billed
  BY <1>0, Zenon
<1>3. UNCHANGED <<LimitType, PreserveErrors, TraceIDAware, DropOnLimit, docs, rules, batch, left>>
  BY <1>1, Zenon DEF config
<1>4. Loaded'
  BY <1>3, Zenon DEF IInv, Loaded
<1>5. /\ Cardinality(Here(k)) \in Nat /\ Cardinality(Critical(k)) \in Nat /\ n \in Nat
      /\ kept \in Nat /\ kept <= n /\ g \in Nat
  <2>1. InTransit /\ g \in Answers(n)
    BY <1>1, TransitOK, Zenon
  <2>2. /\ Cardinality(Critical(k)) \in Nat /\ n \in Nat
        /\ Cardinality(Here(k)) = Cardinality(Critical(k)) + n
    BY <2>1, ItemsFinite, Zenon
  <2>3. kept \in Nat /\ g \in Nat /\ kept <= g /\ g <= n
    BY <2>1, GrantBounds, Zenon
  <2> HIDE DEF n, kept
  <2>4. QED
    BY <2>2, <2>3
<1>6. /\ granted \in [Keys -> Nat] /\ received \in [Keys -> Nat] /\ allowed \in [Keys -> Nat]
      /\ denied \in [Keys -> Nat] /\ preserved \in [Keys -> Nat] /\ Blank(k)
  BY <1>1, <1>2, Zenon DEF IInv, TypeOK
<1> HIDE DEF n, kept
<1>7. /\ granted' \in [Keys -> Nat] /\ received' \in [Keys -> Nat] /\ allowed' \in [Keys -> Nat]
      /\ denied' \in [Keys -> Nat] /\ preserved' \in [Keys -> Nat]
  <2>1. granted' \in [Keys -> Nat]
    BY <1>1, <1>5, <1>6, Zenon
  <2>2. received' \in [Keys -> Nat]
    <3>1. received[k] + Cardinality(Here(k)) \in Nat
      BY <1>2, <1>5, <1>6, SumNat, Zenon
    <3>2. QED
      BY <1>1, <1>6, <3>1, Zenon
  <2>3. preserved' \in [Keys -> Nat]
    <3>1. preserved[k] + Cardinality(Critical(k)) \in Nat
      BY <1>2, <1>5, <1>6, SumNat, Zenon
    <3>2. QED
      BY <1>1, <1>6, <3>1, Zenon
  <2>4. allowed' \in [Keys -> Nat]
    <3>1. allowed[k] + Cardinality(Critical(k)) + kept \in Nat
      BY <1>2, <1>5, <1>6, SumNat, Zenon
    <3>2. QED
      BY <1>1, <1>6, <3>1, Zenon
  <2>5. denied[k] + n - kept \in Nat
    BY <1>2, <1>5, <1>6, SumNat, Zenon DEF Blank
  <2>6. denied' \in [Keys -> Nat]
    BY <1>1, <1>6, <2>5, Zenon
  <2>7. QED
    BY <2>1, <2>2, <2>3, <2>4, <2>6, Zenon
<1>8. TypeOK'
  <2>1. /\ {batch.items[i].res : i \in left}' \subseteq resources'
        /\ left' \subseteq Positions' /\ passed' \subseteq Positions'
        /\ resources' \subseteq 1 .. Len(batch.attrs)' /\ billed' \subseteq Keys
    BY <1>1, <1>2, <1>3, Zenon DEF IInv, TypeOK, Positions
  <2>2. QED
    BY <1>1, <1>7, <2>1, Zenon DEF TypeOK
<1>9. /\ granted'[k] = g /\ received'[k] = Cardinality(Here(k))
      /\ preserved'[k] = Cardinality(Critical(k))
      /\ allowed'[k] = Cardinality(Critical(k)) + kept /\ denied'[k] = n - kept
  <2>1. granted'[k] = g
    BY <1>1, <1>2, <1>6, Zenon
  <2>2. received'[k] = Cardinality(Here(k))
    BY <1>1, <1>2, <1>5, <1>6 DEF Blank
  <2>3. preserved'[k] = Cardinality(Critical(k))
    BY <1>1, <1>2, <1>5, <1>6 DEF Blank
  <2>4. allowed'[k] = Cardinality(Critical(k)) + kept
    BY <1>1, <1>2, <1>5, <1>6 DEF Blank
  <2>5. denied'[k] = n - kept
    BY <1>1, <1>2, <1>5, <1>6 DEF Blank
  <2>6. QED
    BY <2>1, <2>2, <2>3, <2>4, <2>5, Zenon
<1>10. ASSUME NEW l \in Keys, l # k
       PROVE  /\ granted'[l] = granted[l] /\ received'[l] = received[l]
              /\ preserved'[l] = preserved[l] /\ allowed'[l] = allowed[l]
              /\ denied'[l] = denied[l] /\ (l \in billed' <=> l \in billed)
  BY <1>1, <1>6, <1>10, Zenon
<1>11. ASSUME NEW l \in Keys
       PROVE  IF l \in billed' THEN \E h \in Nat : Booked(l, h)' ELSE Blank(l)'
  <2>1. CASE l = k
    <3>1. Booked(k, g)'
      BY <1>1, <1>3, <1>9, SameItems, Zenon DEF Booked, n, kept
    <3>2. QED
      BY <1>1, <1>5, <2>1, <3>1, Zenon
  <2>2. CASE l # k /\ l \in billed
    <3>1. PICK h \in Nat : Booked(l, h)
      BY <1>1, <2>2, Zenon DEF IInv
    <3>2. Booked(l, h)'
      BY <1>3, <1>10, <2>2, <3>1, SameItems, Zenon DEF Booked
    <3>3. QED
      BY <1>1, <2>2, <3>2, Zenon
  <2>3. CASE l # k /\ l \notin billed
    <3>1. Blank(l)'
      BY <1>1, <1>10, <2>3 DEF IInv, Blank
    <3>2. QED
      BY <1>1, <2>3, <3>1, Zenon
  <2>4. QED
    BY <2>1, <2>2, <2>3, Zenon
<1>12. ASSUME ByTrace'
       PROVE  Planned'
  <2>1. ByTrace /\ Planned /\ dropAll' = dropAll \cup planTraceDrops(k, g)
    BY <1>1, <1>3, <1>12, SameItems, Zenon DEF IInv
  <2>2. billed \subseteq Keys
    BY Zenon DEF IInv, TypeOK
  <2>3. \A l \in billed : granted'[l] = granted[l]
    BY <1>2, <1>10, <2>2, Zenon
  <2>4. \A l \in billed', h \in Nat : granted'[l] = h => planTraceDrops(l, h) \subseteq dropAll'
    <3> SUFFICES ASSUME NEW l \in billed', NEW h \in Nat, granted'[l] = h
                 PROVE  planTraceDrops(l, h) \subseteq dropAll'
      BY Zenon
    <3>1. CASE l = k
      BY <1>9, <2>1, <3>1, Zenon
    <3>2. CASE l \in billed
      BY <2>1, <2>3, <3>2, Zenon DEF Planned
    <3>3. QED
      BY <1>1, <3>1, <3>2, Zenon
  <2>5. \A t \in dropAll' : \E l \in billed', h \in Nat :
          granted'[l] = h /\ t \in planTraceDrops(l, h)
    BY <1>1, <1>5, <1>9, <2>1, <2>3, Zenon DEF Planned
  <2>6. QED
    BY <1>3, <2>4, <2>5, SameItems DEF Planned
<1>13. QED
  BY <1>1, <1>4, <1>8, <1>11, <1>12, Zenon DEF IInv

----------------------------------------------------------------------------
\* When the loop is through, every key is booked: one that was not billed has
\* nothing in the batch.
LEMMA AllBooked ==
  ASSUME IInv, pc = "bill", AllBilled, NEW k \in Keys
  PROVE  Booked(k, granted[k])
<1>1. CASE k \in billed
  <2>1. PICK g \in Nat : Booked(k, g)
    BY <1>1, Zenon DEF IInv
  <2>2. g = granted[k]
    BY <2>1, Zenon DEF Booked
  <2>3. QED
    BY <2>1, <2>2, Zenon
<1>2. CASE k \notin billed
  <2>1. Here(k) = {}
    <3> SUFFICES ASSUME NEW i \in left, KeyOf(i) = k
                 PROVE  FALSE
      BY Zenon DEF Here
    <3>1. batch.items[i].res \in resources
      BY Zenon DEF IInv, TypeOK
    <3>2. KeyOf(i) \in billed
      BY <3>1, Zenon DEF AllBilled, KeyOf
    <3>3. QED
      BY <1>2, <3>2, Zenon
  <2>2. Critical(k) = {} /\ Normal(k) = {}
    BY <2>1, Zenon DEF Critical, Normal
  <2>3. Cardinality({}) = 0
    BY FS_EmptySet, Zenon
  <2>4. Blank(k)
    BY <1>2, Zenon DEF IInv
  <2>5. KeptNormal(k, 0) = 0
    <3>1. {i \in Normal(k) : TraceOf(i) \notin planTraceDrops(k, 0)} = {}
      BY <2>2, Zenon
    <3>2. QED
      BY <2>3, <3>1, Zenon DEF KeptNormal
  <2>6. 0 \in Answers(0)
    BY DEF Answers
  <2>7. QED
    <3>1. Cardinality(Here(k)) = 0 /\ Cardinality(Critical(k)) = 0 /\ Cardinality(Normal(k)) = 0
      BY <2>1, <2>2, <2>3, Zenon
    <3>2. 0 = 0 + 0 /\ 0 = 0 - 0
      OBVIOUS
    <3>3. QED
      BY <2>4, <2>5, <2>6, <3>1, <3>2, Zenon DEF Booked, Blank
<1>3. QED
  BY <1>1, <1>2, Zenon

\* The items of key k that Finish leaves.
Stays(k) == {i \in left \ Drops : KeyOf(i) = k}

\* The books of a key when the loop is through.
LEMMA Books ==
  ASSUME IInv, pc = "bill", AllBilled, NEW k \in Keys
  PROVE  /\ InTransit /\ granted[k] \in Nat /\ granted[k] \in Answers(Cardinality(Normal(k)))
         /\ \E n, c, kept \in Nat :
              /\ n = Cardinality(Normal(k)) /\ c = Cardinality(Critical(k))
              /\ kept = KeptNormal(k, granted[k]) /\ kept <= granted[k] /\ granted[k] <= n
              /\ Cardinality(Here(k)) = c + n /\ received[k] = c + n /\ preserved[k] = c
              /\ allowed[k] = c + kept /\ denied[k] = n - kept
<1> DEFINE n == Cardinality(Normal(k))
           c == Cardinality(Critical(k))
           kept == KeptNormal(k, granted[k])
<1>1. InTransit /\ Booked(k, granted[k])
  BY TransitOK, AllBooked, Zenon
<1>2. /\ granted[k] \in Answers(n) /\ received[k] = Cardinality(Here(k)) /\ preserved[k] = c
      /\ allowed[k] = c + kept /\ denied[k] = n - kept
  BY <1>1, Zenon DEF Booked
<1>3. n \in Nat /\ c \in Nat /\ Cardinality(Here(k)) = c + n
  BY <1>1, ItemsFinite, Zenon
<1>4. granted[k] \in Nat /\ granted[k] <= n /\ kept \in Nat /\ kept <= granted[k]
  BY <1>1, <1>2, GrantBounds, Zenon
<1>5. QED
  BY <1>1, <1>2, <1>3, <1>4, Zenon

\* Span by span and log by log, exactly the denied items go.
LEMMA StaysOneByOne ==
  ASSUME IInv, pc = "bill", AllBilled, ~ByTrace, NEW k \in Keys
  PROVE  /\ Stays(k) = Here(k) \ DropsOf(k) /\ DropsOf(k) \subseteq Normal(k)
         /\ Cardinality(Stays(k)) = allowed[k]
<1> DEFINE n == Cardinality(Normal(k))
           c == Cardinality(Critical(k))
<1>1. /\ InTransit /\ n \in Nat /\ c \in Nat /\ denied[k] \in Nat /\ denied[k] <= n
      /\ Cardinality(Here(k)) = c + n /\ allowed[k] = c + n - denied[k]
  <2>1. InTransit
    BY Books, Zenon
  <2>2. PICK x, y, z \in Nat : /\ x = n /\ y = c /\ z <= granted[k] /\ granted[k] <= x
                             /\ Cardinality(Here(k)) = y + x /\ granted[k] \in Nat
                             /\ allowed[k] = y + z /\ denied[k] = x - z
    BY Books, Zenon
  <2> HIDE DEF n, c
  <2>3. QED
    BY <2>1, <2>2
<1>2. /\ \A l : DropsOf(l) \subseteq Normal(l)
      /\ \A l : Normal(l) \subseteq Here(l)
  BY Zenon DEF DropsOf, Normal
<1>3. Stays(k) = Here(k) \ DropsOf(k)
  <2>1. Drops = UNION {DropsOf(l) : l \in Keys}
    BY Zenon DEF Drops
  <2>2. ASSUME NEW i \in Here(k)
        PROVE  i \in Drops <=> i \in DropsOf(k)
    BY <1>2, <2>1, <2>2 DEF Here
  <2>3. QED
    BY <2>2, Zenon DEF Stays, Here
<1>4. Cardinality(DropsOf(k)) = denied[k]
  <2>1. IsFiniteSet(Normal(k)) /\ Normal(k) \in SUBSET Nat
    BY <1>1, ItemsFinite, Zenon
  <2>2. QED
    BY <1>1, <2>1, FirstOnes, Zenon DEF DropsOf
<1>5. IsFiniteSet(Here(k)) /\ DropsOf(k) \in SUBSET Here(k)
  BY <1>1, <1>2, ItemsFinite, Zenon
<1>6. Cardinality(Here(k) \ DropsOf(k)) = Cardinality(Here(k)) - Cardinality(DropsOf(k))
  BY <1>5, Remainder, Zenon
<1> HIDE DEF n, c
<1>7. Cardinality(Here(k) \ DropsOf(k)) = allowed[k]
  BY <1>1, <1>4, <1>6
<1>8. QED
  BY <1>2, <1>3, <1>7, Zenon

\* By trace the critical spans stay and what the plan keeps, unless another key's
\* plan drops the trace.
LEMMA StaysWhole ==
  ASSUME IInv, pc = "bill", AllBilled, ByTrace, NEW k \in Keys
  PROVE  /\ Cardinality(Stays(k)) \in Nat /\ Cardinality(Stays(k)) <= allowed[k]
         /\ Separate => Cardinality(Stays(k)) = allowed[k]
<1> DEFINE g == granted[k]
           mine == Critical(k) \cup KeptOnes(k, g)
<1>1. /\ InTransit /\ g \in Nat /\ g \in Answers(Cardinality(Normal(k)))
      /\ allowed[k] = Cardinality(Critical(k)) + KeptNormal(k, g)
      /\ Planned /\ left = passed
  BY Books, Zenon DEF IInv
<1>2. Drops = {i \in left : TraceOf(i) \in dropAll}
  BY Zenon DEF Drops
<1>3. /\ Stays(k) = {i \in Here(k) : TraceOf(i) \notin dropAll}
      /\ Here(k) = Critical(k) \cup Normal(k) /\ Critical(k) \cap Normal(k) = {}
      /\ KeptOnes(k, g) \subseteq Normal(k)
  BY <1>2, Zenon DEF Stays, Here, Critical, Normal, KeptOnes
<1>4. IsFiniteSet(mine) /\ Cardinality(mine) = allowed[k]
  <2>1. IsFiniteSet(Critical(k)) /\ IsFiniteSet(KeptOnes(k, g))
    BY <1>1, ItemsFinite, PlanFits, Zenon
  <2>2. Critical(k) \cap KeptOnes(k, g) = {}
    BY <1>3, Zenon
  <2>3. KeptNormal(k, g) = Cardinality(KeptOnes(k, g))
    BY <1>1, GrantBounds, Zenon
  <2> HIDE DEF g
  <2>4. QED
    BY <1>1, <2>1, <2>2, <2>3, DisjointUnion, Zenon
<1>5. Stays(k) \subseteq mine
  <2> SUFFICES ASSUME NEW i \in Normal(k), TraceOf(i) \notin dropAll
               PROVE  TraceOf(i) \notin planTraceDrops(k, g)
    BY <1>3, Zenon DEF KeptOnes
  <2>1. CASE k \in billed
    BY <1>1, <2>1, Zenon DEF Planned
  <2>2. CASE k \notin billed
    <3>1. batch.items[i].res \in resources /\ KeyOf(i) = k
      BY Zenon DEF IInv, TypeOK, Normal, Here
    <3>2. QED
      BY <2>2, <3>1, Zenon DEF AllBilled, KeyOf
  <2>3. QED
    BY <2>1, <2>2, Zenon
<1>6. ASSUME Separate, NEW i \in mine
      PROVE  i \in Stays(k)
  <2>1. i \in Here(k) /\ i \in passed /\ KeyOf(i) = k
    BY <1>1, <1>3, <1>6, Zenon DEF Here
  <2> SUFFICES ASSUME TraceOf(i) \in dropAll
               PROVE  FALSE
    BY <1>3, <2>1, Zenon
  <2>2. PICK l \in billed, h \in Nat : granted[l] = h /\ TraceOf(i) \in planTraceDrops(l, h)
    BY <1>1, Zenon DEF Planned
  <2>3. PICK j \in Normal(l) : TraceOf(j) = TraceOf(i)
    BY <1>1, <2>2, PlanOfNormal, Zenon
  <2>4. j \in passed /\ KeyOf(j) = l
    BY <1>1, <2>3, Zenon DEF Normal, Here
  <2>5. l = k
    BY <1>6, <2>1, <2>3, <2>4, Zenon DEF Separate, Unit, OneKey
  <2>6. TraceOf(i) \in planTraceDrops(k, g)
    BY <2>2, <2>5, Zenon
  <2>7. i \notin Critical(k)
    BY <1>1, <2>6, PlanOfNormal, Zenon
  <2>8. i \notin KeptOnes(k, g)
    BY <2>6, Zenon DEF KeptOnes
  <2>9. QED
    BY <1>6, <2>7, <2>8, Zenon
<1> HIDE DEF mine
<1>7. /\ IsFiniteSet(Stays(k)) /\ Cardinality(Stays(k)) <= Cardinality(mine)
      /\ Cardinality(Stays(k)) \in Nat
  BY <1>4, <1>5, FS_Subset, FS_CardinalityType, Zenon
<1>8. Separate => Stays(k) = mine
  BY <1>5, <1>6, Zenon
<1>9. QED
  BY <1>4, <1>7, <1>8, Zenon

----------------------------------------------------------------------------
acts == DropOnLimit /\ \E k \in Keys : denied[k] > 0

\* What Finish leaves alone, and what it makes of the batch.
LEMMA Finished ==
  ASSUME IInv, Finish
  PROVE  /\ pc = "bill" /\ AllBilled /\ left = passed
         /\ UNCHANGED <<config, batch, passed, billed, granted, dropAll, counters>>
         /\ \/ pc' = "rejected" /\ acts /\ left' = left /\ \A k \in Keys : allowed[k] = 0
            \/ pc' = "forwarded" /\ acts /\ left' = left \ Drops /\ \E k \in Keys : allowed[k] # 0
            \/ pc' = "forwarded" /\ ~acts /\ left' = left
BY Zenon DEF Finish, IInv, acts

LEMMA SameBatch ==
  ASSUME UNCHANGED <<config, batch, passed>>
  PROVE  /\ ByTrace' = ByTrace /\ (Separate' <=> Separate)
         /\ \A i : KeyOf(i)' = KeyOf(i) /\ TraceOf(i)' = TraceOf(i)
         /\ \A i : Unit(i)' = Unit(i) /\ (OneKey(Unit(i))' <=> OneKey(Unit(i)))
<1>1. ByTrace' = ByTrace
  BY Zenon DEF ByTrace, config
<1>2. \A i : KeyOf(i)' = KeyOf(i) /\ TraceOf(i)' = TraceOf(i)
  BY Zenon DEF KeyOf, keyForResource, TraceOf, config
<1>3. \A i : Unit(i)' = Unit(i)
  BY <1>1, <1>2, Zenon DEF Unit
<1>4. \A i : OneKey(Unit(i))' <=> OneKey(Unit(i))
  BY <1>2, <1>3, Zenon DEF OneKey
<1>5. Separate' <=> Separate
  BY <1>4, Zenon DEF Separate
<1>6. QED
  BY <1>1, <1>2, <1>3, <1>4, <1>5, Zenon

\* No item outlives its resource: a data point stays only if its key has nothing
\* denied, and RemoveIf keeps the resource of every item that stays.
LEMMA FinishStep ==
  ASSUME IInv, Finish
  PROVE  IInv'
<1> DEFINE keep == left \ Drops
<1>1. Loaded'
  BY Finished, Zenon DEF IInv, Loaded, config
<1>2. pc' \in {"rejected", "forwarded"} /\ left' \subseteq left
  BY Finished, Zenon
<1>3. /\ resources' \subseteq resources
      /\ \A i \in left' : batch.items[i].res \in resources'
  <2>1. \A i \in left : batch.items[i].res \in resources
    BY Zenon DEF IInv, TypeOK
  <2>2. CASE resources' = resources
    BY <1>2, <2>1, <2>2, Zenon
  <2>3. CASE /\ pc' = "forwarded" /\ acts /\ left' = keep
             /\ resources' = CASE batch.signal = "metrics" ->
                                    {j \in resources : denied[keyForResource(j)] = 0}
                               [] ByTrace -> Cleaned(resources, keep)
                               [] OTHER -> Cleaned(LookedAt, keep)
    <3>1. CASE batch.signal = "metrics"
      <4>1. ~ByTrace /\ resources' = {j \in resources : denied[keyForResource(j)] = 0}
        BY <2>3, <3>1, Zenon DEF ByTrace
      <4>2. ASSUME NEW i \in keep
            PROVE  denied[KeyOf(i)] = 0
        <5> DEFINE n == Cardinality(Normal(KeyOf(i)))
        <5>1. KeyOf(i) \in Keys /\ i \in Here(KeyOf(i))
          BY KeysOK, Zenon DEF IInv, TypeOK, Here
        <5>2. Critical(KeyOf(i)) = {} /\ i \in Normal(KeyOf(i))
          BY <3>1, <5>1, Zenon DEF Critical, Normal
        <5>3. /\ InTransit /\ n \in Nat /\ granted[KeyOf(i)] \in {0, n}
              /\ denied[KeyOf(i)] = n - granted[KeyOf(i)]
          BY <3>1, <4>1, <5>1, Books, Finished, GrantBounds, Zenon DEF Answers
        <5>4. ASSUME granted[KeyOf(i)] = 0
              PROVE  FALSE
          <6>1. PICK k \in Keys : k = KeyOf(i)
            BY <5>1, Zenon
          <6> DEFINE below == {j \in Normal(k) : j < i}
          <6>2. IsFiniteSet(Normal(k)) /\ Normal(k) \in SUBSET Nat /\ i \in Normal(k)
            BY <5>2, <5>3, <6>1, ItemsFinite, Zenon
          <6>3. below \subseteq Normal(k) \ {i}
            BY <6>2
          <6>4. /\ IsFiniteSet(Normal(k) \ {i})
                /\ Cardinality(Normal(k) \ {i}) = Cardinality(Normal(k)) - 1
            BY <6>2, FS_RemoveElement, Zenon
          <6>5. Cardinality(below) <= Cardinality(Normal(k)) - 1 /\ Cardinality(below) \in Nat
            BY <6>3, <6>4, FS_Subset, FS_CardinalityType
          <6>6. denied[k] = Cardinality(Normal(k)) /\ Cardinality(Normal(k)) \in Nat
            BY <5>3, <5>4, <6>1
          <6>7. i \in DropsOf(k)
            BY <6>2, <6>5, <6>6 DEF DropsOf
          <6>8. i \in Drops
            BY <4>1, <6>7, Zenon DEF Drops
          <6>9. QED
            BY <4>2, <6>8, Zenon
        <5>5. QED
          BY <5>3, <5>4
      <4>3. QED
        BY <2>1, <2>3, <4>1, <4>2, Zenon DEF KeyOf
    <3>2. CASE batch.signal # "metrics"
      <4>1. \A rs : /\ Cleaned(rs, keep) \subseteq resources
                    /\ \A i \in keep : batch.items[i].res \in Cleaned(rs, keep)
        BY <2>1, Zenon DEF Cleaned
      <4>2. resources' = Cleaned(resources, keep) \/ resources' = Cleaned(LookedAt, keep)
        BY <2>3, <3>2, Zenon
      <4>3. QED
        BY <2>3, <4>1, <4>2, Zenon
    <3>3. QED
      BY <3>1, <3>2, Zenon
  <2>4. QED
    BY <2>2, <2>3, Zenon DEF Finish, acts
<1>4. TypeOK'
  BY <1>2, <1>3, Finished, Zenon DEF IInv, TypeOK, Positions, Ended, counters
<1>5. QED
  BY <1>1, <1>2, <1>4, Zenon DEF IInv

LEMMA NextStep ==
  ASSUME IInv, [Next]_vars
  PROVE  IInv'
<1>1. CASE Filter
  BY <1>1, FilterStep, Zenon
<1>2. CASE \E g \in 0 .. Len(batch.items) : Bill(g)
  BY <1>2, BillStep, Zenon
<1>3. CASE Finish
  BY <1>3, FinishStep, Zenon
<1>4. CASE UNCHANGED vars
  <2>1. UNCHANGED <<config, batch, passed, left>> /\ UNCHANGED counters
    BY <1>4, Zenon DEF vars
  <2>2. UNCHANGED <<LimitType, PreserveErrors, TraceIDAware, DropOnLimit, docs, rules, batch,
                    left, pc, resources, passed, billed, granted, dropAll, received, allowed,
                    denied, preserved>>
    BY <1>4, Zenon DEF vars, config, counters
  <2>3. Loaded' /\ TypeOK' /\ Positions' = Positions
    BY <2>2, Zenon DEF IInv, Loaded, TypeOK, Positions
  <2>4. \A k \in Keys : (Blank(k)' <=> Blank(k)) /\ \A g : Booked(k, g)' <=> Booked(k, g)
    BY <2>2, SameItems DEF Blank, Booked
  <2>5. (Planned' <=> Planned) /\ ByTrace' = ByTrace
    BY <2>2, SameItems DEF Planned
  <2>6. QED
    BY <2>2, <2>3, <2>4, <2>5, Zenon DEF IInv
<1>5. QED
  BY <1>1, <1>2, <1>3, <1>4, Zenon DEF Next, Done

LEMMA Invariance ==
  Spec => []IInv
<1>1. QED
  BY InitOK, NextStep, PTL DEF Spec

\* The batch in transit, what was billed and the counters keep their types, and
\* no item outlives its resource, for every batch and hash.
THEOREM Types ==
  Spec => []TypeOK
<1>1. IInv => TypeOK
  BY Zenon DEF IInv
<1>2. QED
  BY <1>1, Invariance, PTL

\* rules_invalid of buildRuleSet shows every refusal, for every hash and every
\* max_rules.
THEOREM NoSilentRefusal ==
  Spec => []RefusalsShow
<1>1. IInv => RefusalsShow
  BY LoadedOK, RefusalsCounted, Zenon DEF IInv, Loaded, RefusalsShow
<1>2. QED
  BY <1>1, Invariance, PTL

\* The filter drops what the hash mutes and nothing else, for every hash, every
\* max_rules and every batch.
THEOREM KeepRulesWin ==
  Spec => []KeepWins
<1>1. Init => KeepWins
  BY Zenon DEF Init, KeepWins
<1>2. ASSUME IInv, KeepWins, [Next]_vars
      PROVE  KeepWins'
  <2> DEFINE unmuted == {i \in Positions : ~Muted(docs, AsItem(i), now)}
  <2>1. docs' = docs /\ batch' = batch
    BY <1>2, Zenon DEF Next, Filter, Bill, Finish, Done, vars, config
  <2>2. unmuted' = unmuted
    BY <2>1, Zenon DEF Positions, AsItem
  <2>3. CASE Filter
    BY <1>2, <2>2, <2>3, Filtered, Zenon DEF KeepWins
  <2>4. CASE pc # "filter" /\ passed' = passed
    BY <1>2, <2>2, <2>4, Zenon DEF KeepWins
  <2>5. CASE UNCHANGED vars
    BY <1>2, <2>2, <2>5, Zenon DEF KeepWins, vars
  <2>6. QED
    BY <1>2, <2>3, <2>4, <2>5, Zenon DEF Next, Bill, Finish, Done
<1>3. QED
  BY <1>1, <1>2, Invariance, PTL DEF Spec

----------------------------------------------------------------------------
\* A batch ends in the filter, with nothing left, or at the end of the loop.
LEMMA Ends ==
  ASSUME IInv, [Next]_vars, ~Finish, ~UNCHANGED vars
  PROVE  \/ pc' \notin Ended
         \/ /\ pc' # "rejected" /\ left' = {} /\ passed' = {}
            /\ \A k \in Keys : Blank(k)'
<1>1. CASE Filter
  BY <1>1, Filtered, FilterStep, Zenon DEF IInv, Ended, Blank, counters, Filter
<1>2. CASE \E g \in 0 .. Len(batch.items) : Bill(g)
  BY <1>2, Zenon DEF Bill, Ended
<1>3. QED
  BY <1>1, <1>2, Zenon DEF Next, Done

\* The items of a key that the batch has after Finish.
LEMMA HereAfter ==
  ASSUME IInv, Finish, NEW k \in Keys
  PROVE  Here(k)' = IF left' = left THEN Here(k) ELSE Stays(k)
BY Finished, SameBatch, Zenon DEF Here, Stays

\* The counters of the four loops add up, for every batch, and whatever is
\* granted.
THEOREM Accounts ==
  Spec => []Accounted
<1>1. Init => Accounted
  BY Zenon DEF Init, Accounted, Ended
<1>2. ASSUME IInv, Accounted, [Next]_vars
      PROVE  Accounted'
  <2>1. CASE UNCHANGED vars
    <3>1. /\ UNCHANGED <<config, batch, passed, left>>
          /\ UNCHANGED <<pc, received, allowed, denied>>
      BY <2>1, Zenon DEF vars, counters
    <3>2. DropOnLimit' = DropOnLimit
      BY <3>1, Zenon DEF config
    <3>3. QED
      BY <1>2, <3>1, <3>2, SameBatch, Zenon DEF Accounted
  <2>2. CASE Finish
    <3>5. (~DropOnLimit => pc # "rejected" /\ left = passed)'
      <4>1. DropOnLimit' = DropOnLimit
        BY <1>2, <2>2, Finished, Zenon DEF config
      <4>2. QED
        BY <1>2, <2>2, <4>1, Finished, Zenon DEF acts
    <3> SUFFICES ASSUME NEW k \in Keys
                 PROVE  (/\ received[k] = allowed[k] + denied[k]
                         /\ received[k] = Cardinality({i \in passed : KeyOf(i) = k}))'
      BY <3>5, Zenon DEF Accounted
    <3>1. /\ received[k] = allowed[k] + denied[k]
          /\ received[k] = Cardinality(Here(k)) /\ left = passed
      <4>1. pc = "bill" /\ AllBilled /\ left = passed
        BY <1>2, <2>2, Finished, Zenon
      <4>2. PICK n, c, kept \in Nat :
              /\ Cardinality(Here(k)) = c + n /\ received[k] = c + n
              /\ allowed[k] = c + kept /\ denied[k] = n - kept
        BY <1>2, <4>1, Books
      <4>3. QED
        BY <4>1, <4>2
    <3>2. /\ UNCHANGED <<config, batch, passed>> /\ UNCHANGED <<received, allowed, denied>>
      BY <1>2, <2>2, Finished, Zenon DEF counters
    <3>3. {i \in passed : KeyOf(i) = k}' = Here(k)
      BY <3>1, <3>2, SameBatch, Zenon DEF Here
    <3>4. QED
      BY <3>1, <3>2, <3>3, Zenon
  <2>3. CASE ~Finish /\ ~UNCHANGED vars
    <3>1. CASE pc' \notin Ended
      BY <3>1, Zenon DEF Accounted, Ended
    <3>2. CASE /\ pc' # "rejected" /\ left' = {} /\ passed' = {}
               /\ \A k \in Keys : Blank(k)'
      <4>1. Cardinality({}) = 0
        BY FS_EmptySet, Zenon
      <4>2. \A k \in Keys : {i \in passed : KeyOf(i) = k}' = {}
        BY <3>2, Zenon
      <4>3. QED
        <5>1. \A k \in Keys : received'[k] = 0 /\ allowed'[k] = 0 /\ denied'[k] = 0
          BY <3>2, Zenon DEF Blank
        <5>2. \A k \in Keys : received'[k] = allowed'[k] + denied'[k]
          BY <5>1
        <5>3. QED
          BY <3>2, <4>1, <4>2, <5>1, <5>2, Zenon DEF Accounted
    <3>3. QED
      BY <1>2, <2>3, <3>1, <3>2, Ends, Zenon
  <2>4. QED
    BY <2>1, <2>2, <2>3, Zenon
<1>3. QED
  BY <1>1, <1>2, Invariance, PTL DEF Spec

\* A rejected batch has cost nothing, for every batch, unless by trace.
THEOREM RejectionIsFree ==
  Spec => []RejectedIsFree
<1>1. Init => RejectedIsFree
  BY Zenon DEF Init, RejectedIsFree
<1>2. ASSUME IInv, RejectedIsFree, [Next]_vars
      PROVE  RejectedIsFree'
  <2>1. CASE UNCHANGED vars
    BY <1>2, <2>1, SameBatch, Zenon DEF RejectedIsFree, vars
  <2>2. CASE Finish
    <3> SUFFICES ASSUME pc' = "rejected", ~ByTrace'
                 PROVE  granted' = Zero
      BY Zenon DEF RejectedIsFree
    <3>1. /\ pc = "bill" /\ AllBilled /\ granted' = granted /\ ~ByTrace
          /\ \A k \in Keys : allowed[k] = 0
      BY <1>2, <2>2, Finished, SameBatch
    <3>2. \A k \in Keys : granted[k] = 0
      <4> TAKE k \in Keys
      <4>1. PICK c, kept \in Nat :
              kept = KeptNormal(k, granted[k]) /\ allowed[k] = c + kept
        BY <1>2, <3>1, Books, Zenon
      <4>2. kept = granted[k]
        BY <3>1, <4>1, Zenon DEF KeptNormal
      <4>3. c + kept = 0
        BY <3>1, <4>1, Zenon
      <4>4. kept = 0
        BY <4>3
      <4>5. QED
        BY <4>2, <4>4, Zenon
    <3>3. granted \in [Keys -> Nat]
      BY <1>2, Zenon DEF IInv, TypeOK
    <3>4. QED
      BY <3>1, <3>2, <3>3, Zenon DEF Zero
  <2>3. CASE ~Finish /\ ~UNCHANGED vars
    BY <1>2, <2>3, Ends, Zenon DEF RejectedIsFree, Ended
  <2>4. QED
    BY <2>1, <2>2, <2>3, Zenon
<1>3. QED
  BY <1>1, <1>2, Invariance, PTL DEF Spec

\* What is forwarded was granted or is preserved, and is what the counters say,
\* for every batch and whatever is granted.
THEOREM ForwardedIsPaid ==
  Spec => []PaidAndCounted
<1>1. Init => PaidAndCounted
  BY Zenon DEF Init, PaidAndCounted
<1>2. ASSUME IInv, PaidAndCounted, [Next]_vars
      PROVE  PaidAndCounted'
  <2>1. CASE UNCHANGED vars
    <3>1. /\ UNCHANGED <<config, batch, passed>> /\ UNCHANGED <<granted, preserved, allowed, pc>>
          /\ UNCHANGED <<LimitType, PreserveErrors, TraceIDAware, batch, left>>
          /\ DropOnLimit' = DropOnLimit
      BY <2>1, Zenon DEF vars, counters, config
    <3>2. QED
      BY <1>2, <3>1, SameBatch, SameItems, Zenon DEF PaidAndCounted
  <2>2. CASE Finish
    <3> SUFFICES ASSUME pc' = "forwarded", DropOnLimit', NEW k \in Keys
                 PROVE  (/\ Cardinality(Here(k)) <= granted[k] + preserved[k]
                         /\ Separate => Cardinality(Here(k)) = allowed[k])'
      BY Zenon DEF PaidAndCounted
    <3>1. /\ UNCHANGED <<granted, preserved, allowed, DropOnLimit>> /\ (Separate' <=> Separate)
          /\ pc = "bill" /\ AllBilled /\ left = passed
      BY <1>2, <2>2, Finished, SameBatch, Zenon DEF counters, config
    <3>2. /\ allowed[k] \in Nat /\ allowed[k] <= granted[k] + preserved[k]
          /\ denied[k] = 0 => Cardinality(Here(k)) = allowed[k]
          /\ denied[k] \in Nat /\ granted[k] + preserved[k] \in Nat
      <4>1. PICK n, c, kept \in Nat :
              /\ granted[k] \in Nat
              /\ kept <= granted[k] /\ granted[k] <= n /\ preserved[k] = c
              /\ Cardinality(Here(k)) = c + n /\ allowed[k] = c + kept /\ denied[k] = n - kept
        BY <1>2, <3>1, Books, Zenon
      <4>2. PICK g \in Nat : g = granted[k]
        BY <4>1, Zenon
      <4>3. /\ c + kept \in Nat /\ c + kept <= g + c /\ (n - kept = 0 => c + n = c + kept)
            /\ n - kept \in Nat /\ g + c \in Nat
        BY <4>1, <4>2
      <4>4. QED
        BY <4>1, <4>2, <4>3, Zenon
    <3>3. CASE left' = left /\ ~acts
      <4>1. denied[k] = 0
        BY <3>1, <3>2, <3>3 DEF acts
      <4>2. Here(k)' = Here(k)
        BY <1>2, <2>2, <3>3, HereAfter, Zenon
      <4>3. QED
        BY <3>1, <3>2, <4>1, <4>2, Zenon
    <3>4. CASE left' = left \ Drops
      <4>1. Here(k)' = Stays(k)
        BY <1>2, <2>2, <3>4, HereAfter, Zenon DEF Here, Stays
      <4>2. /\ Cardinality(Stays(k)) \in Nat /\ Cardinality(Stays(k)) <= allowed[k]
            /\ Separate => Cardinality(Stays(k)) = allowed[k]
        <5>1. CASE ByTrace
          BY <1>2, <3>1, <5>1, StaysWhole, Zenon
        <5>2. CASE ~ByTrace
          <6>1. Cardinality(Stays(k)) = allowed[k]
            BY <1>2, <3>1, <5>2, StaysOneByOne, Zenon
          <6>2. QED
            BY <3>2, <6>1
        <5>3. QED
          BY <5>1, <5>2, Zenon
      <4>3. Cardinality(Stays(k)) <= granted[k] + preserved[k]
        <5>1. \A x, y, z \in Nat : x <= y /\ y <= z => x <= z
          OBVIOUS
        <5>2. QED
          BY <3>2, <4>2, <5>1, Zenon
      <4>4. QED
        BY <3>1, <4>1, <4>2, <4>3, Zenon
    <3>5. QED
      BY <1>2, <2>2, <3>3, <3>4, Finished, Zenon
  <2>3. CASE ~Finish /\ ~UNCHANGED vars
    <3>1. CASE pc' \notin Ended
      BY <3>1, Zenon DEF PaidAndCounted, Ended
    <3>2. CASE left' = {} /\ \A k \in Keys : Blank(k)'
      <4>1. \A k \in Keys : Here(k)' = {}
        BY <3>2, Zenon DEF Here
      <4>2. QED
        <5>1. \A k \in Keys : granted'[k] = 0 /\ preserved'[k] = 0 /\ allowed'[k] = 0
          BY <3>2, Zenon DEF Blank
        <5>2. Cardinality({}) = 0
          BY FS_EmptySet, Zenon
        <5>3. QED
          BY <4>1, <5>1, <5>2 DEF PaidAndCounted
    <3>3. QED
      BY <1>2, <2>3, <3>1, <3>2, Ends, Zenon
  <2>4. QED
    BY <2>1, <2>2, <2>3, Zenon
<1>3. QED
  BY <1>1, <1>2, Invariance, PTL DEF Spec

\* preserve_errors keeps what it promises to, for every batch, however little is
\* granted.
THEOREM ErrorsComeThrough ==
  Spec => []ErrorsKept
<1>1. Init => ErrorsKept
  BY Zenon DEF Init, ErrorsKept, Ended
<1>2. ASSUME IInv, ErrorsKept, [Next]_vars
      PROVE  ErrorsKept'
  <2>1. CASE UNCHANGED vars
    <3>1. /\ UNCHANGED <<config, batch, passed>> /\ UNCHANGED <<pc, PreserveErrors, left>>
      BY <2>1, Zenon DEF vars, config
    <3>2. QED
      BY <1>2, <3>1, SameBatch, Zenon DEF ErrorsKept
  <2>2. CASE Finish
    <3>1. /\ UNCHANGED <<config, batch, passed>> /\ pc = "bill" /\ AllBilled /\ left = passed
          /\ PreserveErrors' = PreserveErrors
      BY <1>2, <2>2, Finished, Zenon DEF config
    <3> SUFFICES ASSUME PreserveErrors, batch.signal # "metrics", NEW i \in passed,
                        batch.items[i].error, OneKey(Unit(i))
                 PROVE  pc' = "forwarded" /\ Unit(i) \subseteq left'
      BY <3>1, SameBatch, Zenon DEF ErrorsKept
    <3>2. PICK k \in Keys : k = KeyOf(i)
      BY <1>2, KeysOK, Zenon DEF IInv, TypeOK
    <3>3. i \in Critical(k)
      BY <3>1, <3>2, Zenon DEF Critical, Here
    <3>4. allowed[k] # 0
      <4>1. PICK c, kept \in Nat : c = Cardinality(Critical(k)) /\ allowed[k] = c + kept
        BY <1>2, <3>1, Books, Zenon
      <4>2. IsFiniteSet(Critical(k))
        BY <1>2, TransitOK, ItemsFinite, Zenon
      <4>3. c # 0
        BY <3>3, <4>1, <4>2, FS_EmptySet, Zenon
      <4>4. QED
        BY <4>1, <4>3
    <3>5. pc' = "forwarded" /\ (left' = left \/ left' = left \ Drops)
      BY <1>2, <2>2, <3>4, Finished, Zenon
    <3>6. ASSUME NEW j \in Unit(i), j \in Drops
          PROVE  FALSE
      <4>1. CASE ByTrace
        <5>1. j \in passed /\ TraceOf(j) = TraceOf(i) /\ TraceOf(i) \in dropAll /\ Planned
          BY <1>2, <3>1, <3>6, <4>1, Zenon DEF Unit, Drops, IInv
        <5>2. PICK l \in billed, h \in Nat : TraceOf(i) \in planTraceDrops(l, h)
          BY <5>1, Zenon DEF Planned
        <5>3. PICK m \in Normal(l) : TraceOf(m) = TraceOf(i)
          BY <1>2, <5>2, TransitOK, PlanOfNormal, Zenon
        <5>4. m \in Unit(i) /\ i \in Unit(i) /\ KeyOf(m) = l
          BY <3>1, <4>1, <5>3, Zenon DEF Unit, Normal, Here
        <5>5. l = k
          BY <3>2, <5>4, Zenon DEF OneKey
        <5>6. QED
          BY <1>2, <3>3, <4>1, <5>2, <5>5, TransitOK, PlanOfNormal, Zenon
      <4>2. CASE ~ByTrace
        <5>1. j = i
          BY <3>6, <4>2, Zenon DEF Unit
        <5>2. PICK l \in Keys : i \in DropsOf(l)
          BY <3>6, <4>2, <5>1, Zenon DEF Drops
        <5>3. i \in Normal(l) /\ l = k
          BY <3>2, <5>2, Zenon DEF DropsOf, Normal, Here
        <5>4. QED
          BY <3>3, <5>3, Zenon DEF Normal
      <4>3. QED
        BY <4>1, <4>2, Zenon
    <3>7. Unit(i) \subseteq left
      BY <3>1, Zenon DEF Unit
    <3>8. QED
      BY <3>5, <3>6, <3>7, Zenon
  <2>3. CASE ~Finish /\ ~UNCHANGED vars
    BY <1>2, <2>3, Ends, Zenon DEF ErrorsKept
  <2>4. QED
    BY <2>1, <2>2, <2>3, Zenon
<1>3. QED
  BY <1>1, <1>2, Invariance, PTL DEF Spec

\* trace_id_aware never forwards a part of a trace, for every batch, and whatever
\* is granted to however many keys.
THEOREM NoPartialTrace ==
  Spec => []TracesWhole
<1>1. Init => TracesWhole
  BY Zenon DEF Init, TracesWhole
<1>2. ASSUME IInv, TracesWhole, [Next]_vars
      PROVE  TracesWhole'
  <2>1. CASE UNCHANGED vars
    <3>1. UNCHANGED <<config, batch, passed>> /\ UNCHANGED <<pc, left>>
      BY <2>1, Zenon DEF vars
    <3>2. QED
      BY <1>2, <3>1, SameBatch, Zenon DEF TracesWhole
  <2>2. CASE Finish
    <3> SUFFICES ASSUME ByTrace, pc' = "forwarded", NEW i \in left', NEW j \in Unit(i)
                 PROVE  j \in left'
      BY <1>2, <2>2, Finished, SameBatch, Zenon DEF TracesWhole
    <3>1. j \in passed /\ TraceOf(j) = TraceOf(i)
      BY Zenon DEF Unit
    <3>2. /\ left = passed /\ Drops = {l \in left : TraceOf(l) \in dropAll}
          /\ left' = left \/ left' = left \ Drops
      BY <1>2, <2>2, Finished, Zenon DEF Drops
    <3>3. QED
      BY <3>1, <3>2, Zenon
  <2>3. CASE ~Finish /\ ~UNCHANGED vars
    BY <1>2, <2>3, Ends, Zenon DEF TracesWhole, Ended
  <2>4. QED
    BY <2>1, <2>2, <2>3, Zenon
<1>3. QED
  BY <1>1, <1>2, Invariance, PTL DEF Spec

\* The limiter rejects what it would empty, for every batch whose traces lie
\* within a key each.
THEOREM NothingEmptyForwarded ==
  Spec => []NeverEmptied
<1>1. Init => NeverEmptied
  BY Zenon DEF Init, NeverEmptied
<1>2. ASSUME IInv, NeverEmptied, [Next]_vars
      PROVE  NeverEmptied'
  <2>1. CASE UNCHANGED vars
    <3>1. UNCHANGED <<config, batch, passed>> /\ UNCHANGED <<pc, left>>
      BY <2>1, Zenon DEF vars
    <3>2. QED
      BY <1>2, <3>1, SameBatch, Zenon DEF NeverEmptied
  <2>2. CASE Finish
    <3> SUFFICES ASSUME Separate, pc' = "forwarded", left' = {}
                 PROVE  passed' = {}
      BY <1>2, <2>2, Finished, SameBatch, Zenon DEF NeverEmptied
    <3>1. /\ left = passed /\ passed' = passed /\ pc = "bill" /\ AllBilled
      BY <1>2, <2>2, Finished, Zenon
    <3>2. CASE left' = left
      BY <3>1, <3>2, Zenon
    <3>3. CASE left' = left \ Drops /\ \E k \in Keys : allowed[k] # 0
      <4>1. PICK k \in Keys : allowed[k] # 0
        BY <3>3, Zenon
      <4>2. Cardinality(Stays(k)) = allowed[k]
        BY <1>2, <3>1, StaysOneByOne, StaysWhole, Zenon
      <4>3. Stays(k) = {} /\ Cardinality({}) = 0
        BY <3>3, FS_EmptySet, Zenon DEF Stays
      <4>4. QED
        BY <4>1, <4>2, <4>3, Zenon
    <3>4. QED
      BY <1>2, <2>2, <3>2, <3>3, Finished, Zenon
  <2>3. CASE ~Finish /\ ~UNCHANGED vars
    BY <1>2, <2>3, Ends, Zenon DEF NeverEmptied, Ended
  <2>4. QED
    BY <2>1, <2>2, <2>3, Zenon
<1>3. QED
  BY <1>1, <1>2, Invariance, PTL DEF Spec
=============================================================================
