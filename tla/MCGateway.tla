----------------------------- MODULE MCGateway -----------------------------
(* Batches of up to MaxItems items (two when the key is a header) in up to  *)
(* two resources, with a key or without, up to renaming of traces; items    *)
(* that match no rule, a drop rule, or a drop rule and a keep rule.         *)
EXTENDS Gateway, TLC

CONSTANTS MaxItems, a, t, u

MCKeys == {a, default}

Cond(source, op, values) ==
  [source |-> source, key |-> "", op |-> op, operand |-> values # {},
   values |-> values]

Doc(action, signals, conditions, expiresAt) ==
  [json |-> TRUE, enabled |-> TRUE, action |-> action, signals |-> signals,
   conditions |-> conditions, expiresAt |-> expiresAt]

DropNoisy == Doc("", {}, {Cond("scope", "", {"noisy", "vip"})}, Never)
KeepVip == Doc("keep", {"traces", "metrics"}, {Cond("scope", "equals", {"vip"})}, 9)
KeepBody == Doc("keep", {"logs"}, {Cond("body", "exists", {})}, Never)
Expired == [DropNoisy EXCEPT !.expiresAt = 1]
Refused == Doc("", {}, {}, Never)
Disabled == [DropNoisy EXCEPT !.enabled = FALSE]

\* No rules; drop rules before the exceptions; and, under max_rules = 3, one
\* where the last drop rule is cut off behind three others.
MCHashes ==
  { <<>>,
    (1 :> DropNoisy) @@ (2 :> KeepVip) @@ (3 :> KeepBody),
    (1 :> Refused) @@ (2 :> Expired) @@ (3 :> KeepVip) @@ (4 :> Disabled)
      @@ (5 :> KeepBody) @@ (6 :> DropNoisy) }

Quiet == <<"scope", "">> :> "quiet"
Noisy == <<"scope", "">> :> "noisy"
Vip(signal) ==
  (<<"scope", "">> :> "vip") @@ (IF signal = "logs" THEN <<"body", "">> :> "vip" ELSE <<>>)

Resources == {<<a>>, <<a, a>>, <<a, Missing>>}

\* Traces matter to spans only, errors to spans and logs; the first span is
\* of trace t.
Item(signal, i, fields) ==
  [trace : IF signal = "traces" /\ i > 1 THEN {t, u} ELSE {t},
   error : IF signal = "metrics" THEN {FALSE} ELSE BOOLEAN,
   fields : fields]

\* Exceptions, logs and data points are tried in batches of up to two items; of
\* three spans the first is not filtered.
ItemSeqs(signal, max) ==
  LET all == {Quiet, Noisy, Vip(signal)}
      two == {Quiet, Noisy} IN
  { <<>> } \cup {<<x>> : x \in Item(signal, 1, all)}
    \cup {<<x, y>> : x \in Item(signal, 1, all), y \in Item(signal, 2, all)}
    \cup (IF max < 3 \/ signal # "traces" THEN {}
          ELSE {<<x, y, z>> : x \in Item(signal, 1, {Quiet}), y \in Item(signal, 2, two),
                              z \in Item(signal, 2, two)})

\* The first `cut' items are in the first resource, the others in the last.
Batch(signal, attrs, s, cut) ==
  [signal |-> signal, attrs |-> attrs, header |-> IF Len(attrs) = 1 THEN Missing ELSE a,
   items |-> [i \in DOMAIN s |->
     [res |-> IF i <= cut THEN 1 ELSE Len(attrs), trace |-> s[i].trace,
      error |-> s[i].error, fields |-> s[i].fields]]]

MCBatches(limitType) ==
  LET max == IF limitType = "header" THEN 2 ELSE MaxItems IN
  UNION {{Batch(signal, attrs, s, cut) :
            attrs \in Resources, s \in ItemSeqs(signal, max), cut \in 0 .. max} :
         signal \in Signals}
    \cup {Batch(signal, <<>>, <<>>, 0) : signal \in Signals}
=============================================================================
