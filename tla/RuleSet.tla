------------------------------ MODULE RuleSet ------------------------------
(***************************************************************************)
(* The filter rules of statefulfilterprocessor/rules.go: how the documents *)
(* of the Redis hash become a rule set, and what a rule set decides about  *)
(* one item (a span, a log record or a data point).                        *)
(*                                                                         *)
(* A rule id is a number, its place among all ids in the sorted order the  *)
(* code puts them in.  A document says whether it parses (json); the       *)
(* operand of a condition is the set of field values it selects, which     *)
(* covers equals, contains, prefix, suffix and regex, with and without     *)
(* ignore_case; `operand' is FALSE when it is missing or no valid regex.   *)
(* An item has a signal and a value for each of the fields it has, a field *)
(* being a pair <<source, key>>.                                           *)
(***************************************************************************)
EXTENDS Integers, FiniteSets

CONSTANT maxRules   \* max_rules; negative: unlimited

Signals == {"traces", "metrics", "logs"}
Sources == {"resource", "attribute", "name", "body", "severity", "scope"}
Ops == {"exists", "not_exists", "equals", "not_equals"}

Never == -1         \* a rule without expires_at
Unparsable == -2    \* an expires_at that is not RFC3339

\* The checks of compileCondition; op "" is "equals".
compileCondition(c) ==
  /\ c.source \in Sources
  /\ c.source \in {"resource", "attribute"} => c.key # ""
  /\ c.op \in Ops \cup {""}
  /\ c.op \in {"exists", "not_exists"} \/ c.operand

normalizeSignals(s) == IF s = {} THEN Signals ELSE s

Compiles(d) ==
  /\ d.json
  /\ ~d.enabled
       \/ /\ d.action \in {"", "drop", "keep"}
          /\ d.signals \subseteq Signals
          /\ d.conditions # {}
          /\ d.expiresAt # Unparsable
          /\ \A c \in d.conditions : compileCondition(c)

\* A document that compiles to a rule; a disabled one is no error, and no rule.
IsRule(d) == Compiles(d) /\ d.enabled

compile(id, d) ==
  [id |-> id, action |-> IF d.action = "" THEN "drop" ELSE d.action,
   signals |-> normalizeSignals(d.signals), conds |-> d.conditions,
   expiresAt |-> d.expiresAt]

----------------------------------------------------------------------------
Rules(docs) == {i \in DOMAIN docs : IsRule(docs[i])}

\* The ids the loop of buildRuleSet gets to before the cap ends it.
Reached(docs) ==
  {i \in DOMAIN docs :
     maxRules < 0 \/ Cardinality({j \in Rules(docs) : j < i}) < maxRules}

ReadsBody(r) == \E c \in r.conds : c.source = "body"

needsBodyOfDropRules(rules) ==
  \E r \in rules : "logs" \in r.signals /\ r.action = "drop" /\ ReadsBody(r)
needsBody(rules) == \E r \in rules : "logs" \in r.signals /\ ReadsBody(r)

emptyRuleSet ==
  [version |-> 0, rules |-> {}, total |-> 0, invalid |-> 0, needsBody |-> FALSE]

buildRuleSetCutsSilently(docs, version) ==
  LET reached == Reached(docs)
      loaded == Rules(docs) \cap reached
      rules == {compile(i, docs[i]) : i \in loaded}
  IN  [version |-> version, rules |-> rules, total |-> Cardinality(loaded),
       invalid |-> Cardinality({i \in reached : ~Compiles(docs[i])}),
       needsBody |-> needsBody(rules)]
\* Every document the cap cuts off counts as invalid, and with them every one
\* that was reached and is no rule.
buildRuleSet(docs, version) ==
  LET reached == Reached(docs)
      loaded == Rules(docs) \cap reached
      rules == {compile(i, docs[i]) : i \in loaded}
  IN  [version |-> version, rules |-> rules, total |-> Cardinality(loaded),
       invalid |-> Cardinality({i \in reached : ~Compiles(docs[i])})
                     + IF reached = DOMAIN docs THEN 0
                       ELSE Cardinality(DOMAIN docs) - Cardinality(loaded),
       needsBody |-> needsBody(rules)]

rulesFor(rs, signal) == {r \in rs.rules : signal \in r.signals}

----------------------------------------------------------------------------
\* The field a condition looks up; only two of the sources have keys.
lookup(c) ==
  <<c.source, IF c.source \in {"resource", "attribute"} THEN c.key ELSE "">>

\* eval: an absent field satisfies not_exists and nothing else.
eval(c, view) ==
  LET f == lookup(c)
      present == f \in DOMAIN view IN
  CASE c.op = "exists" -> present
    [] c.op = "not_exists" -> ~present
    [] c.op = "not_equals" -> present /\ view[f] \notin c.values
    [] OTHER -> present /\ view[f] \in c.values

matches(r, view, now) ==
  /\ r.expiresAt # Never => now <= r.expiresAt
  /\ \A c \in r.conds : eval(c, view)

inIdOrder(a, b) == a.id < b.id
\* a comes before b in the list of a signal.
sortKeepFirst(a, b) ==
  IF (a.action = "keep") = (b.action = "keep") THEN a.id < b.id
  ELSE a.action = "keep"

\* What the data path shows to the rules: bodies only if some log rule reads
\* them.
evalCtx(rs, item) ==
  [f \in {g \in DOMAIN item.fields : g[1] = "body" => rs.needsBody} |->
     item.fields[f]]

\* The rules that claim the item; match returns the first one in the list.
match(rs, item, now) ==
  LET claims == {r \in rulesFor(rs, item.signal) :
                   matches(r, evalCtx(rs, item), now)}
  IN  {r \in claims : \A s \in claims \ {r} : sortKeepFirst(r, s)}

shouldDrop(rs, item, now) == \E r \in match(rs, item, now) : r.action = "drop"

----------------------------------------------------------------------------
\* Document i is one of the first max_rules rules of the hash.
InEffect(docs, i) ==
  /\ i \in Rules(docs)
  /\ maxRules < 0 \/ Cardinality({j \in Rules(docs) : j <= i}) <= maxRules

\* What a hash of documents promises for an item, said without the order of
\* evaluation: dropped iff a drop rule among the first max_rules rules holds of
\* it, and no keep rule among them does.
Muted(docs, item, now) ==
  LET holds(i) == /\ item.signal \in normalizeSignals(docs[i].signals)
                  /\ docs[i].expiresAt = Never \/ docs[i].expiresAt >= now
                  /\ \A c \in docs[i].conditions : eval(c, item.fields)
      claimants == {i \in DOMAIN docs : InEffect(docs, i) /\ holds(i)}
  IN  claimants # {} /\ \A i \in claimants : docs[i].action # "keep"
=============================================================================
