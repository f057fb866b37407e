---------------------------- MODULE MCRuleStore ----------------------------
(* Under two ids, a document that is a rule (disabled, it is none) and one  *)
(* that does not parse.                                                     *)
EXTENDS RuleStore

Rule ==
  [json |-> TRUE, enabled |-> TRUE, action |-> "", signals |-> {},
   conditions |-> {[source |-> "name", key |-> "", op |-> "exists",
                    operand |-> FALSE, values |-> {}]},
   expiresAt |-> Never]

MCDocs == {Rule, [Rule EXCEPT !.json = FALSE]}
=============================================================================
