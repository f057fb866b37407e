------------------------------- MODULE Budget -------------------------------
(***************************************************************************)
(* What a rate limiter with a budget per key and a global budget promises, *)
(* without goroutines, calls in progress or refill clocks.  Every budget   *)
(* has tokens that are free and tokens that are lent to batches whose fate *)
(* is open.  Items are admitted against free tokens of their key and, if   *)
(* there is a global budget, against tokens it has lent before: both pay,  *)
(* in one step.  What is lent and not spent comes back; a budget holds no  *)
(* more than its capacity.                                                 *)
(***************************************************************************)
EXTENDS TokenBucket

CONSTANTS Keys, globalKey, Limit, Period

VARIABLES
  hasGlobal,   \* there is a global budget
  free,        \* budget -> units (Period of them are a token) at hand
  lent,        \* budget -> tokens lent
  watched,     \* an observer counts ...
  spent        \* ... the items admitted against each budget

bvars == <<hasGlobal, free, lent, watched, spent>>

Budgets == Keys \cup {globalKey}
Capacity(b) == Limit[b] * Period

BInit ==
  /\ hasGlobal \in BOOLEAN
  /\ free = [b \in Budgets |-> Capacity(b)]
  /\ lent = [b \in Budgets |-> 0]
  /\ watched = FALSE
  /\ spent = [b \in Budgets |-> 0]

\* A batch is lent n tokens.
Lend(b, n) ==
  /\ free' = [free EXCEPT ![b] = @ - n * Period]
  /\ lent' = [lent EXCEPT ![b] = @ + n]
  /\ UNCHANGED <<hasGlobal, watched, spent>>

\* The budgets that items of key k are charged to.
Payers(k) == {k} \cup (IF hasGlobal THEN {globalKey} ELSE {})

\* n items of key k are admitted.
Admit(k, n) ==
  /\ hasGlobal => n <= lent[globalKey]
  /\ free' = [free EXCEPT ![k] = @ - n * Period]
  /\ lent' = IF hasGlobal THEN [lent EXCEPT ![globalKey] = @ - n] ELSE lent
  /\ spent' = [b \in Budgets |->
                 spent[b] + IF watched /\ b \in Payers(k) THEN n ELSE 0]
  /\ UNCHANGED <<hasGlobal, watched>>

\* n lent tokens come back; those that find the budget full are void.
Return(b, n) ==
  /\ lent' = [lent EXCEPT ![b] = @ - n]
  /\ free' = [free EXCEPT ![b] = AtMost(@ + n * Period, Capacity(b))]
  /\ UNCHANGED <<hasGlobal, watched, spent>>

\* Time passes.
Refill ==
  /\ free' = [b \in Budgets |-> AtMost(free[b] + Limit[b], Capacity(b))]
  /\ UNCHANGED <<hasGlobal, lent, watched, spent>>

Watch ==
  /\ ~watched /\ watched' = TRUE
  /\ UNCHANGED <<hasGlobal, free, lent, spent>>

BNext ==
  \/ \E b \in Budgets : \E n \in 1 .. free[b] \div Period : Lend(b, n)
  \/ \E k \in Keys : \E n \in 1 .. free[k] \div Period : Admit(k, n)
  \/ \E b \in Budgets : \E n \in 1 .. lent[b] : Return(b, n)
  \/ Refill \/ Watch

BSpec == BInit /\ [][BNext]_bvars
=============================================================================
