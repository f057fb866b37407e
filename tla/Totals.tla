------------------------------- MODULE Totals -------------------------------
(* Sums over finite sets, in a form that both TLC and the provers handle.  *)
EXTENDS Integers, FiniteSets

\* A stack of f[x] counters for every x in the domain of f, and their number:
\* the sum of f, for f a function from a finite set to the naturals.
Counters(f) == UNION {{x} \X (1 .. f[x]) : x \in DOMAIN f}
Total(f) == Cardinality(Counters(f))
=============================================================================
