--------------------------- MODULE MCRateLimiter ---------------------------
EXTENDS RateLimiter, TLC

CONSTANTS p1, p2, k1, k2, g

\* Two keys whose limits add up to more than the global one, so that either
\* bucket can be the scarce one.
MCLimit == (k1 :> 2) @@ (k2 :> 1) @@ (g :> 2)

Symmetry == Permutations(Procs)
=============================================================================
