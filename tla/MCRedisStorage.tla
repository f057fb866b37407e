--------------------------- MODULE MCRedisStorage ---------------------------
(* Two replicas, one goroutine each (which is also the replica's name), one *)
(* key and the global bucket.                                               *)
EXTENDS RedisStorage, TLC

CONSTANTS r1, r2, k

MCReplica == (r1 :> r1) @@ (r2 :> r2)
MCLimit == (k :> 1) @@ (globalKey :> 2)
NoSkew == (r1 :> 0) @@ (r2 :> 0)
Symmetry == Permutations({r1, r2})
=============================================================================
