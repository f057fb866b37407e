---------------------------- MODULE LimiterCalls ----------------------------
(***************************************************************************)
(* The control flow of AllowUpToNCtx and AllowNCtx (ratelimiter.go) as a   *)
(* function of the locals of a call: which Storage call comes next, on     *)
(* which bucket and for how many items.                                    *)
(*                                                                         *)
(* A call c asks for c.n items of c.key; c.whole distinguishes AllowNCtx   *)
(* (all or nothing) from AllowUpToNCtx.                                    *)
(***************************************************************************)
EXTENDS Integers

Labels == {"idle", "global", "key", "surplus", "undoKey", "undoGlobal"}

NewCall(k, n, whole) ==
  [key |-> k, n |-> n, whole |-> whole, globalGranted |-> n, keyGranted |-> 0]

FirstLabel(hasGlobal) == IF hasGlobal THEN "global" ELSE "key"

AfterGrantKeepsPart(c) == "idle"
\* The tail of AllowNCtx: where a call goes once keyGranted is known.
AfterGrant(c) ==
  IF c.whole /\ 0 < c.keyGranted /\ c.keyGranted < c.n THEN "undoKey" ELSE "idle"

\* What AllowNCtx gives back because the batch is denied as a whole.
Undone(c) == IF c.whole /\ c.keyGranted < c.n THEN c.keyGranted ELSE 0

\* What is admitted once keyGranted is known.
Admitted(c) == c.keyGranted - Undone(c)

AfterKeyKeepsSurplus(hasGlobal, c) == AfterGrant(c)
\* The Storage call that follows the grant of the key's bucket.
AfterKey(hasGlobal, c) ==
  IF hasGlobal /\ c.keyGranted < c.globalGranted THEN "surplus" ELSE AfterGrant(c)

AfterUndoKeyEnds(hasGlobal) == "idle"
\* The Storage call that follows the refund of the key's bucket.
AfterUndoKey(hasGlobal) == IF hasGlobal THEN "undoGlobal" ELSE "idle"
=============================================================================
