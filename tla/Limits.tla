------------------------------- MODULE Limits -------------------------------
(***************************************************************************)
(* Which limit a key gets: GetLimit, GlobalLimit and capToShare of         *)
(* config.go.  A limit is a number of items per period.                    *)
(*                                                                         *)
(* MaxShareRatio is the fraction num / den.  The code computes shares in   *)
(* float64 and truncates; here they are exact fractions, truncated by      *)
(* \div, and comparisons are multiplied out.                               *)
(***************************************************************************)
EXTENDS Integers

CONSTANTS second, minute   \* the two periods, in ticks

ASSUME Periods == second \in Nat \ {0} /\ minute \in Nat \ {0}

Lim(limit, period) == [limit |-> limit, period |-> period]
NoLimit == Lim(0, 0)

\* The part of a Config that limits depend on.  Validate does not rule out
\* negative numbers; GetLimit skips them.
IsConfig(cfg, Keys) ==
  /\ {cfg.requestsPerSecond, cfg.requestsPerMinute, cfg.defaultLimit,
      cfg.globalRequestsPerSecond, cfg.globalRequestsPerMinute} \subseteq Int
  /\ cfg.defaultLimitPeriod \in {second, minute} /\ cfg.num \in Nat /\ cfg.den \in Nat \ {0}
  /\ \A k \in Keys : {cfg.specificLimits[k].requestsPerSecond,
                      cfg.specificLimits[k].requestsPerMinute} \subseteq Int

\* The first limit if there is one, else the second.
OrElse(a, b) == IF a.limit > 0 THEN a ELSE b

GlobalLimit(cfg) ==
  OrElse(Lim(cfg.globalRequestsPerSecond, second),
         OrElse(Lim(cfg.globalRequestsPerMinute, minute), NoLimit))

AtLeastOne(n) == IF n < 1 THEN 1 ELSE n

\* There is a share to cap keys at.
HasShare(cfg) == cfg.num > 0 /\ GlobalLimit(cfg).limit > 0

\* The share is at least that much: keyRPS <= capRPS.
WithinShare(cfg, lim) ==
  lim.limit * (GlobalLimit(cfg).period * cfg.den)
    <= GlobalLimit(cfg).limit * cfg.num * lim.period

\* The share in items per `period', rounded down, but not to zero.
ShareIn(cfg, period) ==
  AtLeastOne((GlobalLimit(cfg).limit * cfg.num * period)
               \div (GlobalLimit(cfg).period * cfg.den))

capToShareUncapped(cfg, lim) == lim
\* A limit beyond the share is cut to the share, in the limit's own period.
capToShare(cfg, lim) ==
  IF ~HasShare(cfg) \/ WithinShare(cfg, lim) THEN lim
  ELSE Lim(ShareIn(cfg, lim.period), lim.period)

\* What a key gets from a share: share of the global budget, in its period.
share(cfg) ==
  IF HasShare(cfg)
  THEN Lim(AtLeastOne((GlobalLimit(cfg).limit * cfg.num) \div cfg.den),
           GlobalLimit(cfg).period)
  ELSE NoLimit

\* The limits of a key in order of precedence.
GetLimit(cfg, key) ==
  OrElse(capToShare(cfg, Lim(cfg.specificLimits[key].requestsPerSecond, second)),
  OrElse(capToShare(cfg, Lim(cfg.specificLimits[key].requestsPerMinute, minute)),
  OrElse(share(cfg),
  OrElse(capToShare(cfg, Lim(cfg.requestsPerSecond, second)),
  OrElse(capToShare(cfg, Lim(cfg.requestsPerMinute, minute)),
  OrElse(capToShare(cfg, Lim(cfg.defaultLimit, cfg.defaultLimitPeriod)),
  OrElse(GlobalLimit(cfg), Lim(100, second))))))))

\* No key is muted, and no key gets more than max_share_ratio of the global
\* budget "even if SpecificLimits says otherwise" -- except that a share of
\* less than one item per period still is one item.
FairShare(cfg, Keys) ==
  \A k \in Keys :
    LET lim == GetLimit(cfg, k) IN
    /\ lim.limit >= 1 /\ lim.period \in {second, minute}
    /\ HasShare(cfg) => WithinShare(cfg, lim) \/ lim.limit = 1
=============================================================================
