----------------------------- MODULE MCSenders -----------------------------
(* Two clients; a second is one tick and a minute four, the delay is clamped *)
(* to half a minute.                                                         *)
EXTENDS Senders, TLC

CONSTANTS k1, k2, c1, c2

\* No limits, no labels, throttling.
Base ==
  [requestsPerSecond |-> 0, requestsPerMinute |-> 0,
   defaultLimit |-> 0, defaultLimitPeriod |-> second,
   globalRequestsPerSecond |-> 0, globalRequestsPerMinute |-> 0,
   num |-> 0, den |-> 2,
   specificLimits |-> [k \in Keys |-> [requestsPerSecond |-> 0,
                                       requestsPerMinute |-> 0]],
   dropOnLimit |-> TRUE, rejectionMode |-> "throttle",
   keyLabelOn |-> {"denied", "preserved"}, hasList |-> FALSE, list |-> {},
   maxMetricKeys |-> 1]

MCConfigs ==
  { \* four per minute and key
    [Base EXCEPT !.requestsPerMinute = 4],
    \* a global budget of four per minute, half of it for a key at most; k1
    \* asks for two per second
    [Base EXCEPT !.globalRequestsPerMinute = 4, !.num = 1,
                 !.specificLimits[k1].requestsPerSecond = 2,
                 !.keyLabelOn = {"received", "allowed"}],
    \* only a global budget
    [Base EXCEPT !.globalRequestsPerSecond = 2, !.hasList = TRUE, !.list = {k1}],
    \* a share of less than one item
    [Base EXCEPT !.globalRequestsPerMinute = 1, !.num = 1,
                 !.rejectionMode = "permanent", !.maxMetricKeys = -1],
    \* a default limit that is only monitored
    [Base EXCEPT !.defaultLimit = 2, !.defaultLimitPeriod = minute,
                 !.dropOnLimit = FALSE] }

Batch(k, kind) == [key |-> k, n |-> 2, kind |-> kind]
Load(a, b) == [c \in Clients |-> IF c = c1 THEN a ELSE b]

\* Traces, spans and metrics of k1, metrics of k2: every pair of loads, in one
\* of its two orders.
MCLoads ==
  { Load(Batch(k1, "spans"), Batch(k1, "spans")),
    Load(Batch(k1, "spans"), Batch(k1, "metrics")),
    Load(Batch(k1, "spans"), Batch(k1, "trace")),
    Load(Batch(k1, "spans"), Batch(k2, "metrics")),
    Load(Batch(k1, "metrics"), Batch(k1, "metrics")),
    Load(Batch(k1, "metrics"), Batch(k1, "trace")),
    Load(Batch(k1, "metrics"), Batch(k2, "metrics")),
    Load(Batch(k1, "trace"), Batch(k1, "trace")),
    Load(Batch(k1, "trace"), Batch(k2, "metrics")),
    Load(Batch(k2, "metrics"), Batch(k2, "metrics")) }

\* Configurations that differ from c in the budgets, the ratio and the limits
\* of k1.
MCVariants(c) ==
  {[c EXCEPT !.globalRequestsPerSecond = gs, !.globalRequestsPerMinute = gm,
             !.num = ratio[1], !.den = ratio[2],
             !.specificLimits[k1] = [requestsPerSecond |-> s, requestsPerMinute |-> m]] :
     gs \in {0, 1, 5}, gm \in {0, 1, 7, 30}, s \in {0, 1, 3}, m \in {0, 5, 13},
     ratio \in {<<0, 1>>, <<1, 1>>, <<1, 2>>, <<2, 3>>}}

\* One client that sends traces of two spans, at two spans per minute.
TwoPerMinute == {[Base EXCEPT !.requestsPerMinute = 2]}
TraceLoad == {[c \in Clients |-> Batch(k1, "trace")]}
=============================================================================
