------------------------------ MODULE Metrics ------------------------------
(***************************************************************************)
(* The metrics registry, internal/metrics/metrics.go: what an observation  *)
(* does to its series.  The registry's lock makes every observation and    *)
(* every scrape one step, so a scrape reads the registry as it is between  *)
(* two observations.                                                       *)
(*                                                                         *)
(* Of an endpoint's series there are the gauge up, one that stands for the *)
(* three gauges set from a score (head, lag in blocks and in seconds), and *)
(* the counter of polls, which tells successes from failures.              *)
(***************************************************************************)
EXTENDS Integers, GoMap

Series(Lags) ==
  [up : {0, 1}, lag : Lags, requests : [{"ok", "failed"} -> Nat]]

\* forEndpoint: a series begins with its first observation.
NewSeries == [up |-> 0, lag |-> 0, requests |-> [class \in {"ok", "failed"} |-> 0]]

ForEndpoint(registry, e) ==
  IF e \in DOMAIN registry THEN registry[e] ELSE NewSeries

\* The gauges of an endpoint that fails keep the values of its last score.
ObserveLagOfFailures(registry, e, healthy, lag) ==
  LET m == ForEndpoint(registry, e)
      class == IF healthy THEN "ok" ELSE "failed"
  IN  Put(registry, e, [up |-> IF healthy THEN 1 ELSE 0,
                        lag |-> lag,
                        requests |-> [m.requests EXCEPT ![class] = @ + 1]])

ObserveLag(registry, e, healthy, lag) ==
  LET m == ForEndpoint(registry, e)
      class == IF healthy THEN "ok" ELSE "failed"
  IN  Put(registry, e, [up |-> IF healthy THEN 1 ELSE 0,
                        lag |-> IF healthy THEN lag ELSE m.lag,
                        requests |-> [m.requests EXCEPT ![class] = @ + 1]])

ObserveDivergence(divergences, chain) ==
  Put(divergences, chain,
      IF chain \in DOMAIN divergences THEN divergences[chain] + 1 ELSE 1)

=============================================================================
