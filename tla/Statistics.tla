----------------------------- MODULE Statistics -----------------------------
(***************************************************************************)
(* The rows of the endpoint table (internal/analysis/stats.go): scored     *)
(* samples folded into one accumulator per endpoint, and the percentiles,  *)
(* shares and extremes taken from it.  A share is a pair of counts, its    *)
(* numerator and its denominator; a percentile is asked for in percent.    *)
(***************************************************************************)
EXTENDS Incidents, GoMap

VARIABLES byEndpoint,   \* the accumulators, by endpoint
          added         \* as many samples of the evidence were added

statisticsVars == <<byEndpoint, added>>

\* Percentile: the nearest rank, in a copy that is sorted.
RankRoundedDown(percent, n) == Max({1, Min({n, (percent * n) \div 100})})
Rank(percent, n) == Max({1, Min({n, (percent * n + 99) \div 100})})

Ascending(a, b) == a < b
Percentile(values, percent) ==
  IF values = <<>> THEN 0
  ELSE StableSort(values, Ascending)[Rank(percent, Len(values))]

-----------------------------------------------------------------------------
(* Aggregator.Add.                                                         *)

NewAccumulator(p) ==
  [samples |-> 0, ok |-> 0, errors |-> [c \in ErrClass |-> 0],
   latencies |-> <<>>, lagBlocks |-> <<>>, lagSeconds |-> <<>>,
   latencyMax |-> 0, lagBlocksMax |-> 0, lagSecondsMax |-> 0,
   leaders |-> 0, stale |-> 0, first |-> p.at, last |-> p.at]

\* Every poll counts as a sample and, if it took any time, as a latency.
Polled(acc, p) ==
  [acc EXCEPT !.samples = @ + 1,
              !.first = Min({@, p.at}),
              !.last = Max({@, p.at}),
              !.latencies = IF p.latency > 0 THEN Append(@, p.latency) ELSE @,
              !.latencyMax = Max({@, p.latency})]

\* The flag Leader as ComputeLag sets it: nobody leads a chain without a block.
Leads(p) == p.best > 0 /\ p.lag[1] = 0
StaleAbove(p) == rules.blocks > 0 /\ p.lag[1] > rules.blocks
Stale(p) == rules.blocks > 0 /\ p.lag[1] >= rules.blocks
Count(n, holds) == n + IF holds THEN 1 ELSE 0

\* Only a healthy poll has a lag.
Answered(acc, p) ==
  [acc EXCEPT !.ok = @ + 1,
              !.lagBlocks = Append(@, p.lag[1]),
              !.lagSeconds = Append(@, p.lag[2]),
              !.lagBlocksMax = Max({@, p.lag[1]}),
              !.lagSecondsMax = Max({@, p.lag[2]}),
              !.leaders = Count(@, Leads(p)),
              !.stale = Count(@, Stale(p))]

AddWithoutReturn(acc, p) ==
  LET polled == Polled(acc, p)
  IN  Answered(IF p.class = OK THEN polled ELSE [polled EXCEPT !.errors[p.class] = @ + 1], p)

Add(acc, p) ==
  IF p.class = OK THEN Answered(Polled(acc, p), p)
  ELSE [Polled(acc, p) EXCEPT !.errors[p.class] = @ + 1]

StatisticsInit == byEndpoint = EmptyMap /\ added = 0

\* The next sample of the evidence is added; an endpoint is new at its first.
AddNext ==
  /\ added < Len(points)
  /\ LET p == points[added + 1]
         e == p.endpoint
         acc == IF e \in DOMAIN byEndpoint THEN byEndpoint[e] ELSE NewAccumulator(p)
     IN  byEndpoint' = Put(byEndpoint, e, Add(acc, p))
  /\ added' = added + 1

\* Summaries: the row of an accumulator.
SummaryOf(acc) ==
  [samples |-> acc.samples, ok |-> acc.ok, errors |-> acc.errors,
   availability |-> <<acc.ok, acc.samples>>,
   leaderShare |-> <<acc.leaders, acc.ok>>, staleShare |-> <<acc.stale, acc.ok>>,
   latencyP50 |-> Percentile(acc.latencies, 50),
   latencyP90 |-> Percentile(acc.latencies, 90),
   latencyP99 |-> Percentile(acc.latencies, 99), latencyMax |-> acc.latencyMax,
   lagBlocksP50 |-> Percentile(acc.lagBlocks, 50),
   lagBlocksP99 |-> Percentile(acc.lagBlocks, 99), lagBlocksMax |-> acc.lagBlocksMax,
   lagSecondsP50 |-> Percentile(acc.lagSeconds, 50),
   lagSecondsP99 |-> Percentile(acc.lagSeconds, 99), lagSecondsMax |-> acc.lagSecondsMax,
   first |-> acc.first, last |-> acc.last]

\* One row per endpoint that has a sample.
Summaries == [e \in DOMAIN byEndpoint |-> SummaryOf(byEndpoint[e])]

=============================================================================
