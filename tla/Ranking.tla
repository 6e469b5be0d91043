------------------------------ MODULE Ranking ------------------------------
(***************************************************************************)
(* What ERPC in internal/report/erpc.go derives from the endpoint table:   *)
(* the order of the upstreams of a chain, their timeout, retries and       *)
(* hedge, and the threshold it suggests to alert at.  Durations are in     *)
(* units of 10 ms.                                                         *)
(***************************************************************************)
EXTENDS Statistics

CONSTANT ChainOf   \* the chain of each endpoint

ASSUME RankingAssumption == DOMAIN ChainOf = Endpoint

Second == 100
Ms50 == 5
Ms100 == 10

\* The share s is at least a / b; it is more than the share t.
AtLeast(s, a, b) == s[1] * b >= a * s[2]
MoreThan(s, t) == s[1] * t[2] > t[1] * s[2]

BetterByLatency(s, t) ==
  \/ s.latencyP99 < t.latencyP99
  \/ s.latencyP99 = t.latencyP99 /\ s.lagBlocksP99 < t.lagBlocksP99

Better(s, t) ==
  \/ s.lagBlocksP99 < t.lagBlocksP99
  \/ /\ s.lagBlocksP99 = t.lagBlocksP99
     /\ \/ MoreThan(s.availability, t.availability)
        \/ /\ ~MoreThan(t.availability, s.availability)
           /\ s.latencyP99 < t.latencyP99

\* The endpoints of chain c, the best first, by the table rows.
Ranked(rows, c) ==
  LET ups == {e \in DOMAIN rows : ChainOf[e] = c}
  IN  StableOrder([e \in ups |-> {d \in ups : Better(rows[d], rows[e])}])

RoundUp(d, unit) == ((d + unit - 1) \div unit) * unit

TimeoutOnce(row) ==
  RoundUp(Max({Second, Min({30 * Second, row.latencyP50})}), Ms100)
TimeoutFor(row) ==
  RoundUp(Max({Second, Min({30 * Second, 2 * row.latencyP99})}), Ms100)

RetriesFor(row) ==
  IF AtLeast(row.availability, 999, 1000) THEN 1
  ELSE IF AtLeast(row.availability, 99, 100) THEN 2 ELSE 3

NoHedge == -1
HedgeFor(row) ==
  IF row.latencyP50 <= 0 \/ row.latencyP99 < 2 * row.latencyP50 THEN NoHedge
  ELSE RoundUp(row.latencyP90, Ms50)

Upstream(row, e) ==
  [endpoint |-> e, timeout |-> TimeoutFor(row), retries |-> RetriesFor(row),
   hedge |-> HedgeFor(row)]

Upstreams(rows) ==
  [c \in {ChainOf[e] : e \in DOMAIN rows} |->
     LET order == Ranked(rows, c)
     IN  [i \in DOMAIN order |-> Upstream(rows[order[i]], order[i])]]

SuggestedLagAlertByMedian(rows) ==
  Max({2} \cup {rows[e].lagBlocksP50 + 1 : e \in DOMAIN rows})
SuggestedLagAlert(rows) ==
  Max({2} \cup {rows[e].lagBlocksP99 + 1 : e \in DOMAIN rows})

=============================================================================
