------------------------------- MODULE Audit -------------------------------
(***************************************************************************)
(* The audit made from a log: cmdReport in main.go, and Analyse and        *)
(* writeFindings in internal/report/report.go.  The evidence is folded     *)
(* into the endpoint table, scanned for incidents, merged with the         *)
(* divergences on record, and said again as findings and as an upstream    *)
(* configuration.                                                          *)
(***************************************************************************)
EXTENDS Ranking

CONSTANTS Divergences,  \* the sequences of divergence events a log may hold:
                        \* [at, minority: the endpoints that are given a row]
          Flags         \* what may be asked for: [blocks, seconds, samples]

ASSUME AuditAssumption ==
  /\ Divergences \subseteq Seq([at : Nat, minority : Seq(Endpoint)])
  /\ Flags \subseteq [blocks : Nat, seconds : Nat, samples : Int]

VARIABLES divergences,  \* the divergence events of the evidence
          report        \* the audit, NoReport until it is made

auditVars == <<incidentVars, statisticsVars, divergences, report>>

NoReport == <<>>

\* Options.applyDefaults: without a threshold, 3 blocks; without a length, 2.
WithDefaults(r) ==
  [r EXCEPT !.blocks = IF r.blocks = 0 /\ r.seconds = 0 THEN 3 ELSE @,
            !.samples = IF @ = 0 THEN 2 ELSE @]

AuditInit ==
  /\ StatisticsInit
  /\ \E flags \in Flags : IncidentsInit(WithDefaults(flags))
  /\ divergences \in Divergences
  /\ report = NoReport

\* DivergenceIncidents: a row for every endpoint an event blames, the j-th of
\* the i-th event, in this order.
Blamed == UNION {{<<i, j>> : j \in DOMAIN divergences[i].minority} : i \in DOMAIN divergences}

DivergenceRow(b) ==
  LET event == divergences[b[1]]
  IN  [kind |-> "divergence", endpoint |-> event.minority[b[2]], start |-> event.at,
       end |-> event.at, samples |-> 1, blocks |-> 0, seconds |-> 0,
       detail |-> <<>>, polls |-> {}]

DivergenceRows ==
  LET order == Arranged([b \in Blamed |-> {a \in Blamed :
                 a[1] < b[1] \/ (a[1] = b[1] /\ a[2] < b[2])}])
  IN  [n \in DOMAIN order |-> DivergenceRow(order[n])]

\* The lines of writeFindings, by what they say and of whom: of the rows of
\* the endpoint table and of the divergences, or, without a row, that there
\* are no samples and nothing else.
NoSamples == <<"noSamples", 0>>

LinesOf(rows) ==
  {<<"availability", e>> : e \in {x \in DOMAIN rows : ~AtLeast(rows[x].availability, 99, 100)}}
    \cup {<<"stale", e>> : e \in {x \in DOMAIN rows : rows[x].staleShare[1] > 0}}
    \cup {<<"neverLed", e>> : e \in {x \in DOMAIN rows :
             rows[x].leaderShare[1] = 0 /\ rows[x].ok > 0}}
    \cup {<<"divergence", i>> : i \in DOMAIN divergences}

Findings(rows) == IF DOMAIN rows = {} THEN {NoSamples} ELSE LinesOf(rows)

Merged == StableSort(out \o DivergenceRows, Before)

\* Analyse: all samples are added before the incidents are looked for.
AddSample == AddNext /\ UNCHANGED <<incidentVars, divergences, report>>

DetectIncidents ==
  /\ added = Len(points)
  /\ IncidentsNext
  /\ UNCHANGED <<statisticsVars, divergences, report>>

\* The rest of it, once DetectLagIncidents has returned, and ERPC.
Analyse ==
  /\ Done /\ report = NoReport
  /\ report' = LET rows == Summaries
               IN  [summaries |-> rows, incidents |-> Merged,
                    findings |-> Findings(rows), upstreams |-> Upstreams(rows),
                    lagAlert |-> SuggestedLagAlert(rows)]
  /\ UNCHANGED <<incidentVars, statisticsVars, divergences>>

AuditNext == AddSample \/ DetectIncidents \/ Analyse

AuditSpec == AuditInit /\ [][AuditNext]_auditVars

-----------------------------------------------------------------------------
Made == report # NoReport

\* The endpoints with a sample; the samples of e that were answered, that
\* failed and that took any time; and the readings of a sample.
Measured == {points[i].endpoint : i \in DOMAIN points}
HealthyOf(e) == {i \in Of(e) : points[i].class = OK}
FailedOf(e) == Of(e) \ HealthyOf(e)
TimedOf(e) == {i \in Of(e) : points[i].latency > 0}
LagAt(i) == points[i].lag[1]

Latencies == [i \in DOMAIN points |-> points[i].latency]
LagBlocks == [i \in DOMAIN points |-> points[i].lag[1]]
LagSeconds == [i \in DOMAIN points |-> points[i].lag[2]]

(***************************************************************************)
(* A percentile is a value that was measured: the least one that at least  *)
(* so many percent of the measured values do not exceed.  Latencies are    *)
(* those of all polls, lags those of the healthy ones.                     *)
(***************************************************************************)
IsPercentile(v, percent, S, reading) ==
  IF S = {} THEN v = 0
  ELSE /\ \E i \in S : reading[i] = v
       /\ 100 * Cardinality({i \in S : reading[i] <= v}) >= percent * Cardinality(S)
       /\ 100 * Cardinality({i \in S : reading[i] < v}) < percent * Cardinality(S)

PercentilesAreNearestRank ==
  Made => \A e \in Measured :
    LET row == report.summaries[e]
    IN  /\ IsPercentile(row.latencyP50, 50, TimedOf(e), Latencies)
        /\ IsPercentile(row.latencyP90, 90, TimedOf(e), Latencies)
        /\ IsPercentile(row.latencyP99, 99, TimedOf(e), Latencies)
        /\ IsPercentile(row.lagBlocksP50, 50, HealthyOf(e), LagBlocks)
        /\ IsPercentile(row.lagBlocksP99, 99, HealthyOf(e), LagBlocks)
        /\ IsPercentile(row.lagSecondsP50, 50, HealthyOf(e), LagSeconds)
        /\ IsPercentile(row.lagSecondsP99, 99, HealthyOf(e), LagSeconds)

(***************************************************************************)
(* The endpoint table and the incident table, made by two passes over the  *)
(* evidence, tell one story: the row of an endpoint counts its polls, the  *)
(* answered ones and those that failed in each way; its outages and lags   *)
(* are made of failed and of answered polls, no poll is in two of them, no *)
(* peak exceeds its maxima, and every window is within its own.  When      *)
(* single polls are reported, outages are all the failed ones, and lags by *)
(* blocks alone all the stale ones.                                        *)
(***************************************************************************)
PollsIn(kind, e) ==
  UNION {report.incidents[i].polls : i \in
    {x \in DOMAIN report.incidents :
       report.incidents[x].kind = kind /\ report.incidents[x].endpoint = e}}

TablesAgree ==
  Made =>
    /\ \A i, j \in DOMAIN report.incidents : i # j =>
         report.incidents[i].polls \cap report.incidents[j].polls = {}
    /\ \A e \in Measured :
         LET row == report.summaries[e]
         IN  /\ row.samples = Cardinality(Of(e)) /\ row.ok = Cardinality(HealthyOf(e))
             /\ \A c \in ErrClass :
                  row.errors[c] = Cardinality({i \in FailedOf(e) : points[i].class = c})
             /\ PollsIn("unavailable", e) \subseteq FailedOf(e)
             /\ PollsIn("lag", e) \subseteq HealthyOf(e)
             /\ rules.samples <= 1 => PollsIn("unavailable", e) = FailedOf(e)
             /\ rules.samples <= 1 /\ rules.seconds = 0
                  => row.staleShare[1] = Cardinality(PollsIn("lag", e))
             /\ \A i \in DOMAIN report.incidents :
                  LET inc == report.incidents[i]
                  IN  inc.endpoint = e /\ inc.kind # "divergence" =>
                        /\ inc.samples = Cardinality(inc.polls)
                        /\ inc.blocks <= row.lagBlocksMax /\ inc.seconds <= row.lagSecondsMax
                        /\ row.first <= inc.start /\ inc.end <= row.last

(***************************************************************************)
(* "No endpoint breached the lag threshold and no hash divergence was      *)
(* observed" (report.go:132), said when there is nothing else to say, is   *)
(* true of the incident table as long as the threshold is one of blocks    *)
(* only.  A divergence in that table is among the findings, unless there   *)
(* is no sample: then "No samples" is all they say (report.go:109-112),    *)
(* whatever the table shows.  And an endpoint that "never led the field"   *)
(* has no healthy poll without a lag, except of a chain that had no block  *)
(* yet.                                                                    *)
(***************************************************************************)
FindingsMatchIncidents ==
  Made =>
    /\ report.findings = {} /\ rules.seconds = 0 =>
         \A i \in DOMAIN report.incidents : report.incidents[i].kind = "unavailable"
    /\ IF Measured = {} THEN report.findings = {NoSamples}
       ELSE \A i \in DOMAIN report.incidents :
              report.incidents[i].kind = "divergence" =>
                \E d \in DOMAIN divergences :
                  /\ <<"divergence", d>> \in report.findings
                  /\ divergences[d].at = report.incidents[i].start
    /\ \A e \in Measured :
         <<"neverLed", e>> \in report.findings
           <=> /\ HealthyOf(e) # {}
               /\ \A i \in HealthyOf(e) : LagAt(i) > 0 \/ points[i].best = 0

(***************************************************************************)
(* "A fast endpoint serving stale state is worse than a slightly slower    *)
(* one that is current" (erpc.go:58-59): of two upstreams of a chain the   *)
(* one whose worst lag is below the other's best comes first, however slow *)
(* it is and however often it fails.  One that never answered counts as    *)
(* current: it comes before every upstream that never was, but after every *)
(* one that always was.                                                    *)
(***************************************************************************)
AlwaysLess(a, b) ==
  /\ HealthyOf(b) # {}
  /\ \A i \in HealthyOf(a), j \in HealthyOf(b) : LagAt(i) < LagAt(j)
  /\ HealthyOf(a) = {} => \A j \in HealthyOf(b) : LagAt(j) > 0

AlwaysCurrent(e) == HealthyOf(e) # {} /\ \A i \in HealthyOf(e) : LagAt(i) = 0

CurrentRankedFirst ==
  Made => \A c \in DOMAIN report.upstreams :
    LET order == report.upstreams[c]
    IN  \A i, j \in DOMAIN order : i < j =>
          LET a == order[i].endpoint
              b == order[j].endpoint
          IN  ~AlwaysLess(b, a) /\ ~(HealthyOf(a) = {} /\ AlwaysCurrent(b))

(***************************************************************************)
(* A hedged request is sent before the request times out, as long as nine  *)
(* polls of ten were answered, or failed, within 29.95 seconds; beyond     *)
(* that the clamped timeout comes first and the hedge is never sent.       *)
(***************************************************************************)
HedgeFitsTimeout ==
  Made => \A c \in DOMAIN report.upstreams : \A i \in DOMAIN report.upstreams[c] :
    LET up == report.upstreams[c][i]
        slow == {n \in TimedOf(up.endpoint) : points[n].latency > 30 * Second - Ms50}
    IN  /\ up.timeout \in Second .. 30 * Second
        /\ 10 * Cardinality(slow) <= Cardinality(TimedOf(up.endpoint))
             => up.hedge < up.timeout

(***************************************************************************)
(* The suggested alert would have been quiet in all but one percent of the *)
(* healthy polls of every endpoint, and one lower by two blocks loud in    *)
(* more than one percent of some endpoint's, unless it is the least, 2.    *)
(***************************************************************************)
Louder(e, threshold) ==
  100 * Cardinality({i \in HealthyOf(e) : LagAt(i) > threshold}) > Cardinality(HealthyOf(e))

AlertFitsEvidence ==
  Made =>
    /\ \A e \in Measured : ~Louder(e, report.lagAlert)
    /\ report.lagAlert > 2 => \E e \in Measured : Louder(e, report.lagAlert - 2)

=============================================================================
