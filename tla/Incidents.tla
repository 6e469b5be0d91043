----------------------------- MODULE Incidents -----------------------------
(***************************************************************************)
(* The incident table of the audit (DetectLagIncidents and scanSeries in   *)
(* internal/analysis/incident.go): scored samples, in any order, are split *)
(* by endpoint and sorted by time, and each endpoint's series is scanned   *)
(* for runs of samples that breach the rules in the same way.              *)
(***************************************************************************)
EXTENDS Sequences, FiniteSetsExt, SequencesExt, GoSort

CONSTANTS N,           \* number of endpoints, in order of their names
          ErrClass,    \* classes of failed polls
          Evidence     \* the sequences of samples a log may hold

OK == "ok"
Endpoint == 1 .. N
Point ==
  [endpoint : Endpoint, at : Nat, class : {OK}, best : Nat, lag : Nat \X Nat, latency : Nat]
    \cup [endpoint : Endpoint, at : Nat, class : ErrClass, best : Nat, lag : {<<0, 0>>},
          latency : Nat]

ASSUME IncidentAssumption ==
  /\ N \in Nat \ {0}
  /\ Evidence \subseteq Seq(Point)

VARIABLES points,   \* the samples of the evidence, in the order of the log
          rules,    \* what counts as one: [blocks, seconds, samples]
          name,     \* the endpoint whose series is scanned, N + 1 after the last
          series,   \* that series: positions in points
          pos,      \* position in the series of the next sample
          cur,      \* the open incident, None when there is none
          out       \* the incidents found

incidentVars == <<points, rules, name, series, pos, cur, out>>

None == [kind |-> "none"]

-----------------------------------------------------------------------------
(* What the scan asks of one sample, and does to the open incident.        *)

Breached(p) ==
  \/ rules.blocks > 0 /\ p.lag[1] >= rules.blocks
  \/ rules.seconds > 0 /\ p.lag[2] >= rules.seconds

Kind(p) == IF p.class # OK THEN "unavailable"
           ELSE IF Breached(p) THEN "lag" ELSE "none"

\* A new incident has seen no sample yet.  Its polls are history: the samples
\* it is made of, by their positions in the log.
Opened(p) ==
  [kind |-> Kind(p), endpoint |-> p.endpoint, start |-> p.at, end |-> p.at,
   samples |-> 0, blocks |-> 0, seconds |-> 0,
   detail |-> IF p.class = OK THEN <<>> ELSE <<p.class>>, polls |-> {}]

\* Sample i joins it.  The detail names a class when it is not the whole
\* detail already.
Prolonged(inc, i) ==
  LET p == points[i]
  IN  [inc EXCEPT !.end = p.at,
                  !.samples = @ + 1,
                  !.blocks = Max({@, p.lag[1]}),
                  !.seconds = Max({@, p.lag[2]}),
                  !.detail = IF p.class # OK /\ @ # <<p.class>>
                             THEN Append(@, p.class) ELSE @,
                  !.polls = @ \cup {i}]

\* The incidents once inc is closed.
FlushedAlways(inc) == IF inc = None THEN out ELSE Append(out, inc)
Flushed(inc) ==
  IF inc # None /\ inc.samples >= Max({1, rules.samples}) THEN Append(out, inc) ELSE out

-----------------------------------------------------------------------------
\* The samples of endpoint e, and their order by time, those of one instant
\* as in the log.
Of(e) == {i \in DOMAIN points : points[i].endpoint = e}

Series(e) == StableOrder([i \in Of(e) |-> {k \in Of(e) : points[k].at < points[i].at}])

\* The table is sorted by start, then by endpoint.
Before(a, b) ==
  a.start < b.start \/ (a.start = b.start /\ a.endpoint < b.endpoint)

IncidentsInit(asked) ==
  /\ points \in Evidence
  /\ rules = asked
  /\ name = 1
  /\ series = Series(1)
  /\ pos = 1
  /\ cur = None
  /\ out = <<>>

\* The body of the loop of scanSeries: a sample that does not breach, or
\* breaches in another way, closes the open incident.
Scan ==
  /\ name \in Endpoint /\ pos \in DOMAIN series
  /\ LET p == points[series[pos]]
         goesOn == cur.kind = Kind(p)
     IN  /\ out' = IF goesOn THEN out ELSE Flushed(cur)
         /\ cur' = IF Kind(p) = "none" THEN None
                   ELSE Prolonged(IF goesOn THEN cur ELSE Opened(p), series[pos])
  /\ pos' = pos + 1
  /\ UNCHANGED <<points, rules, name, series>>

\* The series ends with a flush; after the last one the table is sorted.
EndSeries ==
  /\ name \in Endpoint /\ pos > Len(series)
  /\ out' = IF name < N THEN Flushed(cur) ELSE StableSort(Flushed(cur), Before)
  /\ cur' = None
  /\ name' = name + 1
  /\ series' = Series(name + 1)
  /\ pos' = 1
  /\ UNCHANGED <<points, rules>>

IncidentsNext == Scan \/ EndSeries

-----------------------------------------------------------------------------
(* The reference: the runs of a series, said of the series as a whole.     *)

KindAt(s, m) == Kind(points[s[m]])

\* The maximal runs of breaching samples of s, long enough to be reported.
Runs(s) ==
  {r \in (1 .. Len(s)) \X (1 .. Len(s)) :
     LET i == r[1]
         j == r[2]
     IN  /\ i <= j /\ KindAt(s, i) # "none"
         /\ i > 1 => KindAt(s, i - 1) # KindAt(s, i)
         /\ j < Len(s) => KindAt(s, j + 1) # KindAt(s, i)
         /\ \A m \in i .. j : KindAt(s, m) = KindAt(s, i)
         /\ j - i + 1 >= rules.samples}

IsPeak(v, S) == v \in S /\ \A w \in S : w <= v

\* What an incident says when it tells of the run r of s.
Tells(inc, s, r) ==
  LET run == {s[m] : m \in r[1] .. r[2]}
  IN  /\ inc.kind = KindAt(s, r[1]) /\ inc.endpoint = points[s[r[1]]].endpoint
      /\ inc.start = points[s[r[1]]].at /\ inc.end = points[s[r[2]]].at
      /\ inc.samples = Cardinality(run) /\ inc.polls = run
      /\ IsPeak(inc.blocks, {points[i].lag[1] : i \in run})
      /\ IsPeak(inc.seconds, {points[i].lag[2] : i \in run})
      /\ ToSet(inc.detail) = {points[i].class : i \in run} \ {OK}

Done == name = N + 1

(***************************************************************************)
(* The table has exactly one row per maximal run of enough consecutive     *)
(* samples of one endpoint that breach the rules in the same               *)
(* way, with its window, its length, its peaks and all its error classes,  *)
(* whatever the order of the evidence; a failed poll ends a run of lag,    *)
(* and no sample is in two rows.  The rows are sorted.                     *)
(***************************************************************************)
RowsAreRuns ==
  Done =>
    /\ \A e \in Endpoint : \A r \in Runs(Series(e)) :
         \E i \in DOMAIN out : Tells(out[i], Series(e), r)
    /\ \A i \in DOMAIN out :
         LET s == Series(out[i].endpoint) IN \E r \in Runs(s) : Tells(out[i], s, r)
    /\ \A i, j \in DOMAIN out : i < j =>
         out[i].polls \cap out[j].polls = {} /\ ~Before(out[j], out[i])

=============================================================================
