------------------------------- MODULE Probe -------------------------------
(***************************************************************************)
(* A whole run of the probe (internal/probe/probe.go): the loop of RunLoop *)
(* with what it measures and leaves behind: scores, alerts behind the      *)
(* gate, hash comparisons, the evidence log and the metrics registry.      *)
(* Each action is the step of RunLoop of the same place, with its data.    *)
(*                                                                         *)
(* Heads are 1 for an old head and 2 for a new one; the lag of HeadLag is  *)
(* reduced to whether it breaches alerts.lag_blocks.  How a comparison of  *)
(* hashes comes to its verdict is in HashCheck and Divergence; here it is  *)
(* an answer of the environment.  Alerts are those of a run with a webhook *)
(* and alerts.on_divergence; with no webhook maybeAlert returns at once.   *)
(* The metrics are those of a run with a listener: it serves scrapes from  *)
(* a goroutine of its own, so one may come between any two steps, also     *)
(* after a sample or a divergence is observed and before its record is     *)
(* written and synced.                                                     *)
(***************************************************************************)
EXTENDS RunLoop, Sequences, FiniteSets, GoMap, Metrics

CONSTANTS MaxTime,        \* latest instant of a tick (bound)
          MaxTicks,       \* ticks of a run (bound)
          For, Cooldown,  \* config: alerts.for, alerts.cooldown
          CheckInterval,  \* config: hash_check_interval
          DiskFails       \* whether a write to the log may fail

ASSUME ProbeAssumption ==
  /\ MaxTime \in Nat \ {0}
  /\ MaxTicks \in Nat
  /\ For \in Nat
  /\ Cooldown \in Nat
  /\ CheckInterval \in Nat
  /\ DiskFails \in BOOLEAN

VARIABLES at,             \* the tick's instant
          head,           \* endpoint of the chain -> polled head, 0 if failed
          since, fired,   \* the gate's maps
          posting,        \* the alert whose delivery is under way, if any
          lastHashCheck,  \* chain -> instant of the last comparison, 0 if none
          log,            \* the evidence log
          broken,         \* a write failed; json.Encoder keeps the error
          observed,       \* the registry has seen what is recorded next
          registry,       \* metrics: <<chain, endpoint>> -> its series
          divergences,    \* metrics: chain -> divergence events counted
          facts,          \* history: every record handed to the log
          compared        \* history: the comparisons and their verdicts

gateVars == <<since, fired>>
logVars == <<log, broken, facts>>
hashVars == <<lastHashCheck, divergences, compared>>
vars == <<loopVars, at, head, gateVars, posting, logVars, observed, registry, hashVars>>

Chain == 1 .. C
Time == 0 .. MaxTime
PolledHead == 0 .. 2

\* The gate's own history is not needed here, and Gate.active is read only by
\* Resolved, which the program never calls.
Key == ({"unavailable", "lag"} \X Chain \X Endpoint) \cup ({"divergence"} \X Chain \X {0})
Gate == INSTANCE AlertGate WITH calls <- <<>>, active <- {}

-----------------------------------------------------------------------------
(* Evidence.  Each write is of one record, or of none: it is appended      *)
(* whole or fails, and after a failure nothing is written again.           *)

Record(type, ts, about) == [type |-> type, ts |-> ts, about |-> about]

WriteSometimes(records) ==
  /\ facts' = facts \o records
  /\ log' \in {log \o records} \cup (IF DiskFails THEN {log} ELSE {})
  /\ UNCHANGED broken

Write(records) ==
  /\ facts' = facts \o records
  /\ broken' \in {broken} \cup (IF DiskFails /\ records # <<>> THEN {TRUE} ELSE {})
  /\ log' = IF broken' THEN log ELSE log \o records

-----------------------------------------------------------------------------
(* Scores and alerts of one sample.                                        *)

Best == IF \E e \in Endpoint : head[e] = 2 THEN 2
        ELSE IF \E e \in Endpoint : head[e] = 1 THEN 1 ELSE 0

\* A sample is not healthy, healthy and breaching, or neither.
Score(e) == IF head[e] = 0 THEN "failed"
            ELSE IF Best - head[e] >= 1 THEN "lagging" ELSE "fresh"

UnavailableByClass(e) == <<"failed", chain, e>>
Unavailable(e) == <<"unavailable", chain, e>>
Lagging(e) == <<"lag", chain, e>>
Diverged == <<"divergence", chain, 0>>

\* The gate lets an alert through, none or one.
Alerts(key, breaching) ==
  IF Gate!Allowed(since, fired, key, breaching, at)
  THEN <<Record("alert", at, key)>> ELSE <<>>

AlertsOf(e) == Alerts(Unavailable(e), Score(e) = "failed")
                 \o Alerts(Lagging(e), Score(e) = "lagging")

\* maybeAlert asks the gate twice, once per kind, whatever the score.
AskGateOnBreachOnly(e) ==
  IF Score(e) = "fresh" THEN UNCHANGED gateVars
  ELSE LET key == IF Score(e) = "failed" THEN Unavailable(e) ELSE Lagging(e)
       IN  /\ since' = Gate!SinceAfter(since, key, TRUE, at)
           /\ fired' = Gate!FiredAfter(since, fired, key, TRUE, at)

AskGate(e) ==
  LET bad == Score(e) = "failed"
      behind == Score(e) = "lagging"
      since1 == Gate!SinceAfter(since, Unavailable(e), bad, at)
      fired1 == Gate!FiredAfter(since, fired, Unavailable(e), bad, at)
  IN  /\ since' = Gate!SinceAfter(since1, Lagging(e), behind, at)
      /\ fired' = Gate!FiredAfter(since1, fired1, Lagging(e), behind, at)

-----------------------------------------------------------------------------
Init ==
  /\ LoopInit
  /\ at = 0
  /\ head = [e \in Endpoint |-> 0]
  /\ since = EmptyMap
  /\ fired = EmptyMap
  /\ posting = <<>>
  /\ lastHashCheck = [c \in Chain |-> 0]
  /\ log = <<>>
  /\ broken = FALSE
  /\ observed = FALSE
  /\ registry = EmptyMap
  /\ divergences = EmptyMap
  /\ facts = <<>>
  /\ compared = <<>>

\* Every tick has its own instant, later than the one before, the first one 1;
\* its samples start empty, one slot per endpoint of the chain.
NewTick == at' \in {t \in Time : t > at}
NoSamples == head' = [e \in Endpoint |-> 0]

StartRun ==
  /\ Start
  /\ at' = 1 /\ NoSamples
  /\ Write(IF once THEN <<>> ELSE <<Record("run_started", 0, <<>>)>>)
  /\ UNCHANGED <<gateVars, posting, observed, registry, hashVars>>

\* pollHead, or one fetch of fetchHashes.
Answer(e) ==
  /\ Return(e)
  /\ IF pc = "polling" THEN \E h \in PolledHead : head' = [head EXCEPT ![e] = h]
                       ELSE UNCHANGED head
  /\ UNCHANGED <<at, gateVars, posting, logVars, observed, registry, hashVars>>

ScoreChain ==
  /\ JoinPolls
  /\ UNCHANGED <<at, head, gateVars, posting, logVars, observed, registry, hashVars>>

\* The body of the loop over the scores: first ObserveLag ...
ObserveSample ==
  /\ pc = "reporting" /\ reported < N /\ ~observed
  /\ LET e == reported + 1
     IN  registry' = ObserveLag(registry, <<chain, e>>, head[e] # 0, Best - head[e])
  /\ observed' = TRUE
  /\ UNCHANGED <<loopVars, at, head, gateVars, posting, logVars, hashVars>>

\* ... then record and maybeAlert.
SampleRecord == Record("lag", at, <<Score(reported + 1), chain, reported + 1>>)

RecordSample ==
  /\ observed
  /\ LET alerts == AlertsOf(reported + 1)
     IN  Report(alerts # <<>>) /\ posting' = alerts
  /\ Write(<<SampleRecord>>)
  /\ AskGate(reported + 1)
  /\ observed' = FALSE
  /\ UNCHANGED <<at, head, registry, hashVars>>

\* send: an alert that was not delivered is not recorded.
Deliver ==
  /\ \E delivered \in BOOLEAN : Write(IF delivered THEN posting ELSE <<>>)
  /\ posting' = <<>>

PostAlert ==
  /\ Posted
  /\ Deliver
  /\ UNCHANGED <<at, head, gateVars, observed, registry, hashVars>>

Due == lastHashCheck[chain] = 0 \/ at - lastHashCheck[chain] >= CheckInterval

\* No healthy head, not due, or (as the heights decide) no finalised height
\* or the one compared last.
SkipCheck ==
  /\ SkipHashes
  /\ NoSamples
  /\ UNCHANGED <<at, gateVars, posting, logVars, observed, registry, hashVars>>

CheckHashes ==
  /\ FetchHashes
  /\ Best > 0 /\ Due
  /\ lastHashCheck' = [lastHashCheck EXCEPT ![chain] = at]
  /\ UNCHANGED <<at, head, gateVars, posting, logVars, observed, registry,
                 divergences, compared>>

\* The verdict is the environment's: the hashes agree ...
Compare(found) ==
  compared' = Append(compared, [chain |-> chain, at |-> at, found |-> found])

HashesAgree ==
  /\ JoinHashes(FALSE) /\ ~observed
  /\ Compare(FALSE)
  /\ NoSamples
  /\ UNCHANGED <<at, gateVars, posting, logVars, observed, registry, lastHashCheck,
                 divergences>>

\* ... or differ, which is observed, recorded and put to the gate, in this
\* order; the gate hears of no comparison that finds nothing.
HashesDiffer ==
  /\ pc = "fetching" /\ inflight = {} /\ ~observed
  /\ Compare(TRUE)
  /\ divergences' = ObserveDivergence(divergences, chain)
  /\ observed' = TRUE
  /\ UNCHANGED <<loopVars, at, head, gateVars, posting, logVars, registry, lastHashCheck>>

DivergenceRecord == Record("divergence", at, Diverged)

RecordFirstDivergence ==
  /\ observed
  /\ LET alerts == Alerts(Diverged, TRUE)
     IN  JoinHashes(alerts # <<>>) /\ posting' = alerts
  /\ Write(IF divergences[chain] = 1 THEN <<DivergenceRecord>> ELSE <<>>)
  /\ since' = Gate!SinceAfter(since, Diverged, TRUE, at)
  /\ fired' = Gate!FiredAfter(since, fired, Diverged, TRUE, at)
  /\ observed' = FALSE
  /\ NoSamples
  /\ UNCHANGED <<at, registry, hashVars>>

RecordDivergence ==
  /\ observed
  /\ LET alerts == Alerts(Diverged, TRUE)
     IN  JoinHashes(alerts # <<>>) /\ posting' = alerts
  /\ Write(<<DivergenceRecord>>)
  /\ since' = Gate!SinceAfter(since, Diverged, TRUE, at)
  /\ fired' = Gate!FiredAfter(since, fired, Diverged, TRUE, at)
  /\ observed' = FALSE
  /\ NoSamples
  /\ UNCHANGED <<at, registry, hashVars>>

PostDivergence ==
  /\ Escalated
  /\ Deliver
  /\ NoSamples
  /\ UNCHANGED <<at, gateVars, observed, registry, hashVars>>

\* The polls of an endpoint that the registry has counted.
Polls(c, e) ==
  IF <<c, e>> \in DOMAIN registry
  THEN registry[<<c, e>>].requests["ok"] + registry[<<c, e>>].requests["failed"] ELSE 0

NextTick ==
  /\ SelectTicker
  /\ Polls(1, 1) < MaxTicks
  /\ NewTick /\ NoSamples
  /\ UNCHANGED <<gateVars, posting, logVars, observed, registry, hashVars>>

LeaveLoop ==
  /\ SelectDone
  /\ UNCHANGED <<at, head, gateVars, posting, logVars, observed, registry, hashVars>>

\* The deferred record was made, and dated, when the run started.
EndRun ==
  /\ Close
  /\ Write(IF once THEN <<>> ELSE <<Record("run_finished", 0, <<>>)>>)
  /\ UNCHANGED <<at, head, gateVars, posting, observed, registry, hashVars>>

Outside ==
  /\ TickerFires \/ Cancel
  /\ UNCHANGED <<at, head, gateVars, posting, logVars, observed, registry, hashVars>>

Next ==
  \/ StartRun
  \/ \E e \in Endpoint : Answer(e)
  \/ ScoreChain
  \/ ObserveSample
  \/ RecordSample
  \/ PostAlert
  \/ SkipCheck
  \/ CheckHashes
  \/ HashesAgree
  \/ HashesDiffer
  \/ RecordDivergence
  \/ PostDivergence
  \/ NextTick
  \/ LeaveLoop
  \/ EndRun
  \/ Outside

Spec == Init /\ [][Next]_vars

-----------------------------------------------------------------------------
Records == [type : {"run_started", "run_finished"}, ts : Time, about : {<<>>}]
             \cup [type : {"lag"}, ts : Time,
                   about : {"failed", "lagging", "fresh"} \X Chain \X Endpoint]
             \cup [type : {"alert", "divergence"}, ts : Time, about : Key]

TypeOK ==
  /\ LoopTypeOK
  /\ at \in Time
  /\ head \in [Endpoint -> PolledHead]
  /\ IsMap(since, Key, Time) /\ IsMap(fired, Key, Time)
  /\ posting \in Seq(Records)
  /\ lastHashCheck \in [Chain -> Time]
  /\ log \in Seq(Records) /\ facts \in Seq(Records)
  /\ broken \in BOOLEAN /\ observed \in BOOLEAN
  /\ IsMap(registry, Chain \X Endpoint, Series({0, 1}))
  /\ IsMap(divergences, Chain, Nat)
  /\ compared \in Seq([chain : Chain, at : Time, found : BOOLEAN])

Positions(type) == {i \in DOMAIN log : log[i].type = type}

\* The i-th record of the log is a sample of endpoint e of chain c.
SampleOf(i, c, e) ==
  log[i].type = "lag" /\ log[i].about[2] = c /\ log[i].about[3] = e

(***************************************************************************)
(* The log is the beginning of what happened: a failing disk loses its     *)
(* end, never a record in the middle.                                      *)
(***************************************************************************)
LogIsPrefix ==
  Len(log) <= Len(facts) /\ \A i \in DOMAIN log : log[i] = facts[i]

(***************************************************************************)
(* Every lag and unavailability alert of the log can be justified from the *)
(* log alone: the samples it holds of the endpoint, from one at least For  *)
(* earlier to the one of the same instant, all show the breach.            *)
(***************************************************************************)
Class(kind) == IF kind = "unavailable" THEN "failed" ELSE "lagging"

AlertsJustified ==
  \A i \in Positions("alert") :
    LET kind == log[i].about[1]
        c == log[i].about[2]
        e == log[i].about[3]
    IN  kind # "divergence" =>
          \E j \in 1 .. i - 1 :
            /\ SampleOf(j, c, e) /\ log[i].ts - log[j].ts >= For
            /\ \A m \in j .. i - 1 :
                 SampleOf(m, c, e) => log[m].about[1] = Class(kind)
            /\ \E m \in j .. i - 1 : SampleOf(m, c, e) /\ log[m].ts = log[i].ts

(***************************************************************************)
(* Every divergence alert follows the divergence record it is about.       *)
(***************************************************************************)
DivergenceRecordedFirst ==
  \A i \in Positions("alert") :
    log[i].about[1] = "divergence" =>
      \E j \in 1 .. i - 1 :
        log[j].type = "divergence" /\ log[j].ts = log[i].ts /\ log[j].about = log[i].about

(***************************************************************************)
(* A tick hands the log exactly one sample of every endpoint, all with the *)
(* tick's instant, and between ticks no tick is half recorded; until the   *)
(* last record, time does not go backwards along the records handed over.  *)
(* Whether they reach the file is LogIsPrefix.                             *)
(***************************************************************************)
TicksAreWhole ==
  /\ \A i, j \in DOMAIN facts :
       i # j /\ facts[i].type = "lag" /\ facts[j].type = "lag"
         => <<facts[i].ts, facts[i].about[2], facts[i].about[3]>>
              # <<facts[j].ts, facts[j].about[2], facts[j].about[3]>>
  /\ pc \in {"select", "closing", "stopped"} =>
       \A i \in DOMAIN facts : facts[i].type = "lag" =>
         \A c \in Chain, e \in Endpoint : \E j \in DOMAIN facts :
           /\ facts[j].type = "lag" /\ facts[j].ts = facts[i].ts
           /\ facts[j].about[2] = c /\ facts[j].about[3] = e
  /\ \A i, j \in DOMAIN facts :
       i < j /\ facts[j].type # "run_finished" => facts[i].ts <= facts[j].ts

(***************************************************************************)
(* A scrape, which may come between any two steps, is true of the records  *)
(* handed to the log and of at most one more, of the sample or divergence  *)
(* just observed, which is recorded next: an endpoint has its series from  *)
(* its first sample on, the counters count its samples, up is of the last  *)
(* one, and the gauges of the last healthy one; a divergence is counted    *)
(* once for its record.  In the middle of a tick it shows some endpoints   *)
(* of this tick and the others of the tick before, never further apart,    *)
(* and between ticks all of the same and nothing that is not recorded.     *)
(* All this also when the log is broken.                                   *)
(***************************************************************************)
Pending == IF ~observed THEN <<>>
           ELSE IF pc = "reporting" THEN <<SampleRecord>> ELSE <<DivergenceRecord>>

Seen == facts \o Pending

Samples(c, e) ==
  {i \in DOMAIN Seen :
     Seen[i].type = "lag" /\ Seen[i].about[2] = c /\ Seen[i].about[3] = e}

Latest(S) == CHOOSE i \in S : \A j \in S : j <= i

SeriesMatches(m, all, healthy) ==
  /\ m.requests["ok"] = Cardinality(healthy)
  /\ m.requests["failed"] = Cardinality(all \ healthy)
  /\ m.up = 1 <=> Latest(all) \in healthy
  /\ m.lag = 1 <=> healthy # {} /\ Seen[Latest(healthy)].about[1] = "lagging"

BetweenTicks == pc \in {"select", "closing", "stopped"}

MetricsMatchFacts ==
  /\ BetweenTicks => ~observed
  /\ \A c \in Chain, e \in Endpoint :
       LET all == Samples(c, e)
           healthy == {i \in all : Seen[i].about[1] # "failed"}
       IN  /\ <<c, e>> \in DOMAIN registry <=> all # {}
           /\ all # {} => SeriesMatches(registry[<<c, e>>], all, healthy)
  /\ \A c \in Chain :
       (IF c \in DOMAIN divergences THEN divergences[c] ELSE 0)
         = Cardinality({i \in DOMAIN Seen :
             Seen[i].type = "divergence" /\ Seen[i].about[2] = c})
  /\ \A c1, c2 \in Chain, e1, e2 \in Endpoint :
       c1 < c2 \/ (c1 = c2 /\ e1 < e2) =>
         Polls(c1, e1) - Polls(c2, e2) \in IF BetweenTicks THEN {0} ELSE {0, 1}

(***************************************************************************)
(* Two alerts on record for one condition are Cooldown apart, whatever     *)
(* failed to be delivered or written in between.                           *)
(***************************************************************************)
AlertsSpaced ==
  \A i, j \in Positions("alert") :
    i < j /\ log[i].about = log[j].about => log[j].ts - log[i].ts >= Cooldown

-----------------------------------------------------------------------------
(***************************************************************************)
(* alert.go:163-165, "Callers pass the current truth of the condition on   *)
(* every tick, including when it is false, so the gate can reset": when a  *)
(* divergence is alerted, every comparison over the last For had found     *)
(* one.  The probe calls the gate for divergence only when one is found,   *)
(* so two isolated divergences pass for a lasting one.                     *)
(***************************************************************************)
DivergenceSustained ==
  \A i \in Positions("alert") :
    log[i].about[1] = "divergence" =>
      LET ofChain == {j \in DOMAIN compared : /\ compared[j].chain = log[i].about[2]
                                             /\ compared[j].at <= log[i].ts}
      IN  \E j \in ofChain :
            /\ log[i].ts - compared[j].at >= For
            /\ \A m \in ofChain : m >= j => compared[m].found

(***************************************************************************)
(* evidence.go:1-3, every line is a "timestamped fact", as in the sample   *)
(* log, whose run_finished line (testdata/sample-evidence.jsonl:184) bears *)
(* the end of the window: time does not go backwards along a log.  The     *)
(* probe dates run_finished when it defers it, at the start of the run.    *)
(***************************************************************************)
LogInTimeOrder ==
  \A i, j \in DOMAIN log : i < j => log[i].ts <= log[j].ts

=============================================================================
