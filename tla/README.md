# rpc-lag-probe: a verification project

The program polls the head block of every JSON-RPC endpoint of several chains,
scores how far each lags behind the best one, compares block hashes at a
finalised height, keeps a JSONL evidence log, sends webhook alerts, exposes
Prometheus metrics, and turns logs into an audit report and an eRPC
configuration.  This directory holds TLA+ models of it, the TLC runs that check
them on small instances, and theorems the TLA+ proof system checks for every
value of the constants.  `PROJECT.json` lists the runs, the mutants that show
that each property can fail, the source lines of every definition, the hazards
and the theorems.  Paths below are relative to `src/`.

    tlc -workers 2 -config HeadLag.cfg HeadLag.tla     # any run
    tlapm HeadLagProofs.tla                            # any proof module

## 1. Inventory

| Component | Code | State | Operations |
|---|---|---|---|
| scheduler | `internal/probe/probe.go`, `main.go` (cmdRun) | goroutine and channel state, per-chain clock, `lastHashCheck`, `lastChecked` | `Run`, `Tick`, `tickChain`, `pollHead`, `maybeCheckHashes`, `fetchHashes`, `maybeAlert`, `send`, `record` |
| head lag and height clock | `internal/analysis/lag.go` | `firstSeen`, `highest` per chain | `Observe`, `prune`, `ComputeLag`, `FinalisedHeight` |
| divergence detection | `internal/analysis/divergence.go` | none (pure) | `DetectDivergence` |
| alert gate | `internal/alert/alert.go` | `since`, `fired`, `active` maps | `Allow`, `Resolved` |
| alert delivery | `internal/alert/alert.go` | none | `Webhook.Notify` |
| evidence log | `internal/evidence/evidence.go` | the file, the sticky error of `json.Encoder` | `Open`, `Write`, `Close`, `Parse` |
| metrics | `internal/metrics/metrics.go` | counters, gauges, histogram under one mutex | `ObserveLag`, `ObserveDivergence`, `Write` (scrape) |
| incident table | `internal/analysis/incident.go` | the open incident of a scan | `DetectLagIncidents`, `scanSeries`, `DivergenceIncidents` |
| statistics | `internal/analysis/stats.go` | accumulators | `Percentile`, `Add`, `Summaries` |
| eRPC generator | `internal/report/erpc.go` | none (pure) | ranking, timeout, retry and hedge values |
| report | `internal/report/report.go` | none | `Analyse` and rendering |
| JSON-RPC client | `internal/rpc/client.go` | none | `Call`, `BlockNumber`, `BlockByNumber`, error classes |
| configuration | `internal/config/config.go` | the loaded file | `applyDefaults`, `expand`, `Validate`, `Chains`, `EndpointsFor` |
| command line | `main.go` | flags, context, deferred calls, signal handler, metrics server | `cmdRun`, `startMetrics`, `cmdReport`, `cmdValidate` |
| metrics dump tool | `tools/metricsdump/main.go` | none | prints a fixed registry |

How they interact.  `cmdRun` loads the configuration, opens the log, builds the
probe, installs the signal handler, starts the metrics server in a goroutine of
its own and calls `Run`, one goroutine; each of the things it opened is closed
by a deferred call.  At
every tick it measures the chains in turn: one goroutine per endpoint polls the
head and writes its sample into its own slot; all are joined; `ComputeLag`
scores the samples against the chain's `HeightClock`; each score goes, in this
order, to the metrics, to the log, and to the gate twice (unavailable, lag), and
an alert the gate lets through is posted within the tick and recorded only if
the post succeeded.  Then, when the hash interval has passed and the finalised
height is a new one, a second round of goroutines fetches the block at that
height, `DetectDivergence` clusters the answers, and an event is counted,
recorded, and given to the gate.  A scrape reads the metrics from another
goroutine.  Reports are made later, from the log alone, by `Parse`,
`DetectLagIncidents`, `Summaries` and the generator.

What is hard.  Concurrency: two rounds of request goroutines per tick, the
ticker and the cancellation in one select.  Order: heights reported late and by
several endpoints; pruning in the middle of a scan; three kinds of records
written by different functions.  Staleness: a finalised height computed from
heads polled before the hashes are fetched, on a chain that may have
reorganised.  Failure: requests, posts, writes and syncs that fail, a process
that is killed, a log several runs append to.  Protocol: the gate is only as
right as the sequence of calls made to it.  Life cycle: signals at any time,
several ways out of `cmdRun`, a scrape that hangs.  Numbers: ranks of
percentiles, shares compared with thresholds, defaults that do not fit each
other.

What makes each component correct, in a sentence each: every tick is whole and
every run stops (scheduler); a lag in seconds is the truth, or less (clock); an
event is exactly a disagreement and blames the right endpoints (divergence);
honest endpoints that keep up are never accused (hash checks); alerts are
sustained and spaced, and withheld for no other reason (gate); what the log
shows justifies every alert, and what it lost is known (evidence); the
table has one row per run of breaches (incidents); percentiles are measured
values of the right rank and both tables tell one story (report); upstreams are
in order of lag with timeouts and hedges that fit (generator); the registry is
true of the records and of at most one more (metrics); only what fits is measured
(configuration); what is opened is closed and no SIGINT or SIGTERM cuts a tick short
(command line).

## 2. Modules

| Module | Models | Extends / uses |
|---|---|---|
| `GoMap` | Go maps as functions | |
| `GoSort` | what the functions of package `sort` return | |
| `HeightClock` | the height clock of one chain under any observations | `GoMap` |
| `HeadLag` | ticks of samples scored by `ComputeLag` over that clock | `HeightClock` |
| `AlertGate` | `Gate.Allow`, `Gate.Resolved` for any number of keys | `GoMap` |
| `Divergence` | `DetectDivergence`, one observation at a time, and `DivergenceIncidents` | `GoMap` |
| `HashCheck` | hash comparisons of one chain against a reorganising blockchain | |
| `RunLoop` | the control of `Run`/`Tick`/`tickChain`/`maybeCheckHashes` | |
| `Metrics` | the observations of the metrics registry | `GoMap` |
| `Probe` | a whole run: `RunLoop` with scores, gate, log and metrics | `RunLoop`, `Metrics`, instance of `AlertGate` |
| `Configuration` | defaults, expansion, `Validate` and the queries on chains, as operators | |
| `Command`, `MCCommand` | the process around a run; its files for TLC | `RunLoop`, `Configuration` |
| `EvidenceLog` | writer and reader of the log over several runs and crashes | |
| `Incidents` | `DetectLagIncidents`, `scanSeries`: actions that `Audit` composes | `GoSort` |
| `Statistics` | `Percentile`, `Aggregator.Add`, `Summaries` | `Incidents`, `GoMap` |
| `Ranking` | what `ERPC` derives from the endpoint table | `Statistics` |
| `Audit`, `MCAudit` | `cmdReport` and `Analyse` over all of these; evidence for TLC | `Ranking` |
| `HeadLagProofs` (the clock's too), `AlertGateProofs`, `DivergenceProofs`, `HashCheckProofs`, `RunLoopProofs`, `ProbeProofs`, `CommandProofs`, `EvidenceProofs` (of `EvidenceLog` and of `Audit`) | theorems | their modules, `TLAPS` |

Correspondence with the code:

* **HeightClock**: `firstSeen` and `highest` are the fields; `Observe` is the
  method, `Prune` included, and returns early for height 0.  `earliest` is a
  history variable: the earliest report of each height, never pruned.
  Times are ticks of one monotonic clock, but `Observe` alone accepts any order.
* **HeadLag**: one action per loop of `ComputeLag` body: `Scan` handles one
  sample (reference head and clock), `Score` all endpoints.  `BeginTick` is
  the joined poll; a sample is healthy with a height, which may be 0, or failed.
* **AlertGate**: `Allow` and `Resolved` are the methods on the three maps;
  `SinceAfter`, `Allowed` and `FiredAfter` say what `Allow` does to a value of
  them, so that `Probe` uses the very same operators.  `calls` is the history
  since the last successful `Resolved` of the key.
* **Divergence**: `Cluster` is the body of the clustering loop, `Return` the rest
  with its two results.  The sorted clusters are said by what `sort.SliceStable`
  makes of them: the arrangement in which each is larger than those after it.
  There is exactly one, because no two clusters have the same size and hash.
  `DivergenceIncidents` makes the rows of an event in the incident table from its
  `Targets`.  A hash is an identity and a spelling, since the code
  compares lower-cased, trimmed hashes.
* **HashCheck**: `chain`, `fork`, `view` are the environment (`Extend` grows or
  reorganises the chain, `Sync` lets a node catch up); the tick is `BeginTick`, `Poll`,
  `SkipCheck` or `BeginCheck`, `Fetch`, `Detect`.  The environment moves between
  any two of these.  `BlockNumber` and `BlockByNumber` say what a request may come
  back with; the classes of its failures are not told apart.  The client does
  not compare the number of the block it gets with the one it asked for, so the
  endpoints in `Inexact` may answer with a block of another height.
* **RunLoop**: `pc` is where the goroutine of `Run` is; `Return` is a request
  goroutine ending with `wg.Done`; `ticker` is the one-place channel of
  `time.Ticker`; `SelectTicker` and `SelectDone` are the two cases of the
  select; `once` is `--once`.
* **Metrics**: one record per series of an endpoint.  The registry's mutex makes
  each observation and each scrape one step, so a scrape is any state between
  two steps and needs no action; invariants of `Probe` are what it reads.  The
  mutex is not held between an observation and its record, so there are states
  between the two: `observed` says that the probe is in one of them.
* **Probe**: every action is the `RunLoop` step of the same place conjoined with
  the data it moves, but for two that the loop does not see: `ObserveSample` and
  `HashesDiffer` update the registry, and only then `RecordSample` and
  `RecordDivergence` write the record and ask the gate.  Heads are 1 or 2 and lag is reduced to
  whether it breaches, which is all `maybeAlert` sees of it; the verdict
  of a comparison is a choice, because `HashCheck` and `Divergence` say how it is
  reached.  A run has a webhook and `alerts.on_divergence`.  `facts` and
  `compared` are history; the bound on ticks is read from the registry.
* **Configuration**: a file is a record of the fields some decision depends on,
  0 or "" when left out; a text is a placeholder when the environment has a
  variable of its name.  `DecodedFile` is what the decoder may come back with.
  `Accepted` and `Load` are the two results of `Load`.
* **Command**: `stage` is how far `cmdRun` has come, `deferred` the stack of its
  deferred calls, `server` the goroutine of `startMetrics`.  `LoadFile`,
  `OpenLog`, `New`, `NotifyContext`, `StartMetrics` are its statements in order,
  each with its error return; `Work`, `Answer`, `Select`, `Ticks` are the steps of
  the loop; `Finish`, `Unwind`, `Exit` the way out.  `Interrupt` and `Kill` are
  one signal, with and without a handler installed; a kill that no handler can
  catch is in `EvidenceLog`.
* **EvidenceLog**: the file is a sequence of pieces, one per write: a whole line,
  a record without its newline, or a cut record.  `WriteFails` leaves any of
  them (or nothing) and sets the encoder's sticky error; `Kill` may tear a
  write; `PowerLoss` loses any suffix that was not synced.  `Parsed` and
  `Malformed` are the reader, as functions of the file.  A piece may be `long`:
  its line outgrows the buffer of the reader's scanner, and `ParseFails`: the
  reader gets an error and no record at all.
* **GoSort**: a sort is said by counting: the i-th element is the one that i - 1
  others come before (`Arranged`); a stable sort breaks ties by position
  (`Stable`).  This is what `sort` documents, not how it computes it, and it
  can be proved about.
* **Incidents**: `series` is the variable of the loop over endpoints, the sorted
  samples of `name` as positions in the log; `Scan` is the loop body of
  `scanSeries`, `Flushed` its closure `flush`, `EndSeries` its end and, for the
  last endpoint, the final sort.  The loop runs over all endpoints; one without
  a sample has an empty series.  The `polls` of an incident are history.
* **Statistics**: `byEndpoint` is the field; `AddNext` adds one sample, `Add` being
  what the method does to its accumulator, and `SummaryOf` is the body of
  `Summaries`.  A share is its pair of counts and a percentile is asked for in
  percent: floats are only compared, and the comparisons are those of the
  fractions.  The rank, `math.Ceil(p * n)`, is the exact one for the p in use: 0.5,
  0.9 and 0.99 are off by less than half a unit in the last place, so a product
  that should be an integer is rounded to it.
* **Ranking**: `Better` is the `less` of the sort, `TimeoutFor`, `RetriesFor`,
  `HedgeFor`, `SuggestedLagAlert` the functions of these names.  Durations are in
  units of 10 ms, fine enough for what they are rounded to.
* **Audit**: `AddSample` is the first loop of `Analyse`, `DetectIncidents` the steps
  of `DetectLagIncidents`, which it calls next, and `Analyse` the rest of it;
  `Findings` are the lines of `writeFindings`, by what they say and of whom, or,
  when there is no sample, its early return.

## 3. Runs

Twelve runs, eight that pass and four that show where the code does something
else than a comment or the sample log says.  Bounds are the CONSTANTS of the
cfg files; those that bound a model and are no parameter of the code are marked
`(bound)` where they are declared.  Deadlock is not checked in any run: every
model stops when its bounds are reached, and the program stops too.

| Run | What it shows | Instance, and why it is enough |
|---|---|---|
| `HeadLag` | In the clock's window every height is dated with its earliest report (`WindowExact`), heights leave only by pruning (`OnlyPruningForgets`); a measured lag never exceeds the truth (`NeverOverstated`) and is exact in the window (`ExactInWindow`) | 3 endpoints, heights to 4, 3 ticks, window 1: heights fall out of the window in the middle of a scan and come back; all proved too |
| `AlertGate` | `FiresOnlyWhenSustained`, `SpacedByCooldown`, `RefusedOnlyForCooldown` | 2 keys, For 1, Cooldown 2, instants to 5: breach, alert, recovery, breach, alert fit; proved as well |
| `Divergence` | clusters partition the answers by hash and are ranked (`EventPartitionsEndpoints`), a majority is strict and the minority is the rest, as far as comment and code agree (`MajorityIsStrict`), an event exactly on disagreement (`DisagreementReported`), and rows of the incident table for exactly the endpoints not on a majority hash (`RowsShowDeviants`) | 5 endpoints, 3 hashes in 2 spellings, or no answer: majorities, two- and three-way ties, all minorities |
| `HashCheck` | comparisons are spaced (`ChecksAreSpaced`); an event needs an endpoint more than `FinalityDepth - MaxReorg` blocks behind, or one whose poll failed, or that answered with another height's block (`NoFalseDivergence`); the leader's answer stays canonical (`LeaderIsCanonical`) | 3 endpoints, one of them inexact, depth 2, reorgs of 1 block, chain of 4, 2 forks, 3 instants: reorgs before, between and after polls and fetches, orphaned views |
| `Command` | only files that fit are measured, and what a file may leave out (`MeasuresOnlyWhatFits`); what is opened is closed on every way out (`LogOpenWhileMeasuring`); SIGINT and SIGTERM end a run in order (`SignalsAreOrderly`); goroutines are joined (`RequestsAreJoined`); the command implements `LoopSafetySpec`; a cancelled run and `--once` come to an end (`StopsWhenDue`), an uncancelled one polls for ever (`KeepsPolling`) | 3 endpoints, 2 chains, about 60 files around one that uses every feature; no bound on time or on signals: the state space, 29 thousand states, is complete for these |
| `Probe` | the log is a prefix of what happened (`LogIsPrefix`); every alert is justified by the records before it (`AlertsJustified`, `DivergenceRecordedFirst`) and spaced (`AlertsSpaced`); ticks are recorded whole, once, in order of time (`TicksAreWhole`); whatever a scrape reads is true of the records handed to the log and of at most one more, observed before it is recorded (`MetricsMatchFacts`) | 2 endpoints of a chain, 3 ticks at instants to 4, For 1, Cooldown 2, failing disk and webhook: an alert needs two ticks, a second one within the cooldown a third |
| `EvidenceLog` | divergences whose `Write` returned nil are on the file as lines that decode, through any failures, and are found by every reader that is not given an error for a line that is too long (`DivergencesSurvive`); without that error, other losses are matched by malformed lines (`LossesAreReported`) | 5 records, 3 failures: torn write, append by the next run, and a power loss on top, with lines of either length |
| `Audit` | one row per maximal run of one kind of breach (`RowsAreRuns`); percentiles are measured values of the nearest rank (`PercentilesAreNearestRank`); the two tables, and the findings, agree (`TablesAgree`, `FindingsMatchIncidents`); a current upstream is ranked before one that lags (`CurrentRankedFirst`); a hedge is sent before the timeout (`HedgeFitsTimeout`); the suggested alert fits the evidence (`AlertFitsEvidence`) | every log of at most 3 polls of 2 endpoints, or 4 of one, at 2 instants, over and under each threshold, 2 error classes; six logs with up to 101 polls of each of up to 3 endpoints on 2 chains, in which p90 and p99 differ from the maximum, or a chain has no block yet; 3 sets of flags, 2 of divergences: 1.3 million states |
| `HeadLag_moved` | violation of `SecondsSinceNetworkMoved` | see section 6 |
| `HashCheck_twice` | violation of `NeverTwiceAtAHeight` | see section 6 |
| `Probe_divergence` | violation of `DivergenceSustained` | see section 6 |
| `Probe_finished` | violation of `LogInTimeOrder` | see section 6 |

Type invariants are checked of `HeadLag`, `HashCheck`, `Command` and `Probe`, where
they carry what Go's types do not: scores, sums and differences of unsigned
heights and of instants stay non-negative, a key in the maps is one of the
configured ones.  Those of `AlertGate` and `EvidenceLog` are proved.  `Divergence` and
`Audit` build records and sequences whose types are those of the code.

`NeverTooEarly` of the clock, `ReferenceDated` of the scoring, `StopsForAReason`
and `ChainsInTurn` of the loop are proved (section 5) and need no run.

## 4. Fairness

Liveness is stated of `Command`, the loop in its process.  Assumed of the code, in
`Fairness`:

* the main goroutine runs when it can: `WF` of `Startup`, of `Work` and of
  `Finish \/ Unwind \/ Exit`.  This includes that a post returns, since `Webhook`
  has an HTTP client with a timeout, and that `Shutdown` returns, since it has a
  context of two seconds;
* a request returns (`WF` of `Answer(e)`): every call runs under
  `context.WithTimeout`, whatever the endpoint does;
* the ticker fires (`WF` of `Ticks`), and the select takes a ready case (`WF` of
  `Select`);
* `SF` of `SelectDone`: with both channels ready Go's select chooses at random,
  so it does not choose the ticker for ever.  With weak fairness alone a run
  whose ticks are longer than the interval might never notice its cancellation.

Nothing is assumed of signals, of the metrics server and its scrapes, of the
endpoints or of the webhook's answers.

## 5. Proofs

All for every value of the constants that satisfies the modules' ASSUMEs: the
window `Keep` is not 0 (`NewHeightClock` replaces it), there is an endpoint (two, for the loop, the command and the probe, and a chain),
durations and bounds are natural numbers, and a configuration file has been
decoded, so that its fields have the types of the Go structs
(`FilesAssumption`); their values may be anything.

* `HeadLagProofs`, the clock: `ClockCorrect` (`WindowExact`, `NeverTooEarly`) and
  `ClockForgetsByPruning` (`OnlyPruningForgets`).  The invariant is `ClockInv`:
  typing, the two properties, and `HighestIsTop`: nothing above `highest` is in
  the history.  Without it a new highest height could have been reported, and
  pruned, before, and the date it gets now would not be its earliest.
* `HeadLagProofs`, the scoring: `TypeCorrect`, `ScoresNeverOverstated`,
  `ScoresExactInWindow`, `ReferenceAlwaysDated` from `IInv`, which adds to
  `ClockInv` that the reference head of the scan is the maximum of the scanned
  healthy samples and at most `highest` (`ReferenceIsTop`), that it is still
  dated although later samples may prune (`ReferenceKept`: what prunes is a higher head,
  which becomes the reference itself), and that no date is later than the tick (`NoFutureDate`),
  so that no age is negative.  `LagOfSound` is the lemma about one score.
  `UsesTheClock`: `HeadLag` implements the specification of the clock alone.
* `AlertGateProofs`: `TypeCorrect`, `NoAlertForFlapping`, `AlertsAreSpaced`,
  `RefusalsAreForCooldown`.  The invariant `GateInv` ties, per key, the maps to
  the history of calls: `since` holds the instant of the first call of the
  current unbroken breach, `fired` that of the last alert, calls are in order of
  time.  `CallKeepsKeyInv` is the step for the key that is called, `OtherKey`
  for the rest.
* `DivergenceProofs`: `EventsPartition`, `MajoritiesAreStrict`,
  `RowsAccuseDeviants`, for any number of endpoints, hashes and spellings.  The
  invariant says that after each endpoint the map holds exactly the votes of
  those looked at (`LoopInv`), that every hash of the map is listed once
  (`OrderInv`), and that an event, once returned, is right (`EventInv`), its
  minority being everyone off the majority hash, ties included
  (`MinorityIsTheRest`), from which `RowsAccuseDeviants` follows.  The
  lemmas before it justify the sort: `Larger` is a strict total order, the
  rank of a hash is one more than the number of hashes larger than it, ranks
  are a bijection onto the positions, so the arrangement the model chooses
  exists and lists every cluster once (`ClustersSorted`).
* `HashCheckProofs`: `TypeCorrect`, `ComparisonsAreSpaced`,
  `LeaderStaysCanonical`, `ReorgsMakeNoEvent`, assuming that the finality depth
  is at least 2 (`Validate`) and not below the deepest ordinary reorg.  The invariant says that every
  view agrees with the chain `MaxReorg` blocks below its own end (`ViewsAgree`;
  a reorg reaches no deeper, and the chain is never shorter than a view),
  that a polled head is still covered by its view (`HeadsServed`), that the
  compared height is `FinalityDepth` below the best polled head
  (`HeightFromBest`), so that an answer of an endpoint polled `MaxReorg` above
  the height, exact ones only, is the chain's block now and for good
  (`AnswersFinal`), and that the comparison the code remembers is the last one
  (`ChecksRemembered`).
* `RunLoopProofs`: `LoopTypeCorrect`, `GoroutinesAreJoined`,
  `RunsStopForAReason`, `ChainsAreMeasuredInTurn`, of `LoopSafetySpec`, without
  fairness.  The invariant adds that a chain is set exactly inside a tick, that
  hashes are fetched only after all samples are reported, and that only `Run`
  selects.
* `ProbeProofs`: `ImplementsTheLoop` (`Spec => LoopSafetySpec`), by which the
  whole probe inherits what is proved of the loop (`ProbeJoinsRequests`), and
  `TypeCorrect`, `LogIsAlwaysPrefix`, `DivergencesRecordedFirst`,
  `AlertsAreJustified`, `AlertsAreSpaced`, `TicksAreRecordedWhole`,
  `ScrapesAreTrue`.  The invariant
  `ProbeInv` says that nothing is missing from the log until a write fails
  (`LogInv`), and that the alert being posted is of a divergence exactly
  while the loop escalates one, when its record is in the log or the log is broken
  (`PostingInv`).  The two theorems
  on the timing of alerts need the gate's maps.
  `JustifiedInv`: what `since` says of a key is on record, a sample of that
  instant, and no sample after it that does not breach; an alert that is under
  way rests on such samples.  `SpacingInv`: no alert on record is
  later than the date `fired` keeps for its key, and one that is under way is a
  cooldown after all of its key on record.  The gate dates an alert before it is
  posted, so the dates bound the record whatever is lost in between.
  `TickInv`: the samples on record with the instant of the tick are those of
  the endpoints the loop has passed (`Recorded`), every earlier tick on record is
  whole, and what waits to be posted carries the tick's instant; the alerts and
  divergences recorded in between are no samples (`OthersKeepTicks`).
  `MetricsInv`: each series is what its samples on record add up to, its gauges
  those of the last of them, and all endpoints have the same number of past polls,
  and one more if the loop has passed them.  What counts as on record here is
  `Seen`: the records handed to the log and, while `observed`, the one that is
  about to be (`Pending`).  `ObservedInv` says where the loop is then, and thus
  which one that is; between ticks there is none.  A scrape holds the mutex, so
  it reads a state in which this is true.
* `EvidenceProofs`, the log: `TypeCorrect`, `WrittenDivergencesSurvive`,
  `LossesAreAccountedFor`.  The
  invariant says that a divergence whose `Write` returned is a whole line, alone
  on its line, however long, among the pieces that are synced (`DivergencesSynced`), which no
  failure reaches; and that a writer that has written, and never failed, is at
  the start of a line (`WriterInv`), so that no torn piece precedes it.  For the
  losses, every record that was written ends a line of the file, unless power
  took it (`WrittenKept`); if it cannot be read back that line is malformed, and
  no other record ends it, so mapping what is lost to the lines is an injection
  into the malformed ones, whose number bounds the losses.
* `EvidenceProofs`, the audit: `RowsAreTheRuns`, `PercentilesHold`,
  `TablesTellOneStory`, `FindingsMatch`, `CurrentFirst`, `HedgesFit`, `AlertFits`, for
  any number of endpoints and any evidence, divergences and flags of the types
  that `Parse` and the flag set give them; in particular a failed poll has no lag,
  which is what `ComputeLag` records of one (`lag.go:117`).  The invariant `FullInv` has a part for each
  pass.
  `Passes`: where the audit is; no sample is scanned before all are added.
  `Accumulated`: the accumulator of an endpoint describes exactly the samples of it
  added so far (`Describes`: its counts are their numbers, its lists are their
  readings, one by one, and its extremes bound them); `AddDescribes` is the step.
  `Scanned`: the rows so far are the runs that are closed, each told by one row,
  and two rows share no sample (`IsTable`); the open incident tells of the run that
  ends at `pos` (`IsOpen`); the last step leaves them sorted.  The scan closes an
  incident at the next sample, or at the end of the series, and only then is it
  known to be maximal, so the rows alone are not inductive: without `IsOpen` nothing
  says what is being flushed.  `OpenGoesOn` and `OpenBegins` are the two ways a
  sample joins, `TableGrows` and `TableKept` what a flush does.
  `Reported`: the report is made once, of the final tables.
  The rest is about states in which it is made.
  `StableOrderIsOrder`: arranging by numbers of predecessors sorts, for every
  strict weak order; `BetterIsOrder` and `BeforeIsOrder` are those of the code, the
  first by cross-multiplying shares (`CrossMultiply`).  `ValueAtRank` counts how many
  values are below and not above the one of rank k, from which the percentile,
  the hedge (`PercentilesAscend`, `TenthAbove`) and the alert are bounded.
  `RunOfSample` and `RunPolls` turn the rows back into samples, which is how the
  two tables are compared.
* `CommandProofs`: `CommandImplementsLoop` (`Spec => LoopSafetySpec`),
  `TypeCorrect`, `SignalsEndRunsInOrder`, `LogIsOpenForTheLoop`,
  `CommandJoinsRequests` and `OnlyWhatFitsIsMeasured`, for any files and environment.  The invariant gives
  the stack of deferred calls at every stage (`StackInv`) and says that the loop
  has not begun before `measuring` and is over after it (`LoopInPlace`); the
  handler is on the stack while the loop runs, so a signal only cancels.
  `Configured` says that from `loaded` on, and for good once the loop has begun,
  the configuration fits its file (`Fits`).  `AcceptedFits` makes it so: defaults,
  expansion and overrides field by field (`LoadedFields`, `LoadedEndpoints`); a
  text that still looks like a placeholder came in as the value of a variable
  (`LoadedTexts`: `expand` reads each text once, and does not look at what it
  has put in); and a chain that is counted twice has two different endpoints
  (`ValidPeers`).

Model-checked only: the temporal properties `StopsWhenDue`, `KeepsPolling` and
`DisagreementReported`, which are liveness and out of the prover's reach, and the
four properties of section 6, which do not hold.  Every invariant and every
action property that a passing run checks is a theorem, and so are the
refinements.

The sorts and the fold of the audit are stated so that no induction over data is
needed: a sort by what it returns (`GoSort`), the fold and the scan as actions,
one sample at a time, whose invariants are the induction.

## 6. Where code and words differ

Four runs show these:

* **Lag restarts** (`HeadLag_moved`, `lag.go:125`).  "The time since the network
  moved past it" (`lag.go:95-98`) is computed from the first report of the height
  right above the endpoint's head.  When the network skipped that height
  between two ticks and a slow third endpoint reports it later, the age restarts.
  `NeverOverstated` and `ExactInWindow` say what does hold.
* **A height compared twice** (`HashCheck_twice`, `probe.go:198`), although "never
  twice at the same height" (`probe.go:178-179`): only the last height is kept,
  so a leader that misses one poll and returns brings it back.
* **The divergence gate is never told of agreement** (`Probe_divergence`,
  `probe.go:218`), although callers are to pass the truth "on every tick,
  including when it is false" (`alert.go:163-165`): two unrelated divergences pass
  as one that lasted.
* **`run_finished` is dated at the start** (`Probe_finished`, `probe.go:100`): the
  arguments of a deferred call are evaluated when it is deferred.

Differences met that no run of this project checks:

* `Resolved` returns true only while the condition holds, because
  `Allow(key, false)` has already cleared `active` (`alert.go:190-195`); the
  program never calls it.
* "The earliest observation wins" (`lag.go:60-61`) ends at the window: a pruned
  height that is reported again gets a new date, and such heights stay until the
  highest height rises (`lag.go:69`).
* On an even split all clusters are reported as minority, the first included
  (`divergence.go:119`, `divergence_test.go:77`, `report.go:220`), while the comment
  on the field says "every cluster beyond the first" (`divergence.go:48-50`).
  `MajorityIsStrict` claims what both say, `RowsShowDeviants` what the code does;
  the test settles which of the two is meant.
* A divergence "must survive a crashing probe" (`evidence.go:72-73`), and it does,
  on the file.  But its line quotes up to 1 MiB of the answer of every cluster
  (`client.go:23`), as JSON that escapes some characters sixfold, and if it is longer
  than 8 MiB (`evidence.go:138`) `Parse` returns an error and nothing of the log, this
  divergence or any other record (`evidence.go:190-192`), although lines that cannot
  be decoded are "reported rather than silently dropped" (`evidence.go:116-117`).
  `DivergencesSurvive` and `LossesAreReported` say what holds.
* Without samples the findings are "No samples in the evidence log" only
  (`report.go:109-112`), also when the incident table below them lists
  divergences.
* An honest endpoint stuck on an orphaned block makes a divergence event
  once the others are `finality_depth` ahead (`probe.go:187`, against
  `lag.go:146-148`); `NoFalseDivergence` says how far behind it must be.
* After a cancellation the select may still take a waiting tick, whose polls
  all fail and are recorded as failures of the endpoints (`probe.go:107`).
* The detail of an outage names a class at every change of class, so it grows
  with the outage when classes alternate (`incident.go:131`).
* "No endpoint breached the lag threshold" (`report.go:132`) is also said when
  `--lag-seconds` is the only threshold and the incident table shows a breach of
  it; `FindingsMatchIncidents` says when it is true.
* An endpoint "never led the field" (`report.go:124`) also if its chain had no block
  in any poll: `ComputeLag` names no leader then (`lag.go:118`).
* "A fast endpoint serving stale state is worse than a slightly slower one that
  is current" (`erpc.go:58-59`): an endpoint that never answered has a lag of 0, so it is
  ranked with the current ones, before every endpoint that lags (`erpc.go:62`).
* The timeout of an upstream is clamped to 30 s (`erpc.go:105`), its hedge delay
  is not (`erpc.go:131`), and may be longer.  `HedgeFitsTimeout` says when it is
  not.
* The client accepts a block of another height than the one it asked for
  (`client.go:240`).
* "Any unset `${VAR}`" is refused (`README.md:126`) in URLs, header values and the
  webhook only.
* A file that sets neither `interval` nor `timeout` is always refused, since the
  default timeout is the longer one (`config.go:119`).  A `cooldown` or
  `finality_depth` of 0 means the default; negative `for` and `cooldown` are
  accepted.
* The gauges of an endpoint that fails keep the values of its last answer
  (`metrics.go:104`); only `up` tells.
* A divergence or a sample is counted by the metrics before it is recorded
  (`probe.go:147`, `probe.go:212`): a scrape in between reads
  one the log does not have, and never will if the process is killed there.
* After the first signal the handler stays installed until `cmdRun` returns, so a
  second one does not end a run that hangs in a tick (`main.go:133`).

## 7. Not modelled

Text: report and metrics rendering, alert wording, URL redaction, hex parsing,
the metrics dump tool.  A provider is inferred from the URL before it is
expanded; like regions it travels with the records and decides nothing.  The
latency histogram, its buckets and the count of throttled polls: sums of what
each observation adds.  The classes of an RPC exchange (`rpc.Call`): a chain of
early returns without state, which the unit tests go through case by case.  HTTP
and TLS, and the operating system beyond what `EvidenceLog` says of a file.
Numbers are small integers in place of 64-bit heights and float seconds: no
property here depends on their width.  The second process that could append to
the same log at the same time is left out: the README deploys one binary per
region, each writing its own log.  The incident table that is printed is the
first rows by time of the one modelled.

An alert whose post failed is not posted again before the cooldown has passed,
if the condition still holds then; the code promises no delivery, and no
property here does.

## 8. Plan

Done: every component that decides something is modelled, and every invariant
and action property that is checked is also proved.  What could follow:

1. `Probe` with two chains and both rounds of requests in one run of TLC: the
   theorems hold for any number of chains, the run has one.
2. The log that a run of `Probe` writes as the evidence of `Audit`, in one
   specification: today the audit takes any log of the right types.
