---------------------------- MODULE ProbeProofs ----------------------------
(***************************************************************************)
(* A whole run does to the loop only what RunLoop allows, keeps its state  *)
(* well typed, and leaves a log that is the beginning of what happened, in *)
(* which every alert is justified by the records before it and alerts of   *)
(* one condition are a cooldown apart; its ticks are recorded whole, and   *)
(* its metrics are true at every scrape of the records and of at most one  *)
(* more, observed already: for any number of endpoints and chains and any  *)
(* times and durations.                                                    *)
(***************************************************************************)
EXTENDS Probe, RunLoopProofs, SequenceTheorems, FiniteSetTheorems

(***************************************************************************)
(* Scores, alerts, evidence and metrics do not disturb the control: every  *)
(* step of the probe is a step of the loop or leaves the loop alone.       *)
(***************************************************************************)
THEOREM ImplementsTheLoop == Spec => LoopSafetySpec
<1>1. Init => LoopInit
  BY DEF Init
<1>2. [Next]_vars => [LoopNext]_loopVars
  <2> SUFFICES ASSUME [Next]_vars PROVE LoopNext \/ UNCHANGED loopVars
    OBVIOUS
  <2>1. CASE StartRun \/ ScoreChain \/ PostAlert \/ PostDivergence \/ EndRun
    BY <2>1 DEF StartRun, ScoreChain, PostAlert, PostDivergence, EndRun, LoopNext, MainStep
  <2>2. CASE SkipCheck \/ CheckHashes
    BY <2>2 DEF SkipCheck, CheckHashes, LoopNext, MainStep
  <2>3. CASE RecordSample
    <3>1. Report(AlertsOf(reported + 1) # <<>>)
      BY <2>3 DEF RecordSample
    <3>2. (AlertsOf(reported + 1) # <<>>) \in BOOLEAN
      OBVIOUS
    <3> QED BY <3>1, <3>2 DEF LoopNext, MainStep
  <2>4. CASE HashesAgree \/ RecordDivergence
    <3>1. JoinHashes(Alerts(Diverged, TRUE) # <<>>) \/ JoinHashes(FALSE)
      BY <2>4 DEF HashesAgree, RecordDivergence
    <3>2. (Alerts(Diverged, TRUE) # <<>>) \in BOOLEAN /\ FALSE \in BOOLEAN
      OBVIOUS
    <3> QED BY <3>1, <3>2 DEF LoopNext, MainStep
  <2>5. CASE \E e \in Endpoint : Answer(e)
    BY <2>5 DEF Answer, LoopNext
  <2>6. CASE NextTick \/ LeaveLoop \/ Outside
    BY <2>6 DEF NextTick, LeaveLoop, Outside, LoopNext
  <2>7. CASE ObserveSample \/ HashesDiffer \/ UNCHANGED vars
    BY <2>7 DEF ObserveSample, HashesDiffer, vars
  <2> QED BY <2>1, <2>2, <2>3, <2>4, <2>5, <2>6, <2>7 DEF Next
<1> QED BY <1>1, <1>2, PTL DEF Spec, LoopSafetySpec

\* The control invariant of the loop therefore holds in every run.
LEMMA LoopInvHolds == Spec => []LoopInv
BY ImplementsTheLoop, LoopInvariance, PTL

-----------------------------------------------------------------------------
\* Nothing is missing from the log until a write fails.
LogInv == LogIsPrefix /\ (~broken => Len(log) = Len(facts))

\* The alert under way is of a divergence exactly when the loop escalates
\* one, and then the divergence is on record unless the log is broken.
PostingInv ==
  /\ pc = "escalating" =>
       /\ posting = <<Record("alert", at, Diverged)>>
       /\ ~broken => \E j \in 1 .. Len(log) : log[j] = Record("divergence", at, Diverged)
  /\ pc # "escalating" => \A i \in 1 .. Len(posting) : posting[i].about[1] # "divergence"

ProbeInv == TypeOK /\ LogInv /\ PostingInv /\ DivergenceRecordedFirst

(***************************************************************************)
(* A write appends all of its records or breaks the log.                   *)
(***************************************************************************)
LEMMA WriteAppends ==
  ASSUME TypeOK, LogInv, NEW r \in Seq(Records), Write(r)
  PROVE  /\ log' \in Seq(Records) /\ facts' \in Seq(Records) /\ broken' \in BOOLEAN
         /\ LogInv'
         /\ ~broken' => ~broken /\ log' = log \o r
         /\ broken' => log' = log
<1>1. log \in Seq(Records) /\ facts \in Seq(Records) /\ broken \in BOOLEAN
  BY DEF TypeOK
<1>2. /\ facts' = facts \o r /\ broken' \in BOOLEAN
      /\ ~broken' => ~broken /\ log' = log \o r
      /\ broken' => log' = log
  BY <1>1 DEF Write
<1>3. /\ facts \o r \in Seq(Records) /\ Len(facts \o r) = Len(facts) + Len(r)
      /\ \A i \in 1 .. Len(facts) + Len(r) :
           (facts \o r)[i] = IF i <= Len(facts) THEN facts[i] ELSE r[i - Len(facts)]
  BY <1>1, ConcatProperties
<1>4. /\ log \o r \in Seq(Records) /\ Len(log \o r) = Len(log) + Len(r)
      /\ \A i \in 1 .. Len(log) + Len(r) :
           (log \o r)[i] = IF i <= Len(log) THEN log[i] ELSE r[i - Len(log)]
  BY <1>1, ConcatProperties
<1>5. /\ Len(log) \in Nat /\ Len(facts) \in Nat /\ Len(r) \in Nat
      /\ Len(log) <= Len(facts) /\ (~broken => Len(log) = Len(facts))
      /\ \A i \in 1 .. Len(log) : log[i] = facts[i]
  BY <1>1, LenProperties DEF LogInv, LogIsPrefix
<1>6. CASE broken'
  <2>1. \A i \in 1 .. Len(log) : log'[i] = facts'[i]
    BY <1>2, <1>3, <1>5, <1>6
  <2>2. Len(log') <= Len(facts') /\ DOMAIN log' = 1 .. Len(log)
    BY <1>1, <1>2, <1>3, <1>5, <1>6, LenProperties
  <2> QED BY <1>1, <1>2, <1>3, <1>6, <2>1, <2>2 DEF LogInv, LogIsPrefix
<1>7. CASE ~broken'
  <2>1. /\ log' \in Seq(Records) /\ facts' \in Seq(Records)
        /\ Len(log') = Len(log) + Len(r) /\ Len(facts') = Len(log')
        /\ DOMAIN log' = 1 .. Len(log) + Len(r)
    BY <1>2, <1>3, <1>4, <1>5, <1>7, LenProperties
  <2>2. ASSUME NEW i \in 1 .. Len(log) + Len(r) PROVE log'[i] = facts'[i]
    <3>1. log'[i] = IF i <= Len(log) THEN log[i] ELSE r[i - Len(log)]
      BY <1>2, <1>4, <1>7, <2>2
    <3>2. facts'[i] = IF i <= Len(log) THEN facts[i] ELSE r[i - Len(log)]
      BY <1>2, <1>3, <1>5, <1>7, <2>2
    <3>3. i <= Len(log) => log[i] = facts[i]
      BY <1>5, <2>2
    <3> QED BY <3>1, <3>2, <3>3
  <2>3. LogInv'
    <3>1. Len(log') <= Len(facts')
      BY <1>5, <2>1
    <3> QED BY <2>1, <2>2, <3>1 DEF LogInv, LogIsPrefix
  <2> QED BY <1>2, <1>7, <2>1, <2>3
<1> QED BY <1>6, <1>7

(***************************************************************************)
(* What a write appends keeps divergence alerts behind their records, when *)
(* each such alert finds its record in the log already.                    *)
(***************************************************************************)
LEMMA WriteKeepsOrder ==
  ASSUME TypeOK, LogInv, DivergenceRecordedFirst, NEW r \in Seq(Records), Write(r),
         \A i \in 1 .. Len(r) :
           ~broken /\ r[i].type = "alert" /\ r[i].about[1] = "divergence" =>
             \E j \in 1 .. Len(log) :
               log[j].type = "divergence" /\ log[j].ts = r[i].ts /\ log[j].about = r[i].about
  PROVE  DivergenceRecordedFirst'
<1>1. CASE broken'
  <2>1. log' = log
    BY <1>1, WriteAppends
  <2> QED BY <2>1 DEF DivergenceRecordedFirst, Positions
<1>2. CASE ~broken'
  <2> DEFINE n == Len(log)
  <2>1. /\ log \in Seq(Records) /\ n \in Nat /\ Len(r) \in Nat
        /\ DOMAIN log = 1 .. n
    BY LenProperties DEF TypeOK
  <2>2. /\ ~broken /\ log' = log \o r /\ log' \in Seq(Records)
        /\ Len(log') = n + Len(r)
        /\ \A i \in 1 .. n + Len(r) : log'[i] = IF i <= n THEN log[i] ELSE r[i - n]
    BY <1>2, <2>1, WriteAppends, ConcatProperties
  <2> SUFFICES ASSUME NEW i \in 1 .. n + Len(r),
                      log'[i].type = "alert", log'[i].about[1] = "divergence"
               PROVE  \E j \in 1 .. i - 1 :
                        /\ log'[j].type = "divergence" /\ log'[j].ts = log'[i].ts
                        /\ log'[j].about = log'[i].about
    <3>1. DOMAIN log' = 1 .. n + Len(r)
      BY <2>2, LenProperties
    <3> QED BY <3>1 DEF DivergenceRecordedFirst, Positions
  <2>3. CASE i <= n
    <3>1. i \in Positions("alert") /\ log[i].about[1] = "divergence" /\ log'[i] = log[i]
      BY <2>1, <2>2, <2>3 DEF Positions
    <3>2. PICK j \in 1 .. i - 1 :
            log[j].type = "divergence" /\ log[j].ts = log[i].ts /\ log[j].about = log[i].about
      BY <3>1 DEF DivergenceRecordedFirst
    <3>3. log'[j] = log[j]
      BY <2>1, <2>2, <2>3
    <3> QED BY <3>1, <3>2, <3>3
  <2>4. CASE ~(i <= n)
    <3>1. i - n \in 1 .. Len(r) /\ log'[i] = r[i - n]
      BY <2>1, <2>2, <2>4
    <3>2. PICK j \in 1 .. n : /\ log[j].type = "divergence" /\ log[j].ts = r[i - n].ts
                              /\ log[j].about = r[i - n].about
      BY <2>2, <3>1
    <3>3. log'[j] = log[j] /\ j \in 1 .. i - 1
      BY <2>1, <2>2, <2>4
    <3> QED BY <3>1, <3>2, <3>3
  <2> QED BY <2>3, <2>4
<1> QED BY <1>1, <1>2

\* The gate's maps stay typed, whatever it is told.
LEMMA GateTyped ==
  ASSUME NEW snc, IsMap(snc, Key, Time), NEW frd, IsMap(frd, Key, Time),
         NEW k \in Key, NEW b \in BOOLEAN, NEW now \in Time
  PROVE  /\ IsMap(Gate!SinceAfter(snc, k, b, now), Key, Time)
         /\ IsMap(Gate!FiredAfter(snc, frd, k, b, now), Key, Time)
<1>1. Gate!Start(snc, k, now) \in Time
  BY DEF Gate!Start, IsMap
<1>2. IsMap(Gate!SinceAfter(snc, k, b, now), Key, Time)
  BY <1>1 DEF Gate!SinceAfter, IsMap, Gate!Put, Gate!Del
<1>3. IsMap(Gate!FiredAfter(snc, frd, k, b, now), Key, Time)
  BY DEF Gate!FiredAfter, IsMap, Gate!Put
<1> QED BY <1>2, <1>3

\* The registry stays typed, whatever is observed.
LEMMA SeriesTyped ==
  ASSUME NEW K, NEW L, 0 \in L, NEW m, IsMap(m, K, Series(L)), NEW k \in K,
         NEW healthy \in BOOLEAN, NEW lag, healthy => lag \in L
  PROVE  IsMap(ObserveLag(m, k, healthy, lag), K, Series(L))
<1> DEFINE s == ForEndpoint(m, k)
           class == IF healthy THEN "ok" ELSE "failed"
           new == [up |-> IF healthy THEN 1 ELSE 0,
                   lag |-> IF healthy THEN lag ELSE s.lag,
                   requests |-> [s.requests EXCEPT ![class] = @ + 1]]
<1>1. s \in Series(L)
  BY DEF ForEndpoint, NewSeries, Series, IsMap
<1>2. s.lag \in L /\ s.requests \in [{"ok", "failed"} -> Nat] /\ class \in {"ok", "failed"}
  BY <1>1 DEF Series
<1>3. [s.requests EXCEPT ![class] = @ + 1] \in [{"ok", "failed"} -> Nat]
  BY <1>2
<1>4. new \in Series(L)
  BY <1>2, <1>3 DEF Series
<1>5. ObserveLag(m, k, healthy, lag) = Put(m, k, new)
  BY DEF ObserveLag
<1> HIDE DEF new
<1> QED BY <1>4, <1>5 DEF Put, IsMap

LEMMA CountTyped ==
  ASSUME NEW K, NEW m, IsMap(m, K, Nat), NEW k \in K
  PROVE  IsMap(ObserveDivergence(m, k), K, Nat)
BY DEF ObserveDivergence, Put, IsMap

\* Inside a tick a chain is being measured, and its keys are keys.
LEMMA TickTyped ==
  ASSUME LoopInv, TypeOK,
         pc \in {"polling", "reporting", "posting", "fetching", "escalating"}
  PROVE  /\ chain \in Chain
         /\ Diverged \in Key
         /\ \A e \in Endpoint : Unavailable(e) \in Key /\ Lagging(e) \in Key
<1>1. chain \in Chain
  BY LoopAssumption DEF LoopInv, LoopTypeOK, ChainOfTick, Chain
<1> QED BY <1>1 DEF Diverged, Unavailable, Lagging, Key

\* What the gate lets through is a sequence of records, all of its key.
LEMMA AlertsTyped ==
  ASSUME TypeOK, NEW k \in Key, NEW b \in BOOLEAN
  PROVE  /\ Alerts(k, b) \in Seq(Records)
         /\ Alerts(k, b) \in {<<>>, <<Record("alert", at, k)>>}
<1>1. Record("alert", at, k) \in Records
  BY DEF TypeOK, Record, Records
<1> QED BY <1>1 DEF Alerts

-----------------------------------------------------------------------------
(* Every action preserves the invariant; the loop's own invariant is known *)
(* before and after it.                                                    *)

\* The invariant holds before the run.
LEMMA ProbeInitInv == Init => ProbeInv
<1> SUFFICES ASSUME Init PROVE ProbeInv
  OBVIOUS
<1> USE ProbeAssumption
<1>1. LoopTypeOK /\ pc = "starting"
  BY LoopInitInv DEF Init, LoopInv, LoopInit
<1>2. /\ at \in Time /\ head \in [Endpoint -> PolledHead]
      /\ lastHashCheck \in [Chain -> Time]
  BY DEF Init, Time, PolledHead
<1>3. /\ IsMap(since, Key, Time) /\ IsMap(fired, Key, Time)
      /\ IsMap(registry, Chain \X Endpoint, Series({0, 1})) /\ IsMap(divergences, Chain, Nat)
  BY DEF Init, IsMap, EmptyMap
<1>4. /\ posting = <<>> /\ log = <<>> /\ facts = <<>> /\ compared = <<>> /\ broken = FALSE
  BY DEF Init
<1>5. TypeOK
  <2>1. /\ log \in Seq(Records) /\ facts \in Seq(Records) /\ posting \in Seq(Records)
        /\ compared \in Seq([chain : Chain, at : Time, found : BOOLEAN])
    BY <1>4
  <2>2. broken \in BOOLEAN /\ observed \in BOOLEAN
    BY <1>4 DEF Init
  <2> QED BY <1>1, <1>2, <1>3, <2>1, <2>2 DEF TypeOK
<1>6. LogInv /\ PostingInv /\ DivergenceRecordedFirst
  BY <1>1, <1>4 DEF LogInv, LogIsPrefix, PostingInv, DivergenceRecordedFirst, Positions
<1> QED BY <1>5, <1>6 DEF ProbeInv

(***************************************************************************)
(* A step that writes nothing and touches neither the gate nor an alert    *)
(* keeps the invariant, when it is typed and does not escalate.            *)
(***************************************************************************)
LEMMA QuietStepKeepsInv ==
  ASSUME ProbeInv, TypeOK', UNCHANGED <<posting, logVars>>,
         pc # "escalating", pc' # "escalating"
  PROVE  ProbeInv'
<1>1. LogInv' /\ DivergenceRecordedFirst'
  BY DEF ProbeInv, LogInv, LogIsPrefix, DivergenceRecordedFirst, Positions, logVars
<1>2. PostingInv'
  BY DEF ProbeInv, PostingInv
<1> QED BY <1>1, <1>2 DEF ProbeInv

\* An answer sets one head of the chain being polled.
LEMMA AnswerKeepsInv ==
  ASSUME ProbeInv, LoopInv, LoopInv', NEW e \in Endpoint, Answer(e) PROVE ProbeInv'
<1>1. pc \in {"polling", "fetching"} /\ pc' = pc
  BY DEF Answer, Return, LoopInv, RequestsAreJoined
<1>2. head' \in [Endpoint -> PolledHead]
  BY DEF Answer, ProbeInv, TypeOK
<1>3. TypeOK'
  BY <1>2 DEF Answer, ProbeInv, TypeOK, LoopInv, gateVars, logVars, hashVars
<1> QED BY <1>1, <1>3, QuietStepKeepsInv DEF Answer

\* Steps that change only the instant, the heads and the loop stay typed.
LEMMA NewTickTyped ==
  ASSUME ProbeInv, LoopInv', NewTick \/ UNCHANGED at, NoSamples \/ UNCHANGED head,
         UNCHANGED <<gateVars, posting, logVars, observed, registry, hashVars>>
  PROVE  TypeOK'
<1>1. at' \in Time /\ head' \in [Endpoint -> PolledHead]
  BY DEF NewTick, NoSamples, ProbeInv, TypeOK, PolledHead
<1> QED BY <1>1 DEF ProbeInv, TypeOK, LoopInv, gateVars, logVars, hashVars

\* The steps that only move the loop.
LEMMA LoopStepsKeepInv ==
  ASSUME ProbeInv, LoopInv, LoopInv',
         ScoreChain \/ SkipCheck \/ NextTick \/ LeaveLoop \/ Outside
  PROVE  ProbeInv'
<1>1. TypeOK'
  BY NewTickTyped DEF ScoreChain, SkipCheck, NextTick, LeaveLoop, Outside
<1>2. UNCHANGED <<posting, logVars>>
  BY DEF ScoreChain, SkipCheck, NextTick, LeaveLoop, Outside
<1>3. CASE ScoreChain \/ SkipCheck \/ NextTick \/ LeaveLoop
  <2>1. pc # "escalating" /\ pc' # "escalating"
    BY <1>3 DEF ScoreChain, JoinPolls, SkipCheck, SkipHashes, EndChain, EndOf, PollChain,
                NextTick, SelectTicker, LeaveLoop, SelectDone
  <2> QED BY <1>1, <1>2, <2>1, QuietStepKeepsInv
<1>4. CASE Outside
  <2>1. UNCHANGED <<pc, chain, at>>
    BY <1>4 DEF Outside, TickerFires, Cancel
  <2>2. LogInv'
    BY <1>2 DEF ProbeInv, LogInv, LogIsPrefix, logVars
  <2>3. DivergenceRecordedFirst'
    BY <1>2 DEF ProbeInv, DivergenceRecordedFirst, Positions, logVars
  <2>4. PostingInv'
    BY <1>2, <2>1 DEF ProbeInv, PostingInv, Diverged, logVars
  <2> QED BY <1>1, <2>2, <2>3, <2>4 DEF ProbeInv
<1> QED BY <1>3, <1>4

\* A comparison takes the instant of its tick.
LEMMA CheckHashesKeepsInv ==
  ASSUME ProbeInv, LoopInv, LoopInv', CheckHashes PROVE ProbeInv'
<1>1. pc = "reporting" /\ pc' = "fetching"
  BY DEF CheckHashes, FetchHashes
<1>2. lastHashCheck' \in [Chain -> Time]
  BY DEF CheckHashes, ProbeInv, TypeOK
<1>3. TypeOK'
  BY <1>2 DEF CheckHashes, ProbeInv, TypeOK, LoopInv, gateVars, logVars
<1> QED BY <1>1, <1>3, QuietStepKeepsInv DEF CheckHashes

(***************************************************************************)
(* A step that writes records none of which is a divergence alert.         *)
(***************************************************************************)
LEMMA WriteStepKeepsLog ==
  ASSUME ProbeInv, NEW r \in Seq(Records), Write(r),
         \A i \in 1 .. Len(r) : r[i].type = "alert" => r[i].about[1] # "divergence"
  PROVE  /\ log' \in Seq(Records) /\ facts' \in Seq(Records) /\ broken' \in BOOLEAN
         /\ LogInv' /\ DivergenceRecordedFirst'
BY WriteAppends, WriteKeepsOrder DEF ProbeInv

\* The first and the last step of a run write its first and last record.
LEMMA EdgesKeepInv ==
  ASSUME ProbeInv, LoopInv, LoopInv', StartRun \/ EndRun PROVE ProbeInv'
<1> USE ProbeAssumption
<1> DEFINE s == Record("run_started", 0, <<>>)
           f == Record("run_finished", 0, <<>>)
<1>1. PICK r \in {<<>>, <<s>>, <<f>>} : Write(r)
  BY DEF StartRun, EndRun
<1>2. /\ s \in Records /\ s.type # "alert"
      /\ f \in Records /\ f.type # "alert"
  BY DEF Record, Records, Time
<1> HIDE DEF s, f
<1>3. /\ r \in Seq(Records)
      /\ \A i \in 1 .. Len(r) : r[i].type # "alert"
  <2>1. CASE r = <<>>
    BY <2>1
  <2>2. CASE r = <<s>>
    BY <1>2, <2>2
  <2>3. CASE r = <<f>>
    BY <1>2, <2>3
  <2> QED BY <1>1, <2>1, <2>2, <2>3
<1>4. /\ log' \in Seq(Records) /\ facts' \in Seq(Records) /\ broken' \in BOOLEAN
      /\ LogInv' /\ DivergenceRecordedFirst'
  BY <1>1, <1>3, WriteStepKeepsLog
<1>5. at' \in Time /\ head' \in [Endpoint -> PolledHead]
  BY DEF StartRun, EndRun, NoSamples, ProbeInv, TypeOK, PolledHead, Time
<1>6. UNCHANGED <<gateVars, posting, observed, registry, hashVars>>
  BY DEF StartRun, EndRun
<1>7. TypeOK'
  BY <1>4, <1>5, <1>6 DEF ProbeInv, TypeOK, LoopInv, gateVars, hashVars
<1>8. pc # "escalating" /\ pc' # "escalating"
  BY DEF StartRun, EndRun, Start, Close, PollChain
<1>9. PostingInv'
  BY <1>6, <1>8 DEF ProbeInv, PostingInv
<1> QED BY <1>4, <1>7, <1>9 DEF ProbeInv

\* A sample is counted before it is recorded.
LEMMA ObserveSampleKeepsInv ==
  ASSUME ProbeInv, LoopInv, LoopInv', ObserveSample PROVE ProbeInv'
<1> DEFINE e == reported + 1
<1>1. /\ pc = "reporting" /\ pc' = pc /\ e \in Endpoint
      /\ registry' = ObserveLag(registry, <<chain, e>>, head[e] # 0, Best - head[e])
      /\ observed' = TRUE
      /\ UNCHANGED <<loopVars, at, head, gateVars, posting, logVars, hashVars>>
  BY LoopAssumption DEF ObserveSample, LoopInv, LoopTypeOK, Endpoint, loopVars
<1>2. chain \in Chain
  BY <1>1, TickTyped DEF ProbeInv
<1>3. IsMap(registry', Chain \X Endpoint, Series({0, 1}))
  <2>1. head[e] # 0 => Best - head[e] \in {0, 1}
    <3>1. head[e] \in 0 .. 2
      BY <1>1 DEF ProbeInv, TypeOK, PolledHead
    <3>2. CASE head[e] = 1
      BY <1>1, <3>2 DEF Best
    <3>3. CASE head[e] = 2
      BY <1>1, <3>3 DEF Best
    <3> QED BY <3>1, <3>2, <3>3
  <2>2. <<chain, e>> \in Chain \X Endpoint /\ (head[e] # 0) \in BOOLEAN
    BY <1>1, <1>2
  <2> QED BY <1>1, <2>1, <2>2, SeriesTyped DEF ProbeInv, TypeOK
<1>4. TypeOK'
  BY <1>1, <1>3 DEF ProbeInv, TypeOK, LoopInv, gateVars, logVars, hashVars
<1> QED BY <1>1, <1>4, QuietStepKeepsInv

\* A sample is written and put to the gate.
LEMMA RecordSampleKeepsInv ==
  ASSUME ProbeInv, LoopInv, LoopInv', RecordSample PROVE ProbeInv'
<1> DEFINE e == reported + 1
           r == <<Record("lag", at, <<Score(e), chain, e>>)>>
<1>1. /\ Report(AlertsOf(e) # <<>>)
      /\ Write(r)
      /\ AskGate(e)
      /\ posting' = AlertsOf(e)
      /\ observed' = FALSE
      /\ UNCHANGED <<at, head, registry, hashVars>>
  BY DEF RecordSample, SampleRecord
<1>2. pc = "reporting" /\ pc' # "escalating" /\ e \in Endpoint
  BY <1>1, LoopAssumption DEF Report, LoopInv, LoopTypeOK, Endpoint
<1>3. chain \in Chain /\ Unavailable(e) \in Key /\ Lagging(e) \in Key
  BY <1>2, TickTyped DEF ProbeInv
<1>4. /\ r \in Seq(Records)
      /\ \A i \in 1 .. Len(r) : r[i].type # "alert"
  <2>1. Score(e) \in {"failed", "lagging", "fresh"}
    BY DEF Score
  <2>2. <<Score(e), chain, e>> \in {"failed", "lagging", "fresh"} \X Chain \X Endpoint
    BY <1>2, <1>3, <2>1
  <2>3. at \in Time
    BY DEF ProbeInv, TypeOK
  <2>4. Record("lag", at, <<Score(e), chain, e>>) \in Records
    BY <2>2, <2>3 DEF Record, Records
  <2>5. Record("lag", at, <<Score(e), chain, e>>).type = "lag"
    BY DEF Record
  <2> QED BY <2>4, <2>5
<1>5. /\ log' \in Seq(Records) /\ facts' \in Seq(Records) /\ broken' \in BOOLEAN
      /\ LogInv' /\ DivergenceRecordedFirst'
  BY <1>1, <1>4, WriteStepKeepsLog
<1>6. IsMap(since', Key, Time) /\ IsMap(fired', Key, Time)
  <2> DEFINE bad == Score(e) = "failed"
             behind == Score(e) = "lagging"
             since1 == Gate!SinceAfter(since, Unavailable(e), bad, at)
             fired1 == Gate!FiredAfter(since, fired, Unavailable(e), bad, at)
  <2>1. /\ since' = Gate!SinceAfter(since1, Lagging(e), behind, at)
        /\ fired' = Gate!FiredAfter(since1, fired1, Lagging(e), behind, at)
    BY <1>1 DEF AskGate
  <2>2. at \in Time /\ bad \in BOOLEAN /\ behind \in BOOLEAN
        /\ IsMap(since, Key, Time) /\ IsMap(fired, Key, Time)
    BY DEF ProbeInv, TypeOK
  <2> HIDE DEF bad, behind
  <2>3. IsMap(since1, Key, Time) /\ IsMap(fired1, Key, Time)
    BY <1>3, <2>2, GateTyped
  <2> HIDE DEF since1, fired1
  <2> QED BY <1>3, <2>1, <2>2, <2>3, GateTyped
<1>7. /\ posting' \in Seq(Records)
      /\ \A i \in 1 .. Len(posting') : posting'[i].about[1] # "divergence"
  <2> DEFINE a == Alerts(Unavailable(e), Score(e) = "failed")
             b == Alerts(Lagging(e), Score(e) = "lagging")
  <2>1. /\ a \in Seq(Records) /\ a \in {<<>>, <<Record("alert", at, Unavailable(e))>>}
        /\ b \in Seq(Records) /\ b \in {<<>>, <<Record("alert", at, Lagging(e))>>}
    BY <1>3, AlertsTyped DEF ProbeInv
  <2>2. /\ Record("alert", at, Unavailable(e)).about[1] # "divergence"
        /\ Record("alert", at, Lagging(e)).about[1] # "divergence"
    BY DEF Record, Unavailable, Lagging
  <2>3. /\ \A i \in 1 .. Len(a) : a[i].about[1] # "divergence"
        /\ \A i \in 1 .. Len(b) : b[i].about[1] # "divergence"
    BY <2>1, <2>2
  <2>4. posting' = a \o b
    BY <1>1 DEF AlertsOf
  <2> HIDE DEF a, b
  <2>5. /\ a \o b \in Seq(Records) /\ Len(a \o b) = Len(a) + Len(b)
        /\ \A i \in 1 .. Len(a) + Len(b) :
             (a \o b)[i] = IF i <= Len(a) THEN a[i] ELSE b[i - Len(a)]
    BY <2>1, ConcatProperties
  <2>6. Len(a) \in Nat /\ Len(b) \in Nat
    BY <2>1
  <2>7. ASSUME NEW i \in 1 .. Len(a) + Len(b) PROVE posting'[i].about[1] # "divergence"
    <3>1. CASE i <= Len(a)
      BY <2>3, <2>4, <2>5, <2>6, <3>1
    <3>2. CASE ~(i <= Len(a))
      <4>1. i - Len(a) \in 1 .. Len(b) /\ posting'[i] = b[i - Len(a)]
        BY <2>4, <2>5, <2>6, <3>2
      <4> QED BY <2>3, <4>1
    <3> QED BY <3>1, <3>2
  <2> QED BY <2>4, <2>5, <2>7
<1>8. TypeOK'
  BY <1>1, <1>5, <1>6, <1>7 DEF ProbeInv, TypeOK, LoopInv, hashVars
<1>9. PostingInv'
  BY <1>2, <1>7 DEF PostingInv
<1> QED BY <1>5, <1>8, <1>9 DEF ProbeInv

\* A delivered alert is recorded; a divergence alert behind its record.
LEMMA DeliverKeepsInv ==
  ASSUME ProbeInv, LoopInv, LoopInv', PostAlert \/ PostDivergence PROVE ProbeInv'
<1>1. PICK r \in {<<>>, posting} : Write(r)
  <2>1. PICK delivered \in BOOLEAN : Write(IF delivered THEN posting ELSE <<>>)
    BY DEF PostAlert, PostDivergence, Deliver
  <2>2. CASE delivered
    BY <2>1, <2>2
  <2>3. CASE ~delivered
    BY <2>1, <2>3
  <2> QED BY <2>2, <2>3
<1>2. r \in Seq(Records)
  <2>1. posting \in Seq(Records) /\ <<>> \in Seq(Records)
    BY DEF ProbeInv, TypeOK
  <2> QED BY <1>1, <2>1
<1>3. ASSUME NEW i \in 1 .. Len(r), ~broken, r[i].type = "alert", r[i].about[1] = "divergence"
      PROVE  \E j \in 1 .. Len(log) :
               log[j].type = "divergence" /\ log[j].ts = r[i].ts /\ log[j].about = r[i].about
  <2>1. r = posting /\ pc = "escalating"
    <3>1. r # <<>>
      <4>1. CASE r = <<>>
        <5>1. Len(r) = 0
          BY <4>1
        <5> QED BY <1>3, <5>1
      <4> QED BY <4>1
    <3>2. r = posting
      BY <1>1, <3>1
    <3>3. posting[i].about[1] = "divergence" /\ i \in 1 .. Len(posting)
      BY <1>3, <3>2
    <3> QED BY <3>2, <3>3 DEF ProbeInv, PostingInv
  <2>2. r[i] = Record("alert", at, Diverged)
    <3> DEFINE a == Record("alert", at, Diverged)
    <3>1. r = <<a>>
      BY <2>1 DEF ProbeInv, PostingInv
    <3> HIDE DEF a
    <3>2. i = 1
      BY <1>3, <3>1
    <3>3. r[i] = a
      BY <3>1, <3>2
    <3> QED BY <3>3 DEF a
  <2>3. PICK j \in 1 .. Len(log) : log[j] = Record("divergence", at, Diverged)
    BY <1>3, <2>1 DEF ProbeInv, PostingInv
  <2> QED BY <2>2, <2>3 DEF Record
<1>4. /\ log' \in Seq(Records) /\ facts' \in Seq(Records) /\ broken' \in BOOLEAN
      /\ LogInv' /\ DivergenceRecordedFirst'
  BY <1>1, <1>2, <1>3, WriteAppends, WriteKeepsOrder DEF ProbeInv
<1>5. /\ posting' = <<>> /\ UNCHANGED <<at, gateVars, observed, registry, hashVars>>
      /\ head' \in [Endpoint -> PolledHead]
  BY DEF PostAlert, PostDivergence, Deliver, NoSamples, PolledHead, ProbeInv, TypeOK
<1>6. pc' # "escalating"
  BY DEF PostAlert, PostDivergence, Posted, Escalated, EndChain, EndOf, PollChain
<1>7. TypeOK'
  BY <1>4, <1>5 DEF ProbeInv, TypeOK, LoopInv, gateVars, hashVars
<1>8. PostingInv'
  BY <1>5, <1>6 DEF PostingInv
<1> QED BY <1>4, <1>7, <1>8 DEF ProbeInv

\* A comparison that finds no divergence, and the count of one that does.
LEMMA CompareKeepsInv ==
  ASSUME ProbeInv, LoopInv, LoopInv', HashesAgree \/ HashesDiffer PROVE ProbeInv'
<1>1. /\ pc = "fetching" /\ chain \in Chain
      /\ UNCHANGED <<at, lastHashCheck, registry, gateVars, logVars, posting>>
  BY TickTyped DEF HashesAgree, HashesDiffer, JoinHashes, ProbeInv
<1>2. pc' # "escalating"
  BY <1>1 DEF HashesAgree, HashesDiffer, JoinHashes, EndChain, EndOf, PollChain, loopVars
<1>3. compared' \in Seq([chain : Chain, at : Time, found : BOOLEAN])
  <2>1. compared \in Seq([chain : Chain, at : Time, found : BOOLEAN]) /\ at \in Time
    BY DEF ProbeInv, TypeOK
  <2>2. PICK found \in BOOLEAN : Compare(found)
    BY DEF HashesAgree, HashesDiffer
  <2>3. [chain |-> chain, at |-> at, found |-> found]
          \in [chain : Chain, at : Time, found : BOOLEAN]
    BY <1>1, <2>1
  <2> QED BY <2>1, <2>2, <2>3 DEF Compare
<1>4. head' \in [Endpoint -> PolledHead] /\ observed' \in BOOLEAN
  <2>1. CASE HashesAgree
    BY <2>1 DEF HashesAgree, NoSamples, PolledHead, ProbeInv, TypeOK
  <2>2. CASE HashesDiffer
    BY <2>2 DEF HashesDiffer, ProbeInv, TypeOK
  <2> QED BY <2>1, <2>2
<1>5. IsMap(divergences', Chain, Nat)
  <2>1. IsMap(divergences, Chain, Nat)
    BY DEF ProbeInv, TypeOK
  <2>2. CASE HashesAgree
    BY <2>1, <2>2 DEF HashesAgree
  <2>3. CASE HashesDiffer
    BY <1>1, <2>1, <2>3, CountTyped DEF HashesDiffer
  <2> QED BY <2>2, <2>3
<1>6. TypeOK'
  BY <1>1, <1>3, <1>4, <1>5 DEF ProbeInv, TypeOK, LoopInv, gateVars, logVars
<1> QED BY <1>1, <1>2, <1>6, QuietStepKeepsInv

(***************************************************************************)
(* A divergence is on record before the loop escalates it.                 *)
(***************************************************************************)
LEMMA RecordDivergenceKeepsInv ==
  ASSUME ProbeInv, LoopInv, LoopInv', RecordDivergence PROVE ProbeInv'
<1> DEFINE d == Record("divergence", at, Diverged)
           a == Alerts(Diverged, TRUE)
<1>1. pc = "fetching" /\ chain \in Chain /\ Diverged \in Key
  BY TickTyped DEF RecordDivergence, JoinHashes, ProbeInv
<1>2. /\ head' \in [Endpoint -> PolledHead] /\ observed' = FALSE
      /\ UNCHANGED <<at, registry, hashVars>>
  BY DEF RecordDivergence, NoSamples, PolledHead
<1>3. /\ JoinHashes(a # <<>>)
      /\ Write(<<d>>)
      /\ since' = Gate!SinceAfter(since, Diverged, TRUE, at)
      /\ fired' = Gate!FiredAfter(since, fired, Diverged, TRUE, at)
      /\ posting' = a
  BY DEF RecordDivergence, DivergenceRecord
<1>4. d \in Records /\ d.type = "divergence"
  BY <1>1 DEF Record, Records, ProbeInv, TypeOK
<1>5. a \in Seq(Records) /\ a \in {<<>>, <<Record("alert", at, Diverged)>>}
  BY <1>1, AlertsTyped DEF ProbeInv
<1> HIDE DEF a, d
<1>6. <<d>> \in Seq(Records) /\ \A i \in 1 .. Len(<<d>>) : <<d>>[i].type # "alert"
  BY <1>4
<1>7. /\ log' \in Seq(Records) /\ facts' \in Seq(Records) /\ broken' \in BOOLEAN
      /\ LogInv' /\ DivergenceRecordedFirst'
  BY <1>3, <1>6, WriteStepKeepsLog
<1>8. IsMap(since', Key, Time) /\ IsMap(fired', Key, Time)
  BY <1>1, <1>3, GateTyped DEF ProbeInv, TypeOK
<1>9. TypeOK'
  BY <1>2, <1>3, <1>5, <1>7, <1>8 DEF ProbeInv, TypeOK, LoopInv, hashVars
<1>10. PostingInv'
  <2>1. CASE a = <<>>
    <3>1. pc' # "escalating"
      BY <1>3, <2>1 DEF JoinHashes, EndChain, EndOf, PollChain
    <3> QED BY <1>3, <2>1, <3>1 DEF PostingInv
  <2>2. CASE a # <<>>
    <3>1. pc' = "escalating" /\ chain' = chain /\ at' = at
      BY <1>2, <1>3, <2>2 DEF JoinHashes
    <3>2. posting' = <<Record("alert", at, Diverged)>> /\ Diverged' = Diverged
      BY <1>3, <1>5, <2>2, <3>1 DEF Diverged
    <3>3. ASSUME ~broken' PROVE \E j \in 1 .. Len(log') : log'[j] = d
      <4>1. log' = log \o <<d>> /\ log \in Seq(Records) /\ <<d>> \in Seq(Records)
        BY <1>3, <1>6, <3>3, WriteAppends DEF ProbeInv, TypeOK
      <4>2. Len(log') = Len(log) + 1 /\ Len(log) \in Nat /\ log'[Len(log) + 1] = d
        BY <4>1, ConcatProperties
      <4> QED BY <4>2
    <3> QED BY <3>1, <3>2, <3>3 DEF PostingInv, d, Record
  <2> QED BY <2>1, <2>2
<1> QED BY <1>7, <1>9, <1>10 DEF ProbeInv

\* The inductive invariant holds in every reachable state.
LEMMA ProbeInvariance == Spec => []ProbeInv
<1>1. ProbeInv /\ LoopInv /\ LoopInv' /\ [Next]_vars => ProbeInv'
  <2> SUFFICES ASSUME ProbeInv, LoopInv, LoopInv', [Next]_vars PROVE ProbeInv'
    OBVIOUS
  <2>1. CASE UNCHANGED vars
    <3>1. TypeOK' /\ LogInv' /\ DivergenceRecordedFirst'
      BY <2>1 DEF vars, gateVars, logVars, hashVars, ProbeInv, TypeOK, LoopInv, LogInv,
                  LogIsPrefix, DivergenceRecordedFirst, Positions
    <3>2. PostingInv'
      BY <2>1 DEF vars, loopVars, logVars, ProbeInv, PostingInv, Record, Diverged
    <3> QED BY <3>1, <3>2 DEF ProbeInv
  <2>2. CASE Next
    BY <2>2, AnswerKeepsInv, LoopStepsKeepInv, CheckHashesKeepsInv, EdgesKeepInv,
       ObserveSampleKeepsInv, RecordSampleKeepsInv, DeliverKeepsInv, CompareKeepsInv,
       RecordDivergenceKeepsInv DEF Next
  <2> QED BY <2>1, <2>2
<1> QED BY <1>1, ProbeInitInv, LoopInvHolds, PTL DEF Spec

-----------------------------------------------------------------------------
(* The spacing of alerts.  The gate's map `fired` dates the last alert it  *)
(* let through for a key, delivered or not; so no alert on record is later *)
(* than that, and one that is under way is Cooldown after all of its key   *)
(* that are on record.                                                     *)

FactsSpaced(fs, frd) ==
  \A i \in 1 .. Len(fs) : fs[i].type = "alert" =>
    /\ fs[i].about \in DOMAIN frd /\ fs[i].ts <= frd[fs[i].about]
    /\ \A j \in 1 .. Len(fs) :
         i < j /\ fs[j].type = "alert" /\ fs[j].about = fs[i].about
           => fs[j].ts - fs[i].ts >= Cooldown

PostSpaced(fs, frd, ps) ==
  \A p \in 1 .. Len(ps) :
    /\ ps[p].about \in DOMAIN frd /\ ps[p].ts <= frd[ps[p].about]
    /\ \A i \in 1 .. Len(fs) :
         fs[i].type = "alert" /\ fs[i].about = ps[p].about
           => ps[p].ts - fs[i].ts >= Cooldown
    /\ \A q \in 1 .. Len(ps) : p # q => ps[q].about # ps[p].about

SpacingInv == FactsSpaced(facts, fired) /\ PostSpaced(facts, fired, posting)

\* The elements of a concatenation.
LEMMA Joined ==
  ASSUME NEW s \in Seq(Records), NEW r \in Seq(Records)
  PROVE  /\ Len(s) \in Nat /\ Len(r) \in Nat /\ Len(s \o r) = Len(s) + Len(r)
         /\ \A i \in 1 .. Len(s) + Len(r) :
              \/ i \in 1 .. Len(s) /\ (s \o r)[i] = s[i]
              \/ i \notin 1 .. Len(s) /\ i - Len(s) \in 1 .. Len(r)
                   /\ (s \o r)[i] = r[i - Len(s)]
<1>1. Len(s) \in Nat /\ Len(r) \in Nat
  OBVIOUS
<1>2. /\ Len(s \o r) = Len(s) + Len(r)
      /\ \A i \in 1 .. Len(s) + Len(r) :
           (s \o r)[i] = IF i <= Len(s) THEN s[i] ELSE r[i - Len(s)]
  BY ConcatProperties
<1> QED BY <1>1, <1>2

\* Records that are no alerts change nothing of the spacing.
LEMMA OthersKeepSpacing ==
  ASSUME NEW fs \in Seq(Records), NEW frd, FactsSpaced(fs, frd),
         NEW r \in Seq(Records), \A i \in 1 .. Len(r) : r[i].type # "alert"
  PROVE  /\ FactsSpaced(fs \o r, frd)
         /\ \A ps : PostSpaced(fs, frd, ps) => PostSpaced(fs \o r, frd, ps)
<1> DEFINE n == Len(fs)
           gs == fs \o r
<1>1. /\ Len(gs) = n + Len(r) /\ n \in Nat /\ Len(r) \in Nat
      /\ \A i \in 1 .. Len(gs) : gs[i].type = "alert" => i \in 1 .. n /\ gs[i] = fs[i]
  BY Joined
<1> HIDE DEF gs
<1>2. FactsSpaced(gs, frd)
  BY <1>1 DEF FactsSpaced
<1>3. ASSUME NEW ps, PostSpaced(fs, frd, ps) PROVE PostSpaced(gs, frd, ps)
  BY <1>1, <1>3 DEF PostSpaced
<1> QED BY <1>2, <1>3 DEF gs

\* The dates in the gate's map only grow.
LEMMA FiredGrows ==
  ASSUME NEW snc, NEW frd, IsMap(frd, Key, Time), NEW k \in Key, NEW b, NEW now \in Time
  PROVE  \A x \in DOMAIN frd :
           /\ x \in DOMAIN Gate!FiredAfter(snc, frd, k, b, now)
           /\ frd[x] <= Gate!FiredAfter(snc, frd, k, b, now)[x]
<1> USE ProbeAssumption
<1> SUFFICES ASSUME NEW x \in DOMAIN frd
             PROVE  /\ x \in DOMAIN Gate!FiredAfter(snc, frd, k, b, now)
                    /\ frd[x] <= Gate!FiredAfter(snc, frd, k, b, now)[x]
  OBVIOUS
<1>1. frd[x] \in Nat /\ now \in Nat
  BY DEF IsMap, Time
<1>2. CASE Gate!Allowed(snc, frd, k, b, now)
  <2>1. x = k => now - frd[k] >= Cooldown
    BY <1>2 DEF Gate!Allowed
  <2>2. x = k => frd[x] <= now
    BY <1>1, <2>1
  <2> QED BY <1>1, <1>2, <2>2 DEF Gate!FiredAfter, Gate!Put
<1>3. CASE ~Gate!Allowed(snc, frd, k, b, now)
  BY <1>1, <1>3 DEF Gate!FiredAfter
<1> QED BY <1>2, <1>3

LEMMA GrowthKeepsSpacing ==
  ASSUME NEW fs \in Seq(Records), NEW frd, IsMap(frd, Key, Time), NEW grown,
         IsMap(grown, Key, Time),
         \A x \in DOMAIN frd : x \in DOMAIN grown /\ frd[x] <= grown[x]
  PROVE  /\ FactsSpaced(fs, frd) => FactsSpaced(fs, grown)
         /\ \A ps \in Seq(Records) : PostSpaced(fs, frd, ps) => PostSpaced(fs, grown, ps)
<1> USE ProbeAssumption
<1>1. \A s \in Seq(Records) : \A i \in 1 .. Len(s) : s[i].ts \in Nat
  BY DEF Records, Time
<1>2. /\ \A x \in DOMAIN frd : frd[x] \in Nat
      /\ \A x \in DOMAIN grown : grown[x] \in Nat
  BY DEF IsMap, Time
<1>3. \A t \in Nat : \A x \in DOMAIN frd : t <= frd[x] => x \in DOMAIN grown /\ t <= grown[x]
  BY <1>2
<1>4. FactsSpaced(fs, frd) => FactsSpaced(fs, grown)
  BY <1>1, <1>3 DEF FactsSpaced
<1>5. ASSUME NEW ps \in Seq(Records), PostSpaced(fs, frd, ps) PROVE PostSpaced(fs, grown, ps)
  BY <1>1, <1>3, <1>5 DEF PostSpaced
<1> QED BY <1>4, <1>5

\* What the gate lets through is Cooldown after what is on record.
LEMMA LetThroughIsSpaced ==
  ASSUME NEW fs \in Seq(Records), NEW frd, IsMap(frd, Key, Time), FactsSpaced(fs, frd),
         NEW snc, NEW k \in Key, NEW b, NEW now \in Time,
         Gate!Allowed(snc, frd, k, b, now)
  PROVE  PostSpaced(fs, Gate!FiredAfter(snc, frd, k, b, now), <<Record("alert", now, k)>>)
<1> USE ProbeAssumption
<1> DEFINE grown == Gate!FiredAfter(snc, frd, k, b, now)
           a == Record("alert", now, k)
<1>1. k \in DOMAIN grown /\ grown[k] = now
  BY DEF Gate!FiredAfter, Gate!Put
<1>2. a.about = k /\ a.ts = now /\ now \in Nat
  BY DEF Record, Time
<1>3. ASSUME NEW i \in 1 .. Len(fs), fs[i].type = "alert", fs[i].about = k
      PROVE  now - fs[i].ts >= Cooldown
  <2>1. k \in DOMAIN frd /\ fs[i].ts <= frd[k]
    BY <1>3 DEF FactsSpaced
  <2>2. now - frd[k] >= Cooldown
    BY <2>1 DEF Gate!Allowed
  <2>3. fs[i].ts \in Nat /\ frd[k] \in Nat
    BY <1>3, <2>1 DEF IsMap, Time, Records
  <2> QED BY <1>2, <2>1, <2>2, <2>3
<1> HIDE DEF grown, a
<1>4. Len(<<a>>) = 1 /\ <<a>>[1] = a
  OBVIOUS
<1> QED BY <1>1, <1>2, <1>3, <1>4 DEF PostSpaced, grown, a

LEMMA NothingPosted == \A fs, frd : PostSpaced(fs, frd, <<>>)
BY DEF PostSpaced

\* Alerts of different keys do not disturb each other.
LEMMA SpacedTogether ==
  ASSUME NEW fs \in Seq(Records), NEW frd, NEW a \in Seq(Records), NEW b \in Seq(Records),
         PostSpaced(fs, frd, a), PostSpaced(fs, frd, b),
         \A p \in 1 .. Len(a), q \in 1 .. Len(b) : a[p].about # b[q].about
  PROVE  PostSpaced(fs, frd, a \o b)
<1> DEFINE ps == a \o b
           n == Len(a)
<1>1. /\ Len(ps) = n + Len(b) /\ n \in Nat /\ Len(b) \in Nat
      /\ \A p \in 1 .. Len(ps) :
           \/ p \in 1 .. n /\ ps[p] = a[p]
           \/ p \notin 1 .. n /\ p - n \in 1 .. Len(b) /\ ps[p] = b[p - n]
  BY Joined
<1> HIDE DEF ps
<1> SUFFICES ASSUME NEW p \in 1 .. Len(ps)
             PROVE  /\ ps[p].about \in DOMAIN frd /\ ps[p].ts <= frd[ps[p].about]
                    /\ \A i \in 1 .. Len(fs) :
                         fs[i].type = "alert" /\ fs[i].about = ps[p].about
                           => ps[p].ts - fs[i].ts >= Cooldown
                    /\ \A q \in 1 .. Len(ps) : p # q => ps[q].about # ps[p].about
  BY DEF PostSpaced, ps
<1>2. ASSUME NEW q \in 1 .. Len(ps), p # q PROVE ps[q].about # ps[p].about
  <2>1. CASE p \in 1 .. n /\ ps[p] = a[p]
    <3>1. CASE q \in 1 .. n /\ ps[q] = a[q]
      BY <1>2, <2>1, <3>1 DEF PostSpaced
    <3>2. CASE q - n \in 1 .. Len(b) /\ ps[q] = b[q - n]
      BY <2>1, <3>2
    <3> QED BY <1>1, <3>1, <3>2
  <2>2. CASE p \notin 1 .. n /\ p - n \in 1 .. Len(b) /\ ps[p] = b[p - n]
    <3>1. CASE q \in 1 .. n /\ ps[q] = a[q]
      BY <2>2, <3>1
    <3>2. CASE q - n \in 1 .. Len(b) /\ ps[q] = b[q - n]
      <4>1. p - n # q - n
        BY <1>1, <1>2
      <4> QED BY <2>2, <3>2, <4>1 DEF PostSpaced
    <3> QED BY <1>1, <3>1, <3>2
  <2> QED BY <1>1, <2>1, <2>2
<1>3. CASE p \in 1 .. n /\ ps[p] = a[p]
  BY <1>2, <1>3 DEF PostSpaced
<1>4. CASE p - n \in 1 .. Len(b) /\ ps[p] = b[p - n]
  BY <1>2, <1>4 DEF PostSpaced
<1> QED BY <1>1, <1>3, <1>4

\* An alert that is recorded is spaced from those on record.
LEMMA DeliveryKeepsSpacing ==
  ASSUME NEW fs \in Seq(Records), NEW frd, NEW ps \in Seq(Records),
         FactsSpaced(fs, frd), PostSpaced(fs, frd, ps)
  PROVE  FactsSpaced(fs \o ps, frd)
<1> DEFINE n == Len(fs)
           gs == fs \o ps
<1>1. /\ Len(gs) = n + Len(ps) /\ n \in Nat /\ Len(ps) \in Nat
      /\ \A i \in 1 .. Len(gs) :
           \/ i \in 1 .. n /\ gs[i] = fs[i]
           \/ i \notin 1 .. n /\ i - n \in 1 .. Len(ps) /\ gs[i] = ps[i - n]
  BY Joined
<1> HIDE DEF gs
<1> SUFFICES ASSUME NEW i \in 1 .. Len(gs), gs[i].type = "alert"
             PROVE  /\ gs[i].about \in DOMAIN frd /\ gs[i].ts <= frd[gs[i].about]
                    /\ \A j \in 1 .. Len(gs) :
                         i < j /\ gs[j].type = "alert" /\ gs[j].about = gs[i].about
                           => gs[j].ts - gs[i].ts >= Cooldown
  BY DEF FactsSpaced, gs
<1>2. CASE i \in 1 .. n /\ gs[i] = fs[i]
  <2>1. ASSUME NEW j \in 1 .. Len(gs), i < j, gs[j].type = "alert", gs[j].about = gs[i].about
        PROVE  gs[j].ts - gs[i].ts >= Cooldown
    <3>1. CASE j \in 1 .. n /\ gs[j] = fs[j]
      BY <1>2, <2>1, <3>1 DEF FactsSpaced
    <3>2. CASE j - n \in 1 .. Len(ps) /\ gs[j] = ps[j - n]
      BY <1>2, <2>1, <3>2 DEF PostSpaced
    <3> QED BY <1>1, <3>1, <3>2
  <2> QED BY <1>2, <2>1 DEF FactsSpaced
<1>3. CASE i \notin 1 .. n /\ i - n \in 1 .. Len(ps) /\ gs[i] = ps[i - n]
  <2>1. ASSUME NEW j \in 1 .. Len(gs), i < j, gs[j].about = gs[i].about PROVE FALSE
    <3>1. j - n \in 1 .. Len(ps) /\ gs[j] = ps[j - n] /\ j - n # i - n
      BY <1>1, <1>3, <2>1
    <3> QED BY <1>3, <2>1, <3>1 DEF PostSpaced
  <2> QED BY <1>3, <2>1 DEF PostSpaced
<1> QED BY <1>1, <1>2, <1>3

-----------------------------------------------------------------------------
\* A sample's two questions to the gate.
LEMMA ReportKeepsSpacing ==
  ASSUME ProbeInv, LoopInv, SpacingInv, RecordSample PROVE SpacingInv'
<1> DEFINE e == reported + 1
           bad == Score(e) = "failed"
           behind == Score(e) = "lagging"
           r == <<Record("lag", at, <<Score(e), chain, e>>)>>
           since1 == Gate!SinceAfter(since, Unavailable(e), bad, at)
           fired1 == Gate!FiredAfter(since, fired, Unavailable(e), bad, at)
           fired2 == Gate!FiredAfter(since1, fired1, Lagging(e), behind, at)
           a == Alerts(Unavailable(e), bad)
           b == Alerts(Lagging(e), behind)
<1>1. /\ pc = "reporting" /\ facts' = facts \o r /\ fired' = fired2 /\ posting' = a \o b
      /\ e \in Endpoint
  BY LoopAssumption DEF RecordSample, SampleRecord, Report, Write, AskGate, AlertsOf, LoopInv, LoopTypeOK,
     Endpoint
<1>2. chain \in Chain /\ Unavailable(e) \in Key /\ Lagging(e) \in Key
  BY <1>1, TickTyped DEF ProbeInv
<1>3. Unavailable(e) # Lagging(e)
  BY DEF Unavailable, Lagging
<1>4. /\ at \in Time /\ facts \in Seq(Records) /\ IsMap(since, Key, Time) /\ IsMap(fired, Key, Time)
      /\ bad \in BOOLEAN /\ behind \in BOOLEAN
  BY DEF ProbeInv, TypeOK
<1>5. r \in Seq(Records) /\ \A i \in 1 .. Len(r) : r[i].type # "alert"
  <2>1. <<Score(e), chain, e>> \in {"failed", "lagging", "fresh"} \X Chain \X Endpoint
    BY <1>1, <1>2 DEF Score
  <2>2. /\ Record("lag", at, <<Score(e), chain, e>>) \in Records
        /\ Record("lag", at, <<Score(e), chain, e>>).type = "lag"
    BY <1>4, <2>1 DEF Record, Records
  <2> QED BY <2>2
<1>6. /\ a \in Seq(Records) /\ a \in {<<>>, <<Record("alert", at, Unavailable(e))>>}
      /\ b \in Seq(Records) /\ b \in {<<>>, <<Record("alert", at, Lagging(e))>>}
  BY <1>2, <1>4, AlertsTyped DEF ProbeInv
<1>7. a # <<>> => Gate!Allowed(since, fired, Unavailable(e), bad, at)
  BY DEF Alerts
<1>8. b # <<>> => Gate!Allowed(since1, fired1, Lagging(e), behind, at)
  <2>1. b # <<>> => Gate!Allowed(since, fired, Lagging(e), behind, at)
    BY DEF Alerts
  <2>2. /\ Lagging(e) \in DOMAIN since1 <=> Lagging(e) \in DOMAIN since
        /\ Lagging(e) \in DOMAIN since => since1[Lagging(e)] = since[Lagging(e)]
    BY <1>3 DEF Gate!SinceAfter, Gate!Put, Gate!Del
  <2>3. /\ Lagging(e) \in DOMAIN fired1 <=> Lagging(e) \in DOMAIN fired
        /\ Lagging(e) \in DOMAIN fired => fired1[Lagging(e)] = fired[Lagging(e)]
    BY <1>3 DEF Gate!FiredAfter, Gate!Put
  <2> QED BY <2>1, <2>2, <2>3 DEF Gate!Allowed, Gate!Start
<1> HIDE DEF bad, behind
<1>9. IsMap(since1, Key, Time) /\ IsMap(fired1, Key, Time)
  BY <1>2, <1>4, GateTyped
<1>10. \A x \in DOMAIN fired : x \in DOMAIN fired1 /\ fired[x] <= fired1[x]
  BY <1>2, <1>4, FiredGrows
<1> HIDE DEF since1
<1>11. FactsSpaced(facts, fired1) /\ PostSpaced(facts, fired1, a)
  <2>1. FactsSpaced(facts, fired)
    BY DEF SpacingInv
  <2>2. FactsSpaced(facts, fired1)
    BY <1>4, <1>9, <1>10, <2>1, GrowthKeepsSpacing
  <2>3. CASE a = <<>>
    BY <2>2, <2>3, NothingPosted
  <2>4. CASE a # <<>>
    <3>1. a = <<Record("alert", at, Unavailable(e))>>
      BY <1>6, <2>4
    <3> QED BY <1>2, <1>4, <1>7, <2>1, <2>2, <2>4, <3>1, LetThroughIsSpaced
  <2> QED BY <2>2, <2>3, <2>4
<1> HIDE DEF fired1
<1>12. IsMap(fired2, Key, Time)
  BY <1>2, <1>4, <1>9, GateTyped
<1>13. \A x \in DOMAIN fired1 : x \in DOMAIN fired2 /\ fired1[x] <= fired2[x]
  BY <1>2, <1>4, <1>9, FiredGrows
<1>14. PostSpaced(facts, fired2, b)
  <2>1. CASE b = <<>>
    BY <2>1, NothingPosted
  <2>2. CASE b # <<>>
    <3>1. b = <<Record("alert", at, Lagging(e))>>
      BY <1>6, <2>2
    <3> QED BY <1>2, <1>4, <1>8, <1>9, <1>11, <2>2, <3>1, LetThroughIsSpaced
  <2> QED BY <2>1, <2>2
<1> HIDE DEF fired2
<1>15. FactsSpaced(facts, fired2) /\ PostSpaced(facts, fired2, a)
  BY <1>4, <1>6, <1>9, <1>11, <1>12, <1>13, GrowthKeepsSpacing
<1>16. \A p \in 1 .. Len(a), q \in 1 .. Len(b) : a[p].about # b[q].about
  <2>1. /\ Record("alert", at, Unavailable(e)).about = Unavailable(e)
        /\ Record("alert", at, Lagging(e)).about = Lagging(e)
    BY DEF Record
  <2>2. \A p \in 1 .. Len(a) : a[p].about = Unavailable(e)
    BY <1>6, <2>1
  <2>3. \A q \in 1 .. Len(b) : b[q].about = Lagging(e)
    BY <1>6, <2>1
  <2> QED BY <1>3, <2>2, <2>3
<1> HIDE DEF a, b, r
<1>17. PostSpaced(facts, fired2, a \o b)
  BY <1>4, <1>6, <1>14, <1>15, <1>16, SpacedTogether
<1>18. FactsSpaced(facts \o r, fired2) /\ PostSpaced(facts \o r, fired2, a \o b)
  BY <1>4, <1>5, <1>15, <1>17, OthersKeepSpacing
<1> QED BY <1>1, <1>18 DEF SpacingInv

\* A comparison's question to the gate.
LEMMA RecordDivergenceKeepsSpacing ==
  ASSUME ProbeInv, LoopInv, SpacingInv, RecordDivergence PROVE SpacingInv'
<1> DEFINE r == <<Record("divergence", at, Diverged)>>
           a == Alerts(Diverged, TRUE)
           grown == Gate!FiredAfter(since, fired, Diverged, TRUE, at)
<1>1. facts' = facts \o r /\ fired' = grown /\ posting' = a /\ pc = "fetching"
  BY DEF RecordDivergence, DivergenceRecord, Write, JoinHashes
<1>2. Diverged \in Key
  BY <1>1, TickTyped DEF ProbeInv
<1>3. at \in Time /\ facts \in Seq(Records) /\ IsMap(since, Key, Time) /\ IsMap(fired, Key, Time)
  BY DEF ProbeInv, TypeOK
<1>4. r \in Seq(Records) /\ \A i \in 1 .. Len(r) : r[i].type # "alert"
  <2>1. /\ Record("divergence", at, Diverged) \in Records
        /\ Record("divergence", at, Diverged).type = "divergence"
    BY <1>2, <1>3 DEF Record, Records
  <2> QED BY <2>1
<1>5. FactsSpaced(facts, fired)
  BY DEF SpacingInv
<1>6. IsMap(grown, Key, Time)
  BY <1>2, <1>3, GateTyped
<1>7. \A x \in DOMAIN fired : x \in DOMAIN grown /\ fired[x] <= grown[x]
  BY <1>2, <1>3, FiredGrows
<1>8. PostSpaced(facts, grown, a)
  <2>1. CASE a = <<>>
    BY <2>1, NothingPosted
  <2>2. CASE a # <<>>
    <3>1. /\ Gate!Allowed(since, fired, Diverged, TRUE, at)
          /\ a = <<Record("alert", at, Diverged)>>
      BY <2>2 DEF Alerts
    <3> QED BY <1>2, <1>3, <1>5, <3>1, LetThroughIsSpaced
  <2> QED BY <2>1, <2>2
<1> HIDE DEF a, r, grown
<1>9. FactsSpaced(facts, grown)
  BY <1>3, <1>5, <1>6, <1>7, GrowthKeepsSpacing
<1>10. FactsSpaced(facts \o r, grown) /\ PostSpaced(facts \o r, grown, a)
  BY <1>3, <1>4, <1>8, <1>9, OthersKeepSpacing
<1> QED BY <1>1, <1>10 DEF SpacingInv

\* A post that succeeds is recorded; one that fails is not.
LEMMA DeliverKeepsSpacing ==
  ASSUME ProbeInv, SpacingInv, PostAlert \/ PostDivergence PROVE SpacingInv'
<1>1. /\ posting' = <<>> /\ fired' = fired
      /\ facts' = facts \o posting \/ facts' = facts \o <<>>
  BY DEF PostAlert, PostDivergence, Deliver, Write, gateVars
<1>2. facts \in Seq(Records) /\ posting \in Seq(Records) /\ facts \o <<>> = facts
  BY DEF ProbeInv, TypeOK
<1>3. FactsSpaced(facts \o posting, fired)
  BY <1>2, DeliveryKeepsSpacing DEF SpacingInv
<1>4. PostSpaced(facts', fired, <<>>)
  BY NothingPosted
<1> QED BY <1>1, <1>2, <1>3, <1>4 DEF SpacingInv

\* The first and the last record of a run are no alerts.
LEMMA EdgesKeepSpacing ==
  ASSUME ProbeInv, SpacingInv, StartRun \/ EndRun PROVE SpacingInv'
<1> USE ProbeAssumption
<1> DEFINE s == Record("run_started", 0, <<>>)
           f == Record("run_finished", 0, <<>>)
<1>1. /\ UNCHANGED <<fired, posting>>
      /\ \E r \in {<<>>, <<s>>, <<f>>} : facts' = facts \o r
  BY DEF StartRun, EndRun, Write, gateVars
<1>2. s \in Records /\ s.type # "alert" /\ f \in Records /\ f.type # "alert"
  BY DEF Record, Records, Time
<1> HIDE DEF s, f
<1>3. \A r \in {<<>>, <<s>>, <<f>>} :
        r \in Seq(Records) /\ \A i \in 1 .. Len(r) : r[i].type # "alert"
  <2>1. <<s>> \in Seq(Records) /\ \A i \in 1 .. Len(<<s>>) : <<s>>[i].type # "alert"
    BY <1>2
  <2>2. <<f>> \in Seq(Records) /\ \A i \in 1 .. Len(<<f>>) : <<f>>[i].type # "alert"
    BY <1>2
  <2>3. \A i \in 1 .. Len(<<>>) : <<>>[i].type # "alert"
    OBVIOUS
  <2>4. ASSUME NEW r \in {<<>>, <<s>>, <<f>>}
        PROVE  r \in Seq(Records) /\ \A i \in 1 .. Len(r) : r[i].type # "alert"
    <3>1. CASE r = <<>>
      BY <2>3, <3>1
    <3>2. CASE r = <<s>>
      BY <2>1, <3>2
    <3>3. CASE r = <<f>>
      BY <2>2, <3>3
    <3> QED BY <2>4, <3>1, <3>2, <3>3
  <2> QED BY <2>4
<1>4. PICK r \in {<<>>, <<s>>, <<f>>} : facts' = facts \o r
  BY <1>1
<1>5. facts \in Seq(Records)
  BY DEF ProbeInv, TypeOK
<1>6. FactsSpaced(facts', fired) /\ PostSpaced(facts', fired, posting)
  BY <1>3, <1>4, <1>5, OthersKeepSpacing DEF SpacingInv
<1> QED BY <1>1, <1>6 DEF SpacingInv

LEMMA SpacingInvariance == Spec => []SpacingInv
<1>1. Init => SpacingInv
  BY DEF Init, SpacingInv, FactsSpaced, PostSpaced
<1>2. ProbeInv /\ LoopInv /\ SpacingInv /\ [Next]_vars => SpacingInv'
  <2> SUFFICES ASSUME ProbeInv, LoopInv, SpacingInv, [Next]_vars PROVE SpacingInv'
    OBVIOUS
  <2>1. CASE UNCHANGED <<facts, fired, posting>>
    BY <2>1 DEF SpacingInv
  <2>2. CASE StartRun \/ EndRun
    BY <2>2, EdgesKeepSpacing
  <2>3. CASE RecordSample
    BY <2>3, ReportKeepsSpacing
  <2>4. CASE PostAlert \/ PostDivergence
    BY <2>4, DeliverKeepsSpacing
  <2>5. CASE RecordDivergence
    BY <2>5, RecordDivergenceKeepsSpacing
  <2>6. CASE \/ ScoreChain \/ SkipCheck \/ CheckHashes \/ NextTick \/ LeaveLoop \/ Outside
             \/ ObserveSample \/ HashesAgree \/ HashesDiffer
             \/ \E e \in Endpoint : Answer(e)
             \/ UNCHANGED vars
    <3>1. UNCHANGED <<facts, fired, posting>>
      BY <2>6 DEF ScoreChain, SkipCheck, CheckHashes, NextTick, LeaveLoop, Outside, Answer,
                  ObserveSample, HashesAgree, HashesDiffer, vars, logVars, gateVars
    <3> QED BY <2>1, <3>1
  <2> QED BY <2>2, <2>3, <2>4, <2>5, <2>6 DEF Next
<1> QED BY <1>1, <1>2, ProbeInvariance, LoopInvHolds, PTL DEF Spec

-----------------------------------------------------------------------------
(* The justification of alerts.  What the gate's map `since` says of a key *)
(* is on record: the sample of that instant, and since then no sample that *)
(* does not breach.  An alert that is under way rests on such samples.     *)

IsSample(f, k) == f.type = "lag" /\ f.about[2] = k[2] /\ f.about[3] = k[3]

\* From its j-th record to its n-th, fs shows nothing of k but breaches.
Breaching(fs, k, j, n) ==
  \A m \in j .. n : IsSample(fs[m], k) => fs[m].about[1] = Class(k[1])

Sustained(fs, n, k, from) ==
  \E j \in 1 .. n : IsSample(fs[j], k) /\ fs[j].ts = from /\ Breaching(fs, k, j, n)

Grounded(fs, n, f) ==
  \E j \in 1 .. n :
    /\ IsSample(fs[j], f.about) /\ f.ts - fs[j].ts >= For
    /\ Breaching(fs, f.about, j, n)
    /\ \E m \in j .. n : IsSample(fs[m], f.about) /\ fs[m].ts = f.ts

OfSample(f) == f.type = "alert" /\ f.about[1] # "divergence"

FactsGrounded(fs) ==
  \A i \in 1 .. Len(fs) : OfSample(fs[i]) => Grounded(fs, i - 1, fs[i])

JustifiedInv ==
  /\ FactsGrounded(facts)
  /\ \A k \in DOMAIN since : k[1] # "divergence" => Sustained(facts, Len(facts), k, since[k])
  /\ \A p \in 1 .. Len(posting) :
       /\ posting[p].type = "alert"
       /\ OfSample(posting[p]) => Grounded(facts, Len(facts), posting[p])

\* Only the first n records matter to what they ground.
LEMMA GroundedByPrefix ==
  ASSUME NEW n \in Nat, NEW fs, NEW gs, \A i \in 1 .. n : gs[i] = fs[i], NEW f,
         Grounded(fs, n, f)
  PROVE  Grounded(gs, n, f)
<1>1. PICK j \in 1 .. n :
        /\ IsSample(fs[j], f.about) /\ f.ts - fs[j].ts >= For
        /\ Breaching(fs, f.about, j, n)
        /\ \E m \in j .. n : IsSample(fs[m], f.about) /\ fs[m].ts = f.ts
  BY DEF Grounded
<1>2. \A m \in j .. n : gs[m] = fs[m]
  OBVIOUS
<1>3. gs[j] = fs[j]
  OBVIOUS
<1>4. Breaching(gs, f.about, j, n)
  BY <1>1, <1>2 DEF Breaching
<1>5. \E m \in j .. n : IsSample(gs[m], f.about) /\ gs[m].ts = f.ts
  BY <1>1, <1>2
<1> QED BY <1>1, <1>3, <1>4, <1>5 DEF Grounded

(***************************************************************************)
(* Records that are no samples leave everything grounded and sustained,    *)
(* when the alerts among them are grounded before them.                    *)
(***************************************************************************)
LEMMA OthersKeepGrounds ==
  ASSUME NEW fs \in Seq(Records), NEW r \in Seq(Records), FactsGrounded(fs),
         \A i \in 1 .. Len(r) :
           r[i].type # "lag" /\ (OfSample(r[i]) => Grounded(fs, Len(fs), r[i]))
  PROVE  /\ FactsGrounded(fs \o r)
         /\ \A f : Grounded(fs, Len(fs), f) => Grounded(fs \o r, Len(fs \o r), f)
         /\ \A k, t : Sustained(fs, Len(fs), k, t) => Sustained(fs \o r, Len(fs \o r), k, t)
<1> DEFINE n == Len(fs)
           gs == fs \o r
           l == Len(gs)
<1>1. /\ l = n + Len(r) /\ n \in Nat /\ Len(r) \in Nat
      /\ \A i \in 1 .. l : \/ i \in 1 .. n /\ gs[i] = fs[i]
                           \/ i \notin 1 .. n /\ i - n \in 1 .. Len(r) /\ gs[i] = r[i - n]
  BY Joined
<1> HIDE DEF gs
<1>2. /\ \A i \in 1 .. n : gs[i] = fs[i]
      /\ \A i \in 1 .. l : \A k : IsSample(gs[i], k) => i \in 1 .. n
  BY <1>1 DEF IsSample
<1> HIDE DEF l, n
<1>3. ASSUME NEW k, NEW j \in 1 .. n, Breaching(fs, k, j, n) PROVE Breaching(gs, k, j, l)
  <2> SUFFICES ASSUME NEW m \in j .. l, IsSample(gs[m], k) PROVE gs[m].about[1] = Class(k[1])
    BY DEF Breaching
  <2>1. m \in 1 .. l
    BY <1>1
  <2>2. m \in 1 .. n /\ gs[m] = fs[m]
    BY <1>2, <2>1
  <2>3. m \in j .. n
    BY <1>1, <2>2
  <2> QED BY <1>3, <2>2, <2>3 DEF Breaching
<1>4. ASSUME NEW i \in n .. l, NEW f, Grounded(fs, n, f) PROVE Grounded(gs, i, f)
  <2>1. PICK j \in 1 .. n :
          /\ IsSample(fs[j], f.about) /\ f.ts - fs[j].ts >= For
          /\ Breaching(fs, f.about, j, n)
          /\ \E m \in j .. n : IsSample(fs[m], f.about) /\ fs[m].ts = f.ts
    BY <1>4 DEF Grounded
  <2>2. Breaching(gs, f.about, j, l)
    BY <1>3, <2>1
  <2>3. Breaching(gs, f.about, j, i)
    BY <1>1, <2>2 DEF Breaching
  <2>4. PICK m \in j .. n : IsSample(fs[m], f.about) /\ fs[m].ts = f.ts
    BY <2>1
  <2>5. gs[m] = fs[m] /\ gs[j] = fs[j] /\ j \in 1 .. i /\ m \in j .. i
    BY <1>1, <1>2
  <2> QED BY <2>1, <2>3, <2>4, <2>5 DEF Grounded
<1>5. ASSUME NEW k, NEW t, Sustained(fs, n, k, t) PROVE Sustained(gs, l, k, t)
  <2>1. PICK j \in 1 .. n : IsSample(fs[j], k) /\ fs[j].ts = t /\ Breaching(fs, k, j, n)
    BY <1>5 DEF Sustained
  <2>2. Breaching(gs, k, j, l) /\ gs[j] = fs[j] /\ j \in 1 .. l
    BY <1>1, <1>2, <1>3, <2>1
  <2> QED BY <2>1, <2>2 DEF Sustained
<1>6. ASSUME NEW i \in 1 .. l, OfSample(gs[i]) PROVE Grounded(gs, i - 1, gs[i])
  <2>1. CASE i \in 1 .. n /\ gs[i] = fs[i]
    <3>1. Grounded(fs, i - 1, fs[i])
      BY <1>6, <2>1 DEF FactsGrounded, n
    <3>2. i - 1 \in Nat /\ \A m \in 1 .. i - 1 : gs[m] = fs[m]
      BY <1>1, <1>2, <2>1
    <3> QED BY <2>1, <3>1, <3>2, GroundedByPrefix
  <2>2. CASE i \notin 1 .. n /\ i - n \in 1 .. Len(r) /\ gs[i] = r[i - n]
    <3>1. Grounded(fs, n, gs[i])
      BY <1>6, <2>2 DEF n
    <3>2. i - 1 \in n .. l
      BY <1>1, <2>2
    <3> QED BY <1>4, <3>1, <3>2
  <2> QED BY <1>1, <2>1, <2>2
<1>7. l \in n .. l
  BY <1>1
<1>8. FactsGrounded(gs)
  BY <1>6 DEF FactsGrounded, l
<1>9. \A f : Grounded(fs, n, f) => Grounded(gs, l, f)
  BY <1>4, <1>7
<1> QED BY <1>5, <1>8, <1>9 DEF gs, l, n

(***************************************************************************)
(* A sample that breaches keeps its condition sustained, or begins it; one *)
(* of another endpoint does not matter to it.  What was sustained for For  *)
(* until the last sample grounds an alert.                                 *)
(***************************************************************************)
LEMMA SampleSustains ==
  ASSUME NEW fs \in Seq(Records), NEW x \in Records, NEW k, NEW snc,
         k \in DOMAIN snc => Sustained(fs, Len(fs), k, snc[k]),
         NEW now \in Time, x.ts = now, IsSample(x, k), x.about[1] = Class(k[1])
  PROVE  Sustained(fs \o <<x>>, Len(fs) + 1, k, Gate!Start(snc, k, now))
<1> DEFINE n == Len(fs)
           gs == fs \o <<x>>
           t == Gate!Start(snc, k, now)
<1>1. n \in Nat /\ gs[n + 1] = x /\ \A i \in 1 .. n : gs[i] = fs[i]
  BY Joined
<1> HIDE DEF gs, n
<1>2. PICK j \in 1 .. n + 1 : /\ IsSample(gs[j], k) /\ gs[j].ts = t
                              /\ Breaching(gs, k, j, n + 1)
  <2>1. CASE k \in DOMAIN snc
    <3>1. Sustained(fs, n, k, t)
      BY <2>1 DEF Gate!Start, n
    <3>2. PICK j \in 1 .. n : IsSample(fs[j], k) /\ fs[j].ts = t /\ Breaching(fs, k, j, n)
      BY <3>1 DEF Sustained
    <3>3. \A m \in j .. n + 1 : m = n + 1 \/ (m \in j .. n /\ gs[m] = fs[m])
      BY <1>1
    <3>4. Breaching(gs, k, j, n + 1)
      BY <1>1, <3>2, <3>3 DEF Breaching
    <3>5. gs[j] = fs[j] /\ j \in 1 .. n + 1
      BY <1>1
    <3> QED BY <3>2, <3>4, <3>5
  <2>2. CASE k \notin DOMAIN snc
    <3>1. t = now
      BY <2>2 DEF Gate!Start
    <3>2. \A m \in n + 1 .. n + 1 : m = n + 1
      BY <1>1
    <3>3. Breaching(gs, k, n + 1, n + 1)
      BY <1>1, <3>2 DEF Breaching
    <3> QED BY <1>1, <3>1, <3>3
  <2> QED BY <2>1, <2>2
<1>3. Sustained(gs, n + 1, k, t)
  BY <1>2 DEF Sustained
<1> QED BY <1>3 DEF gs, n

LEMMA SustainedGrounds ==
  ASSUME NEW gs, NEW n \in Nat, NEW k, NEW t, Sustained(gs, n, k, t), NEW f, f.about = k,
         f.ts - t >= For, IsSample(gs[n], k), gs[n].ts = f.ts
  PROVE  Grounded(gs, n, f)
<1>1. PICK j \in 1 .. n : IsSample(gs[j], k) /\ gs[j].ts = t /\ Breaching(gs, k, j, n)
  BY DEF Sustained
<1>2. n \in j .. n
  OBVIOUS
<1> QED BY <1>1, <1>2 DEF Grounded

LEMMA OtherSample ==
  ASSUME NEW fs \in Seq(Records), NEW x \in Records, NEW k, ~IsSample(x, k),
         NEW t, Sustained(fs, Len(fs), k, t)
  PROVE  Sustained(fs \o <<x>>, Len(fs) + 1, k, t)
<1> DEFINE n == Len(fs)
           gs == fs \o <<x>>
<1>1. n \in Nat /\ gs[n + 1] = x /\ \A i \in 1 .. n : gs[i] = fs[i]
  BY Joined
<1> HIDE DEF gs, n
<1>2. PICK j \in 1 .. n : IsSample(fs[j], k) /\ fs[j].ts = t /\ Breaching(fs, k, j, n)
  BY DEF Sustained, n
<1>3. \A m \in j .. n + 1 : m = n + 1 \/ (m \in j .. n /\ gs[m] = fs[m])
  BY <1>1
<1>4. Breaching(gs, k, j, n + 1) /\ gs[j] = fs[j] /\ j \in 1 .. n + 1
  BY <1>1, <1>2, <1>3 DEF Breaching
<1> QED BY <1>2, <1>4 DEF Sustained, gs, n

\* A sample, which is no alert, leaves what is on record grounded.
LEMMA SampleKeepsGrounds ==
  ASSUME NEW fs \in Seq(Records), NEW x \in Records, x.type = "lag", FactsGrounded(fs)
  PROVE  FactsGrounded(fs \o <<x>>)
<1> DEFINE n == Len(fs)
           gs == fs \o <<x>>
<1>1. /\ n \in Nat /\ Len(gs) = n + 1 /\ gs[n + 1] = x
      /\ \A i \in 1 .. n : gs[i] = fs[i]
  BY Joined
<1> HIDE DEF gs, n
<1>2. ASSUME NEW i \in 1 .. Len(gs), OfSample(gs[i]) PROVE Grounded(gs, i - 1, gs[i])
  <2>1. i \in 1 .. n
    BY <1>1, <1>2 DEF OfSample
  <2>2. Grounded(fs, i - 1, fs[i]) /\ gs[i] = fs[i]
    BY <1>1, <1>2, <2>1 DEF FactsGrounded, n
  <2>3. i - 1 \in Nat /\ \A m \in 1 .. i - 1 : gs[m] = fs[m]
    BY <1>1, <2>1
  <2> QED BY <2>2, <2>3, GroundedByPrefix
<1> QED BY <1>2 DEF FactsGrounded, gs

-----------------------------------------------------------------------------
LEMMA AtMostOne ==
  ASSUME NEW y, NEW s \in {<<>>, <<y>>}
  PROVE  \A p \in 1 .. Len(s) : s[p] = y
<1>1. CASE s = <<>>
  BY <1>1
<1>2. CASE s = <<y>>
  BY <1>2
<1> QED BY <1>1, <1>2

LEMMA ReportKeepsGrounds ==
  ASSUME ProbeInv, LoopInv, JustifiedInv, RecordSample PROVE JustifiedInv'
<1> DEFINE e == reported + 1
           bad == Score(e) = "failed"
           behind == Score(e) = "lagging"
           x == Record("lag", at, <<Score(e), chain, e>>)
           since1 == Gate!SinceAfter(since, Unavailable(e), bad, at)
           since2 == Gate!SinceAfter(since1, Lagging(e), behind, at)
           a == Alerts(Unavailable(e), bad)
           b == Alerts(Lagging(e), behind)
<1>1. /\ pc = "reporting" /\ facts' = facts \o <<x>> /\ since' = since2
      /\ posting' = a \o b /\ e \in Endpoint
  BY LoopAssumption DEF RecordSample, SampleRecord, Report, Write, AskGate, AlertsOf, LoopInv, LoopTypeOK,
     Endpoint
<1>2. chain \in Chain /\ Unavailable(e) \in Key /\ Lagging(e) \in Key
  BY <1>1, TickTyped DEF ProbeInv
<1>3. at \in Time /\ facts \in Seq(Records) /\ IsMap(since, Key, Time)
  BY DEF ProbeInv, TypeOK
<1>4. /\ x \in Records /\ x.type = "lag" /\ x.ts = at /\ x.about = <<Score(e), chain, e>>
      /\ Score(e) \in {"failed", "lagging", "fresh"}
  <2>1. <<Score(e), chain, e>> \in {"failed", "lagging", "fresh"} \X Chain \X Endpoint
    BY <1>1, <1>2 DEF Score
  <2> QED BY <1>3, <2>1 DEF Record, Records, Score
<1>5. /\ IsSample(x, Unavailable(e)) /\ (bad => x.about[1] = Class(Unavailable(e)[1]))
      /\ IsSample(x, Lagging(e)) /\ (behind => x.about[1] = Class(Lagging(e)[1]))
      /\ Unavailable(e)[1] # "divergence" /\ Lagging(e)[1] # "divergence"
      /\ Unavailable(e) # Lagging(e)
  BY <1>4 DEF IsSample, Class, Unavailable, Lagging
<1>6. \A k \in Key : k[1] # "divergence" /\ IsSample(x, k) => k \in {Unavailable(e), Lagging(e)}
  <2> SUFFICES ASSUME NEW k \in Key, k[1] # "divergence", IsSample(x, k)
               PROVE  k \in {Unavailable(e), Lagging(e)}
    OBVIOUS
  <2>1. k \in {"unavailable", "lag"} \X Chain \X Endpoint
    BY DEF Key
  <2>2. k[2] = chain /\ k[3] = e
    BY <1>4 DEF IsSample
  <2> QED BY <2>1, <2>2 DEF Unavailable, Lagging
<1> DEFINE n == Len(facts)
           gs == facts \o <<x>>
<1>7. Len(gs) = n + 1 /\ n \in Nat /\ n + 1 \in Nat /\ gs[n + 1] = x
  BY <1>3, <1>4, Joined
<1>8. FactsGrounded(gs)
  BY <1>3, <1>4, SampleKeepsGrounds DEF JustifiedInv
<1>9. \A k \in DOMAIN since : k[1] # "divergence" => Sustained(facts, n, k, since[k])
  BY DEF JustifiedInv
<1>10. bad => Sustained(gs, n + 1, Unavailable(e), Gate!Start(since, Unavailable(e), at))
  <2> SUFFICES ASSUME bad PROVE Sustained(gs, n + 1, Unavailable(e), Gate!Start(since, Unavailable(e), at))
    OBVIOUS
  <2>1. Unavailable(e) \in DOMAIN since => Sustained(facts, Len(facts), Unavailable(e), since[Unavailable(e)])
    BY <1>5, <1>9
  <2>2. x.about[1] = Class(Unavailable(e)[1])
    BY <1>5
  <2> HIDE DEF x
  <2> QED BY <1>3, <1>4, <1>5, <2>1, <2>2, SampleSustains
<1>11. behind => Sustained(gs, n + 1, Lagging(e), Gate!Start(since, Lagging(e), at))
  <2> SUFFICES ASSUME behind PROVE Sustained(gs, n + 1, Lagging(e), Gate!Start(since, Lagging(e), at))
    OBVIOUS
  <2>1. Lagging(e) \in DOMAIN since => Sustained(facts, Len(facts), Lagging(e), since[Lagging(e)])
    BY <1>5, <1>9
  <2>2. x.about[1] = Class(Lagging(e)[1])
    BY <1>5
  <2> HIDE DEF x
  <2> QED BY <1>3, <1>4, <1>5, <2>1, <2>2, SampleSustains
<1>12. \A k \in DOMAIN since : k[1] # "divergence" /\ ~IsSample(x, k)
         => Sustained(gs, n + 1, k, since[k])
  BY <1>3, <1>4, <1>9, OtherSample
<1> HIDE DEF gs, x, n
<1>13. ASSUME NEW k \in DOMAIN since2, k[1] # "divergence"
       PROVE  Sustained(gs, n + 1, k, since2[k])
  <2>1. CASE k = Lagging(e)
    <3>1. behind /\ since2[k] = Gate!Start(since1, k, at)
      BY <1>13, <2>1 DEF Gate!SinceAfter, Gate!Put, Gate!Del
    <3>2. Gate!Start(since1, k, at) = Gate!Start(since, k, at)
      BY <1>5, <2>1 DEF Gate!SinceAfter, Gate!Put, Gate!Del, Gate!Start
    <3> QED BY <1>11, <2>1, <3>1, <3>2
  <2>2. CASE k = Unavailable(e)
    <3>1. k \in DOMAIN since1 /\ since2[k] = since1[k]
      BY <1>5, <1>13, <2>2 DEF Gate!SinceAfter, Gate!Put, Gate!Del
    <3>2. bad /\ since1[k] = Gate!Start(since, k, at)
      BY <2>2, <3>1 DEF Gate!SinceAfter, Gate!Put, Gate!Del
    <3> QED BY <1>10, <2>2, <3>1, <3>2
  <2>3. CASE k \notin {Unavailable(e), Lagging(e)}
    <3>1. k \in DOMAIN since1 /\ since2[k] = since1[k]
      BY <1>13, <2>3 DEF Gate!SinceAfter, Gate!Put, Gate!Del
    <3>2. k \in DOMAIN since /\ since1[k] = since[k]
      BY <2>3, <3>1 DEF Gate!SinceAfter, Gate!Put, Gate!Del
    <3>3. k \in Key
      BY <1>3, <3>2 DEF IsMap
    <3> QED BY <1>6, <1>12, <1>13, <2>3, <3>1, <3>2, <3>3
  <2> QED BY <2>1, <2>2, <2>3
<1>14. a \in Seq(Records) /\ b \in Seq(Records)
       /\ a \in {<<>>, <<Record("alert", at, Unavailable(e))>>}
       /\ b \in {<<>>, <<Record("alert", at, Lagging(e))>>}
  BY <1>2, <1>3, AlertsTyped DEF ProbeInv
<1>15. /\ a # <<>> => bad /\ at - Gate!Start(since, Unavailable(e), at) >= For
       /\ b # <<>> => behind /\ at - Gate!Start(since, Lagging(e), at) >= For
  BY DEF Alerts, Gate!Allowed
<1> HIDE DEF bad, behind
<1>16. ASSUME NEW p \in 1 .. Len(a) PROVE a[p].type = "alert" /\ Grounded(gs, n + 1, a[p])
  <2>1. a = <<Record("alert", at, Unavailable(e))>> /\ a # <<>>
    BY <1>14, <1>16
  <2>2. a[p] = Record("alert", at, Unavailable(e))
    BY <1>16, <2>1
  <2>3. a[p].type = "alert" /\ a[p].about = Unavailable(e) /\ a[p].ts = at
    BY <2>2 DEF Record
  <2>4. /\ Sustained(gs, n + 1, Unavailable(e), Gate!Start(since, Unavailable(e), at))
        /\ at - Gate!Start(since, Unavailable(e), at) >= For
        /\ IsSample(gs[n + 1], Unavailable(e)) /\ gs[n + 1].ts = at
    BY <1>4, <1>5, <1>7, <1>10, <1>15, <2>1
  <2> QED BY <1>7, <2>3, <2>4, SustainedGrounds
<1>17. ASSUME NEW p \in 1 .. Len(b) PROVE b[p].type = "alert" /\ Grounded(gs, n + 1, b[p])
  <2>1. b = <<Record("alert", at, Lagging(e))>> /\ b # <<>>
    BY <1>14, <1>17
  <2>2. b[p] = Record("alert", at, Lagging(e))
    BY <1>17, <2>1
  <2>3. b[p].type = "alert" /\ b[p].about = Lagging(e) /\ b[p].ts = at
    BY <2>2 DEF Record
  <2>4. /\ Sustained(gs, n + 1, Lagging(e), Gate!Start(since, Lagging(e), at))
        /\ at - Gate!Start(since, Lagging(e), at) >= For
        /\ IsSample(gs[n + 1], Lagging(e)) /\ gs[n + 1].ts = at
    BY <1>4, <1>5, <1>7, <1>11, <1>15, <2>1
  <2> QED BY <1>7, <2>3, <2>4, SustainedGrounds
<1> HIDE DEF a, b, since1, since2
<1>18. \A p \in 1 .. Len(a \o b) :
         (a \o b)[p].type = "alert" /\ Grounded(gs, n + 1, (a \o b)[p])
  BY <1>14, <1>16, <1>17, Joined
<1> QED BY <1>1, <1>7, <1>8, <1>13, <1>18 DEF JustifiedInv, gs

\* The gate's answer to a divergence is about no sample.
LEMMA RecordDivergenceKeepsGrounds ==
  ASSUME ProbeInv, LoopInv, JustifiedInv, RecordDivergence PROVE JustifiedInv'
<1> DEFINE r == <<Record("divergence", at, Diverged)>>
           a == Alerts(Diverged, TRUE)
           since1 == Gate!SinceAfter(since, Diverged, TRUE, at)
<1>1. facts' = facts \o r /\ since' = since1 /\ posting' = a /\ pc = "fetching"
  BY DEF RecordDivergence, DivergenceRecord, Write, JoinHashes
<1>2. Diverged \in Key /\ Diverged[1] = "divergence"
  BY <1>1, TickTyped DEF ProbeInv, Diverged
<1>3. at \in Time /\ facts \in Seq(Records)
  BY DEF ProbeInv, TypeOK
<1>4. r \in Seq(Records) /\ \A i \in 1 .. Len(r) : r[i].type # "lag" /\ ~OfSample(r[i])
  <2>1. /\ Record("divergence", at, Diverged) \in Records
        /\ Record("divergence", at, Diverged).type = "divergence"
    BY <1>2, <1>3 DEF Record, Records
  <2> QED BY <2>1 DEF OfSample
<1>5. \A p \in 1 .. Len(a) : a[p].type = "alert" /\ ~OfSample(a[p])
  <2>1. a \in {<<>>, <<Record("alert", at, Diverged)>>}
    BY DEF Alerts
  <2>2. /\ Record("alert", at, Diverged).type = "alert"
        /\ ~OfSample(Record("alert", at, Diverged))
    BY <1>2 DEF Record, OfSample
  <2> HIDE DEF a
  <2>3. \A p \in 1 .. Len(a) : a[p] = Record("alert", at, Diverged)
    BY <2>1, AtMostOne
  <2> QED BY <2>2, <2>3
<1>6. \A k \in DOMAIN since1 : k[1] # "divergence" => k \in DOMAIN since /\ since1[k] = since[k]
  BY <1>2 DEF Gate!SinceAfter, Gate!Put
<1> HIDE DEF a, r, since1
<1>7. /\ FactsGrounded(facts \o r)
      /\ \A k, t : Sustained(facts, Len(facts), k, t)
                     => Sustained(facts \o r, Len(facts \o r), k, t)
  BY <1>3, <1>4, OthersKeepGrounds DEF JustifiedInv
<1> QED BY <1>1, <1>5, <1>6, <1>7 DEF JustifiedInv

LEMMA DeliverKeepsGrounds ==
  ASSUME ProbeInv, JustifiedInv, PostAlert \/ PostDivergence PROVE JustifiedInv'
<1>1. /\ posting' = <<>> /\ since' = since
      /\ \E r \in {posting, <<>>} : facts' = facts \o r
  BY DEF PostAlert, PostDivergence, Deliver, Write, gateVars
<1>2. facts \in Seq(Records) /\ posting \in Seq(Records) /\ <<>> \in Seq(Records)
  BY DEF ProbeInv, TypeOK
<1>3. PICK r \in {posting, <<>>} : facts' = facts \o r
  BY <1>1
<1>4. r \in Seq(Records) /\ \A i \in 1 .. Len(r) :
        r[i].type # "lag" /\ (OfSample(r[i]) => Grounded(facts, Len(facts), r[i]))
  <2>1. CASE r = posting
    BY <1>2, <2>1 DEF JustifiedInv
  <2>2. CASE r = <<>>
    <3>1. Len(r) = 0
      BY <2>2
    <3> QED BY <1>2, <2>2, <3>1
  <2> QED BY <1>3, <2>1, <2>2
<1>5. FactsGrounded(facts) /\ Len(<<>>) = 0
  BY DEF JustifiedInv
<1> QED BY <1>1, <1>2, <1>3, <1>4, <1>5, OthersKeepGrounds DEF JustifiedInv

LEMMA EdgesKeepGrounds ==
  ASSUME ProbeInv, JustifiedInv, StartRun \/ EndRun PROVE JustifiedInv'
<1> USE ProbeAssumption
<1> DEFINE s == Record("run_started", 0, <<>>)
           f == Record("run_finished", 0, <<>>)
<1>1. /\ UNCHANGED <<since, posting>>
      /\ \E r \in {<<>>, <<s>>, <<f>>} : facts' = facts \o r
  BY DEF StartRun, EndRun, Write, gateVars
<1>2. /\ s \in Records /\ s.type # "lag" /\ ~OfSample(s)
      /\ f \in Records /\ f.type # "lag" /\ ~OfSample(f)
  BY DEF Record, Records, Time, OfSample
<1> HIDE DEF s, f
<1>3. PICK r \in {<<>>, <<s>>, <<f>>} : facts' = facts \o r
  BY <1>1
<1>4. r \in Seq(Records) /\ \A i \in 1 .. Len(r) : r[i].type # "lag" /\ ~OfSample(r[i])
  <2>1. CASE r = <<>>
    <3>1. Len(r) = 0
      BY <2>1
    <3> QED BY <2>1, <3>1
  <2>2. CASE r = <<s>>
    BY <1>2, <2>2
  <2>3. CASE r = <<f>>
    BY <1>2, <2>3
  <2> QED BY <1>3, <2>1, <2>2, <2>3
<1>5. facts \in Seq(Records) /\ FactsGrounded(facts)
  BY DEF ProbeInv, TypeOK, JustifiedInv
<1> QED BY <1>1, <1>3, <1>4, <1>5, OthersKeepGrounds DEF JustifiedInv

LEMMA JustifiedInvariance == Spec => []JustifiedInv
<1>1. Init => JustifiedInv
  BY DEF Init, JustifiedInv, FactsGrounded, EmptyMap
<1>2. ProbeInv /\ LoopInv /\ JustifiedInv /\ [Next]_vars => JustifiedInv'
  <2> SUFFICES ASSUME ProbeInv, LoopInv, JustifiedInv, [Next]_vars PROVE JustifiedInv'
    OBVIOUS
  <2>1. CASE UNCHANGED <<facts, since, posting>>
    BY <2>1 DEF JustifiedInv
  <2>2. CASE StartRun \/ EndRun
    BY <2>2, EdgesKeepGrounds
  <2>3. CASE RecordSample
    BY <2>3, ReportKeepsGrounds
  <2>4. CASE PostAlert \/ PostDivergence
    BY <2>4, DeliverKeepsGrounds
  <2>5. CASE RecordDivergence
    BY <2>5, RecordDivergenceKeepsGrounds
  <2>6. CASE \/ ScoreChain \/ SkipCheck \/ CheckHashes \/ NextTick \/ LeaveLoop \/ Outside
             \/ ObserveSample \/ HashesAgree \/ HashesDiffer
             \/ \E e \in Endpoint : Answer(e)
             \/ UNCHANGED vars
    <3>1. UNCHANGED <<facts, since, posting>>
      BY <2>6 DEF ScoreChain, SkipCheck, CheckHashes, NextTick, LeaveLoop, Outside, Answer,
                  ObserveSample, HashesAgree, HashesDiffer, vars, logVars, gateVars
    <3> QED BY <2>1, <3>1
  <2> QED BY <2>2, <2>3, <2>4, <2>5, <2>6 DEF Next
<1> QED BY <1>1, <1>2, ProbeInvariance, LoopInvHolds, PTL DEF Spec

(* Whole ticks.  The samples of the tick's instant on record are those of  *)
(* the endpoints the loop has gone past, so that the tick is whole when it *)
(* leaves the last chain, and every earlier tick is.                       *)

Sampled(fs, t, c, e) ==
  \E j \in 1 .. Len(fs) : /\ fs[j].type = "lag" /\ fs[j].ts = t
                          /\ fs[j].about[2] = c /\ fs[j].about[3] = e

SamplesDistinct(fs) ==
  \A i, j \in 1 .. Len(fs) :
    i # j /\ fs[i].type = "lag" /\ fs[j].type = "lag"
      => <<fs[i].ts, fs[i].about[2], fs[i].about[3]>> # <<fs[j].ts, fs[j].about[2], fs[j].about[3]>>

InTimeOrder(fs) ==
  \A i, j \in 1 .. Len(fs) : i < j /\ fs[j].type # "run_finished" => fs[i].ts <= fs[j].ts

\* Every tick on record before the instant t is whole, and none is after t.
WholeBefore(fs, t) ==
  \A i \in 1 .. Len(fs) :
    /\ fs[i].ts <= t
    /\ fs[i].type = "lag" /\ fs[i].ts # t
         => \A c \in Chain, e \in Endpoint : Sampled(fs, fs[i].ts, c, e)

Timely(fs, t) == SamplesDistinct(fs) /\ InTimeOrder(fs) /\ WholeBefore(fs, t)

\* The loop has reported endpoint e of chain c in this tick.
Recorded(c, e) ==
  pc # "starting" /\ (chain # 0 => c < chain \/ (c = chain /\ e <= reported))

TickInv ==
  /\ Timely(facts, at)
  /\ \A c \in Chain, e \in Endpoint : Recorded(c, e) <=> Sampled(facts, at, c, e)
  /\ pc = "starting" => facts = <<>>
  /\ pc \in {"posting", "escalating"} =>
       \A p \in 1 .. Len(posting) : posting[p].type = "alert" /\ posting[p].ts = at

\* Records of the instant that are no samples, and the last record of a run,
\* whose date does not matter, leave the ticks as they are.
LEMMA OthersKeepTicks ==
  ASSUME NEW fs \in Seq(Records), NEW t \in Nat, Timely(fs, t), NEW r \in Seq(Records),
         \A i \in 1 .. Len(r) :
           /\ r[i].type # "lag"
           /\ r[i].ts = t \/ (r[i].type = "run_finished" /\ r[i].ts = 0)
  PROVE  /\ Timely(fs \o r, t)
         /\ \A c, e : Sampled(fs \o r, t, c, e) <=> Sampled(fs, t, c, e)
<1> DEFINE n == Len(fs)
           gs == fs \o r
<1>1. /\ Len(gs) = n + Len(r) /\ n \in Nat /\ Len(r) \in Nat
      /\ \A i \in 1 .. Len(gs) :
           \/ i \in 1 .. n /\ gs[i] = fs[i]
           \/ i \notin 1 .. n /\ i - n \in 1 .. Len(r) /\ gs[i] = r[i - n]
  BY Joined
<1>2. \A i \in 1 .. n : i \in 1 .. Len(gs) /\ gs[i] = fs[i]
  BY <1>1
<1> HIDE DEF gs
<1>3. \A i \in 1 .. Len(gs) : gs[i].type = "lag" => i \in 1 .. n /\ gs[i] = fs[i]
  BY <1>1
<1>4. \A u, c, e : Sampled(gs, u, c, e) <=> Sampled(fs, u, c, e)
  BY <1>2, <1>3 DEF Sampled
<1>5. SamplesDistinct(gs)
  BY <1>3 DEF Timely, SamplesDistinct
<1>6. \A i \in 1 .. Len(gs) : gs[i].ts <= t
  <2>1. \A i \in 1 .. n : fs[i].ts <= t
    BY DEF Timely, WholeBefore
  <2>2. \A i \in 1 .. Len(r) : r[i].ts <= t
    <3>1. t <= t /\ 0 <= t
      OBVIOUS
    <3> QED BY <3>1
  <2> QED BY <1>1, <2>1, <2>2
<1>7. InTimeOrder(gs)
  <2> SUFFICES ASSUME NEW i \in 1 .. Len(gs), NEW j \in 1 .. Len(gs), i < j,
                      gs[j].type # "run_finished"
               PROVE  gs[i].ts <= gs[j].ts
    BY DEF InTimeOrder
  <2>1. CASE j \in 1 .. n /\ gs[j] = fs[j]
    <3>1. i \in 1 .. n /\ gs[i] = fs[i]
      BY <1>1, <1>2, <2>1
    <3> QED BY <2>1, <3>1 DEF Timely, InTimeOrder
  <2>2. CASE j - n \in 1 .. Len(r) /\ gs[j] = r[j - n]
    <3>1. gs[j].ts = t
      BY <2>2
    <3> QED BY <1>6, <3>1
  <2> QED BY <1>1, <2>1, <2>2
<1>8. WholeBefore(gs, t)
  BY <1>3, <1>4, <1>6 DEF Timely, WholeBefore
<1> QED BY <1>4, <1>5, <1>7, <1>8 DEF Timely, gs

\* A sample that is not on record yet joins those of its instant.
LEMMA SampleKeepsTicks ==
  ASSUME NEW fs \in Seq(Records), NEW t \in Nat, Timely(fs, t),
         NEW x \in Records, x.type = "lag", x.ts = t, ~Sampled(fs, t, x.about[2], x.about[3])
  PROVE  /\ Timely(fs \o <<x>>, t)
         /\ \A c, e : Sampled(fs \o <<x>>, t, c, e)
                        <=> Sampled(fs, t, c, e) \/ (c = x.about[2] /\ e = x.about[3])
<1> DEFINE n == Len(fs)
           gs == fs \o <<x>>
<1>1. /\ Len(gs) = n + 1 /\ n \in Nat /\ gs[n + 1] = x
      /\ \A i \in 1 .. n : i \in 1 .. n + 1 /\ gs[i] = fs[i]
      /\ \A i \in 1 .. n + 1 : i \in 1 .. n \/ i = n + 1
  <2>1. <<x>> \in Seq(Records) /\ Len(<<x>>) = 1 /\ <<x>>[1] = x
    OBVIOUS
  <2> QED BY <2>1, Joined
<1> HIDE DEF gs
<1>2. \A u, c, e : Sampled(gs, u, c, e)
        <=> Sampled(fs, u, c, e) \/ (u = t /\ c = x.about[2] /\ e = x.about[3])
  <2> SUFFICES ASSUME NEW u, NEW c, NEW e
               PROVE  Sampled(gs, u, c, e)
                        <=> Sampled(fs, u, c, e) \/ (u = t /\ c = x.about[2] /\ e = x.about[3])
    OBVIOUS
  <2>1. n + 1 \in 1 .. Len(gs)
    BY <1>1
  <2> QED BY <1>1, <2>1 DEF Sampled
<1>3. SamplesDistinct(gs)
  <2>1. \A i \in 1 .. n : fs[i].type = "lag"
          => <<fs[i].ts, fs[i].about[2], fs[i].about[3]>> # <<x.ts, x.about[2], x.about[3]>>
    BY DEF Sampled
  <2>2. \A i \in 1 .. n, j \in 1 .. n : i # j /\ fs[i].type = "lag" /\ fs[j].type = "lag"
      => <<fs[i].ts, fs[i].about[2], fs[i].about[3]>> # <<fs[j].ts, fs[j].about[2], fs[j].about[3]>>
    BY DEF Timely, SamplesDistinct
  <2> QED BY <1>1, <2>1, <2>2 DEF SamplesDistinct
<1>4. \A i \in 1 .. n + 1 : gs[i].ts <= t
  BY <1>1 DEF Timely, WholeBefore
<1>5. InTimeOrder(gs)
  <2>1. \A i \in 1 .. n, j \in 1 .. n : i < j /\ fs[j].type # "run_finished" => fs[i].ts <= fs[j].ts
    BY DEF Timely, InTimeOrder
  <2> QED BY <1>1, <1>4, <2>1 DEF InTimeOrder
<1>6. WholeBefore(gs, t)
  <2> SUFFICES ASSUME NEW i \in 1 .. n + 1, gs[i].type = "lag", gs[i].ts # t,
                      NEW c \in Chain, NEW e \in Endpoint
               PROVE  Sampled(gs, gs[i].ts, c, e)
    BY <1>1, <1>4 DEF WholeBefore
  <2>1. i \in 1 .. n /\ gs[i] = fs[i]
    BY <1>1
  <2>2. Sampled(fs, fs[i].ts, c, e)
    BY <2>1 DEF Timely, WholeBefore
  <2> QED BY <1>2, <2>1, <2>2
<1> QED BY <1>2, <1>3, <1>5, <1>6 DEF Timely, gs

\* When a whole tick is past, the next one begins with no sample.
LEMMA NextTickIsEmpty ==
  ASSUME NEW fs \in Seq(Records), NEW t \in Nat, Timely(fs, t),
         \A c \in Chain, e \in Endpoint : Sampled(fs, t, c, e),
         NEW u \in Nat, u > t
  PROVE  Timely(fs, u) /\ \A c, e : ~Sampled(fs, u, c, e)
<1>1. \A i \in 1 .. Len(fs) : fs[i].ts \in Nat /\ fs[i].ts <= t
  BY DEF Timely, WholeBefore, Records, Time
<1>2. \A i \in 1 .. Len(fs) : fs[i].ts <= u /\ fs[i].ts # u
  BY <1>1
<1>3. WholeBefore(fs, u)
  BY <1>2 DEF Timely, WholeBefore
<1> QED BY <1>2, <1>3 DEF Timely, Sampled

\* A chain is left with all of its endpoints reported, so that the loop goes
\* past the same endpoints before and after.
LEMMA EndChainRecords ==
  ASSUME LoopInv, chain # 0, reported = N, EndChain, NEW c \in Chain, NEW e \in Endpoint
  PROVE  Recorded(c, e)' <=> Recorded(c, e)
<1>1. /\ chain \in 1 .. C /\ c \in 1 .. C /\ e \in 1 .. N /\ pc # "starting"
      /\ C \in Nat /\ N \in Nat
  BY LoopAssumption DEF LoopInv, LoopTypeOK, ChainOfTick, Chain, Endpoint
<1>2. Recorded(c, e) <=> c <= chain
  BY <1>1 DEF Recorded
<1>3. CASE chain >= C
  <2>1. pc' # "starting" /\ chain' = 0
    BY <1>3 DEF EndChain, EndOf
  <2> QED BY <1>1, <1>2, <1>3, <2>1 DEF Recorded
<1>4. CASE ~(chain >= C)
  <2>1. pc' # "starting" /\ chain' = chain + 1 /\ reported' = 0
    BY <1>4 DEF EndChain, EndOf, PollChain
  <2> QED BY <1>1, <1>2, <2>1 DEF Recorded
<1> QED BY <1>3, <1>4

\* Only a new tick and the report of a sample change what the loop is past.
LEMMA LoopRecords ==
  ASSUME LoopInv, NEW c \in Chain, NEW e \in Endpoint,
         \/ JoinPolls \/ Posted \/ SkipHashes \/ FetchHashes \/ Escalated
         \/ SelectDone \/ Close \/ TickerFires \/ Cancel \/ UNCHANGED loopVars
         \/ \E alerting \in BOOLEAN : JoinHashes(alerting)
         \/ \E i \in Endpoint : Return(i)
  PROVE  Recorded(c, e)' <=> Recorded(c, e)
<1>1. CASE \/ JoinPolls \/ Posted \/ FetchHashes \/ SelectDone \/ Close
           \/ TickerFires \/ Cancel \/ UNCHANGED loopVars
           \/ \E i \in Endpoint : Return(i)
  <2>1. UNCHANGED <<chain, reported>> /\ (pc = "starting" <=> pc' = "starting")
    BY <1>1 DEF JoinPolls, Posted, FetchHashes, SelectDone, Close, TickerFires, Cancel,
                Return, loopVars
  <2> QED BY <2>1 DEF Recorded
<1>2. CASE SkipHashes \/ Escalated
  <2>1. reported = N /\ chain # 0 /\ EndChain
    BY <1>2 DEF SkipHashes, Escalated, LoopInv, ChainOfTick, ReportedFirst
  <2> QED BY <2>1, EndChainRecords
<1>3. ASSUME NEW alerting \in BOOLEAN, JoinHashes(alerting)
      PROVE  Recorded(c, e)' <=> Recorded(c, e)
  <2>1. reported = N /\ chain # 0 /\ pc = "fetching"
    BY <1>3 DEF JoinHashes, LoopInv, ChainOfTick, ReportedFirst
  <2>2. CASE alerting
    BY <1>3, <2>1, <2>2 DEF JoinHashes, Recorded
  <2>3. CASE ~alerting
    BY <1>3, <2>1, <2>3, EndChainRecords DEF JoinHashes
  <2> QED BY <2>2, <2>3
<1> QED BY <1>1, <1>2, <1>3

\* The report of a sample takes the loop past its endpoint, which it had not
\* passed before.
LEMMA ReportRecords ==
  ASSUME LoopInv, NEW alerting \in BOOLEAN, Report(alerting)
  PROVE  /\ chain \in Chain /\ reported + 1 \in Endpoint
         /\ ~Recorded(chain, reported + 1)
         /\ \A c \in Chain, e \in Endpoint :
              Recorded(c, e)' <=> Recorded(c, e) \/ (c = chain /\ e = reported + 1)
<1>1. /\ chain \in 1 .. C /\ reported \in 0 .. N - 1 /\ pc # "starting" /\ pc' # "starting"
      /\ chain' = chain /\ reported' = reported + 1
  BY LoopAssumption DEF Report, LoopInv, LoopTypeOK, ChainOfTick
<1>2. C \in Nat /\ N \in Nat
  BY LoopAssumption
<1> QED BY <1>1, <1>2 DEF Recorded, Chain, Endpoint

\* A new tick starts with nothing recorded.
LEMMA PollFirstRecords ==
  ASSUME PollChain(1), NEW c \in Chain, NEW e \in Endpoint
  PROVE  ~Recorded(c, e)'
BY LoopAssumption DEF PollChain, Recorded, Chain, Endpoint

(***************************************************************************)
(* A step that is not a new tick and does not report a sample keeps the    *)
(* ticks, when it writes only alerts and divergences of the instant, or    *)
(* the last record of the run.                                             *)
(***************************************************************************)
LEMMA WriteKeepsTicks ==
  ASSUME ProbeInv, TickInv, at' = at, pc' # "starting",
         \A c \in Chain, e \in Endpoint : Recorded(c, e)' <=> Recorded(c, e),
         NEW r \in Seq(Records), facts' = facts \o r,
         \A i \in 1 .. Len(r) :
           /\ r[i].type # "lag"
           /\ r[i].ts = at \/ (r[i].type = "run_finished" /\ r[i].ts = 0),
         pc' \in {"posting", "escalating"} =>
           \A p \in 1 .. Len(posting') : posting'[p].type = "alert" /\ posting'[p].ts = at
  PROVE  TickInv'
<1>1. facts \in Seq(Records) /\ at \in Nat
  BY DEF ProbeInv, TypeOK, Time
<1>2. /\ Timely(facts \o r, at)
      /\ \A c, e : Sampled(facts \o r, at, c, e) <=> Sampled(facts, at, c, e)
  BY <1>1, OthersKeepTicks DEF TickInv
<1> QED BY <1>2 DEF TickInv

\* The steps that write nothing are steps of the loop that report nothing.
LEMMA QuietStepsOfLoop ==
  ASSUME \/ ScoreChain \/ SkipCheck \/ CheckHashes \/ LeaveLoop \/ Outside
         \/ ObserveSample \/ HashesAgree \/ HashesDiffer
         \/ \E e \in Endpoint : Answer(e)
         \/ UNCHANGED vars
  PROVE  \/ JoinPolls \/ SkipHashes \/ FetchHashes \/ SelectDone \/ TickerFires \/ Cancel
         \/ UNCHANGED loopVars
         \/ \E alerting \in BOOLEAN : JoinHashes(alerting)
         \/ \E i \in Endpoint : Return(i)
<1>1. HashesAgree => JoinHashes(FALSE) /\ FALSE \in BOOLEAN
  BY DEF HashesAgree
<1> QED BY <1>1 DEF ScoreChain, SkipCheck, CheckHashes, LeaveLoop, Outside, Answer,
                    ObserveSample, HashesDiffer, vars

\* The steps that write nothing, in a tick or between ticks.
LEMMA QuietStepKeepsTicks ==
  ASSUME LoopInv, TickInv,
         \/ ScoreChain \/ SkipCheck \/ CheckHashes \/ LeaveLoop \/ Outside
         \/ ObserveSample \/ HashesAgree \/ HashesDiffer
         \/ \E e \in Endpoint : Answer(e)
         \/ UNCHANGED vars
  PROVE  TickInv'
<1>1. /\ facts' = facts /\ at' = at /\ posting' = posting
      /\ pc = "starting" <=> pc' = "starting"
      /\ pc' \in {"posting", "escalating"} => pc' = pc
  BY DEF ScoreChain, SkipCheck, CheckHashes, LeaveLoop, Outside, Answer, ObserveSample,
         HashesAgree, HashesDiffer, vars, logVars, JoinPolls, SkipHashes, JoinHashes,
         EndChain, EndOf, PollChain, FetchHashes, SelectDone, TickerFires, Cancel, Return,
         loopVars
<1>2. \A c \in Chain, e \in Endpoint : Recorded(c, e)' <=> Recorded(c, e)
  BY LoopRecords, QuietStepsOfLoop
<1> QED BY <1>1, <1>2 DEF TickInv

LEMMA StartKeepsTicks ==
  ASSUME TickInv, StartRun PROVE TickInv'
<1> USE ProbeAssumption
<1> DEFINE s == Record("run_started", 0, <<>>)
<1>1. /\ pc' = "polling" /\ PollChain(1) /\ at' = 1 /\ facts = <<>>
      /\ facts' \in {facts \o <<>>, facts \o <<s>>}
  BY DEF StartRun, Start, PollChain, Write, TickInv
<1>2. s.type = "run_started" /\ s.ts = 0
  BY DEF Record
<1> HIDE DEF s
<1>3. facts' \in {<<>>, <<s>>}
  BY <1>1
<1>4. /\ \A i \in 1 .. Len(facts') : facts'[i].type = "run_started" /\ facts'[i].ts = 0
      /\ Len(facts') \in {0, 1}
  <2>1. CASE facts' = <<>>
    BY <2>1
  <2>2. CASE facts' = <<s>>
    BY <1>2, <2>2
  <2> QED BY <1>3, <2>1, <2>2
<1>5. 0 <= 1 /\ \A i, j \in {0, 1} : i < j => i = 0
  OBVIOUS
<1>6. SamplesDistinct(facts')
  BY <1>4 DEF SamplesDistinct
<1>7. InTimeOrder(facts')
  BY <1>4, <1>5 DEF InTimeOrder
<1>8. WholeBefore(facts', 1)
  BY <1>4, <1>5 DEF WholeBefore
<1>9. \A c, e : ~Sampled(facts', 1, c, e)
  BY <1>4 DEF Sampled
<1> QED BY <1>1, <1>6, <1>7, <1>8, <1>9, PollFirstRecords DEF TickInv, Timely

\* The loop selects only when it is past every endpoint, so the tick it
\* leaves behind is whole.
LEMMA NextTickKeepsTicks ==
  ASSUME ProbeInv, LoopInv, TickInv, NextTick PROVE TickInv'
<1>1. /\ pc = "select" /\ chain = 0 /\ pc' = "polling" /\ PollChain(1)
      /\ facts' = facts /\ at' > at
  BY DEF NextTick, SelectTicker, PollChain, NewTick, logVars, LoopInv, ChainOfTick
<1>2. facts \in Seq(Records) /\ at \in Nat /\ at' \in Nat
  BY DEF ProbeInv, TypeOK, Time, NextTick, NewTick
<1>3. \A c \in Chain, e \in Endpoint : Sampled(facts, at, c, e)
  BY <1>1 DEF TickInv, Recorded
<1>4. Timely(facts, at') /\ \A c, e : ~Sampled(facts, at', c, e)
  BY <1>1, <1>2, <1>3, NextTickIsEmpty DEF TickInv
<1> QED BY <1>1, <1>4, PollFirstRecords DEF TickInv

LEMMA ReportKeepsTicks ==
  ASSUME ProbeInv, LoopInv, TickInv, RecordSample PROVE TickInv'
<1> DEFINE e == reported + 1
           x == Record("lag", at, <<Score(e), chain, e>>)
<1>1. /\ Report(AlertsOf(e) # <<>>) /\ facts' = facts \o <<x>> /\ posting' = AlertsOf(e)
      /\ at' = at /\ pc = "reporting" /\ pc' # "starting"
  BY DEF RecordSample, SampleRecord, Write, Report
<1>2. /\ chain \in Chain /\ e \in Endpoint /\ ~Recorded(chain, e)
      /\ \A c \in Chain, i \in Endpoint :
           Recorded(c, i)' <=> Recorded(c, i) \/ (c = chain /\ i = e)
  <2>1. (AlertsOf(e) # <<>>) \in BOOLEAN
    OBVIOUS
  <2> QED BY <1>1, <2>1, ReportRecords
<1>3. at \in Time /\ at \in Nat /\ facts \in Seq(Records)
  BY DEF ProbeInv, TypeOK, Time
<1>4. /\ x \in Records /\ x.type = "lag" /\ x.ts = at
      /\ x.about[2] = chain /\ x.about[3] = e
  <2>1. <<Score(e), chain, e>> \in {"failed", "lagging", "fresh"} \X Chain \X Endpoint
    BY <1>2 DEF Score
  <2> QED BY <1>3, <2>1 DEF Record, Records
<1>5. \A p \in 1 .. Len(posting') : posting'[p].type = "alert" /\ posting'[p].ts = at
  <2> DEFINE a == Alerts(Unavailable(e), Score(e) = "failed")
             b == Alerts(Lagging(e), Score(e) = "lagging")
  <2>1. Unavailable(e) \in Key /\ Lagging(e) \in Key
    BY <1>1, <1>2, TickTyped DEF ProbeInv
  <2>2. /\ a \in Seq(Records) /\ a \in {<<>>, <<Record("alert", at, Unavailable(e))>>}
        /\ b \in Seq(Records) /\ b \in {<<>>, <<Record("alert", at, Lagging(e))>>}
    BY <2>1, AlertsTyped DEF ProbeInv
  <2>3. \A k : Record("alert", at, k).type = "alert" /\ Record("alert", at, k).ts = at
    BY DEF Record
  <2>4. posting' = a \o b
    BY <1>1 DEF AlertsOf
  <2> HIDE DEF a, b
  <2>5. /\ \A p \in 1 .. Len(a) : a[p].type = "alert" /\ a[p].ts = at
        /\ \A p \in 1 .. Len(b) : b[p].type = "alert" /\ b[p].ts = at
    BY <2>2, <2>3, AtMostOne
  <2> QED BY <2>2, <2>4, <2>5, Joined
<1> HIDE DEF x, e
<1>6. ~Sampled(facts, at, x.about[2], x.about[3])
  BY <1>2, <1>4 DEF TickInv
<1>7. /\ Timely(facts \o <<x>>, at)
      /\ \A c, i : Sampled(facts \o <<x>>, at, c, i)
                     <=> Sampled(facts, at, c, i) \/ (c = chain /\ i = e)
  BY <1>3, <1>4, <1>6, SampleKeepsTicks DEF TickInv
<1> QED BY <1>1, <1>2, <1>5, <1>7 DEF TickInv

LEMMA DeliverKeepsTicks ==
  ASSUME ProbeInv, LoopInv, TickInv, PostAlert \/ PostDivergence PROVE TickInv'
<1>1. /\ at' = at /\ posting' = <<>> /\ pc \in {"posting", "escalating"} /\ pc' # "starting"
      /\ \E r \in {posting, <<>>} : facts' = facts \o r
  BY DEF PostAlert, PostDivergence, Deliver, Write, Posted, Escalated, EndChain, EndOf, PollChain
<1>2. PICK r \in {posting, <<>>} : facts' = facts \o r
  BY <1>1
<1>3. posting \in Seq(Records) /\ <<>> \in Seq(Records) /\ Len(<<>>) = 0
  BY DEF ProbeInv, TypeOK
<1>4. r \in Seq(Records) /\ \A i \in 1 .. Len(r) : r[i].type # "lag" /\ r[i].ts = at
  <2>1. CASE r = posting
    BY <1>1, <1>3, <2>1 DEF TickInv
  <2>2. CASE r = <<>>
    BY <1>3, <2>2
  <2> QED BY <1>2, <2>1, <2>2
<1>5. \A c \in Chain, e \in Endpoint : Recorded(c, e)' <=> Recorded(c, e)
  BY LoopRecords DEF PostAlert, PostDivergence
<1>6. \A p \in 1 .. Len(posting') : posting'[p].type = "alert" /\ posting'[p].ts = at
  BY <1>1, <1>3
<1> QED BY <1>1, <1>2, <1>4, <1>5, <1>6, WriteKeepsTicks

LEMMA RecordDivergenceKeepsTicks ==
  ASSUME ProbeInv, LoopInv, TickInv, RecordDivergence PROVE TickInv'
<1> DEFINE d == Record("divergence", at, Diverged)
           a == Alerts(Diverged, TRUE)
<1>1. /\ at' = at /\ pc = "fetching" /\ pc' # "starting" /\ JoinHashes(a # <<>>)
      /\ facts' = facts \o <<d>> /\ posting' = a
  BY DEF RecordDivergence, DivergenceRecord, Write, JoinHashes, EndChain, EndOf, PollChain
<1>2. \A c \in Chain, e \in Endpoint : Recorded(c, e)' <=> Recorded(c, e)
  <2>1. (a # <<>>) \in BOOLEAN
    OBVIOUS
  <2> QED BY <1>1, <2>1, LoopRecords
<1>3. Diverged \in Key /\ a \in {<<>>, <<Record("alert", at, Diverged)>>}
  BY <1>1, TickTyped, AlertsTyped DEF ProbeInv
<1>4. d \in Records /\ d.type = "divergence" /\ d.ts = at
  BY <1>3 DEF Record, Records, ProbeInv, TypeOK
<1>5. Record("alert", at, Diverged).type = "alert" /\ Record("alert", at, Diverged).ts = at
  BY DEF Record
<1> HIDE DEF a, d
<1>6. \A p \in 1 .. Len(posting') : posting'[p].type = "alert" /\ posting'[p].ts = at
  BY <1>1, <1>3, <1>5, AtMostOne
<1>7. /\ <<d>> \in Seq(Records)
      /\ \A i \in 1 .. Len(<<d>>) : <<d>>[i].type # "lag" /\ <<d>>[i].ts = at
  BY <1>4
<1> HIDE DEF Recorded
<1> QED BY <1>1, <1>2, <1>6, <1>7, WriteKeepsTicks

LEMMA EndKeepsTicks ==
  ASSUME ProbeInv, LoopInv, TickInv, EndRun PROVE TickInv'
<1> USE ProbeAssumption
<1> DEFINE f == Record("run_finished", 0, <<>>)
<1>1. /\ at' = at /\ pc' = "stopped" /\ \E r \in {<<>>, <<f>>} : facts' = facts \o r
  BY DEF EndRun, Close, Write
<1>2. PICK r \in {<<>>, <<f>>} : facts' = facts \o r
  BY <1>1
<1>3. f \in Records /\ f.type = "run_finished" /\ f.ts = 0
  BY DEF Record, Records, Time
<1> HIDE DEF f
<1>4. r \in Seq(Records) /\ \A i \in 1 .. Len(r) : r[i].type = "run_finished" /\ r[i].ts = 0
  <2>1. CASE r = <<>>
    <3>1. Len(r) = 0
      BY <2>1
    <3> QED BY <2>1, <3>1
  <2>2. CASE r = <<f>>
    BY <1>3, <2>2
  <2> QED BY <1>2, <2>1, <2>2
<1>5. \A c \in Chain, e \in Endpoint : Recorded(c, e)' <=> Recorded(c, e)
  BY LoopRecords DEF EndRun
<1>6. \A i \in 1 .. Len(r) :
        /\ r[i].type # "lag"
        /\ r[i].ts = at \/ (r[i].type = "run_finished" /\ r[i].ts = 0)
  BY <1>4
<1> QED BY <1>1, <1>2, <1>4, <1>5, <1>6, WriteKeepsTicks

LEMMA TickInvariance == Spec => []TickInv
<1>1. Init => TickInv
  <2> SUFFICES ASSUME Init PROVE TickInv
    OBVIOUS
  <2>1. facts = <<>> /\ Len(facts) = 0 /\ pc = "starting"
    BY DEF Init, LoopInit
  <2> QED BY <2>1 DEF TickInv, Timely, SamplesDistinct, InTimeOrder, WholeBefore, Sampled, Recorded
<1>2. ProbeInv /\ LoopInv /\ TickInv /\ [Next]_vars => TickInv'
  <2> SUFFICES ASSUME ProbeInv, LoopInv, TickInv, [Next]_vars PROVE TickInv'
    OBVIOUS
  <2>1. CASE \/ ScoreChain \/ SkipCheck \/ CheckHashes \/ LeaveLoop \/ Outside
             \/ ObserveSample \/ HashesAgree \/ HashesDiffer
             \/ \E e \in Endpoint : Answer(e)
             \/ UNCHANGED vars
    BY <2>1, QuietStepKeepsTicks
  <2>2. CASE StartRun \/ NextTick \/ EndRun
    BY <2>2, StartKeepsTicks, NextTickKeepsTicks, EndKeepsTicks
  <2>3. CASE RecordSample
    BY <2>3, ReportKeepsTicks
  <2>4. CASE PostAlert \/ PostDivergence
    BY <2>4, DeliverKeepsTicks
  <2>5. CASE RecordDivergence
    BY <2>5, RecordDivergenceKeepsTicks
  <2> QED BY <2>1, <2>2, <2>3, <2>4, <2>5 DEF Next
<1> QED BY <1>1, <1>2, ProbeInvariance, LoopInvHolds, PTL DEF Spec

(***************************************************************************)
(* A tick hands the log exactly one sample of every endpoint of every      *)
(* chain, and until the last record time does not go backwards.            *)
(***************************************************************************)
THEOREM TicksAreRecordedWhole == Spec => []TicksAreWhole
<1>1. ProbeInv /\ LoopInv /\ TickInv => TicksAreWhole
  <2> SUFFICES ASSUME ProbeInv, LoopInv, TickInv PROVE TicksAreWhole
    OBVIOUS
  <2>1. DOMAIN facts = 1 .. Len(facts)
    BY DEF ProbeInv, TypeOK
  <2>2. ASSUME pc \in {"select", "closing", "stopped"}, NEW i \in DOMAIN facts,
               facts[i].type = "lag", NEW c \in Chain, NEW e \in Endpoint
        PROVE  \E j \in DOMAIN facts :
                 /\ facts[j].type = "lag" /\ facts[j].ts = facts[i].ts
                 /\ facts[j].about[2] = c /\ facts[j].about[3] = e
    <3>1. chain = 0 /\ Recorded(c, e)
      BY <2>2 DEF LoopInv, ChainOfTick, Recorded
    <3>2. Sampled(facts, facts[i].ts, c, e)
      BY <2>1, <2>2, <3>1 DEF TickInv, Timely, WholeBefore
    <3> QED BY <2>1, <3>2 DEF Sampled
  <2> QED BY <2>1, <2>2 DEF TicksAreWhole, TickInv, Timely, SamplesDistinct, InTimeOrder
<1> QED BY <1>1, ProbeInvariance, LoopInvHolds, TickInvariance, PTL

-----------------------------------------------------------------------------
(* The metrics are of the records handed to the log and the one observed   *)
(* that is handed over next.  First, that this is all there can be: only a *)
(* sample of the chain being reported or a divergence of the one compared  *)
(* is ever observed and not yet recorded.                                  *)

ObservedInv ==
  observed => \/ pc = "reporting" /\ reported < N
              \/ pc = "fetching" /\ inflight = {}

\* While a record is owed, the main goroutine does nothing but record it.
LEMMA OtherStepsUnobserved ==
  ASSUME LoopInv, ObservedInv,
         \/ StartRun \/ ScoreChain \/ PostAlert \/ SkipCheck \/ CheckHashes \/ HashesAgree
         \/ PostDivergence \/ NextTick \/ LeaveLoop \/ EndRun
         \/ \E e \in Endpoint : Answer(e)
  PROVE  ~observed /\ ~observed'
<1>1. CASE HashesAgree
  BY <1>1 DEF HashesAgree
<1>2. CASE \E e \in Endpoint : Answer(e)
  BY <1>2 DEF Answer, Return, ObservedInv, LoopInv, RequestsAreJoined
<1>3. CASE SkipCheck \/ CheckHashes
  <2>1. pc = "reporting" /\ reported = N /\ N \in Nat
    BY <1>3, LoopAssumption DEF SkipCheck, SkipHashes, CheckHashes, FetchHashes
  <2> QED BY <1>3, <2>1 DEF ObservedInv, SkipCheck, CheckHashes
<1>4. CASE \/ StartRun \/ ScoreChain \/ PostAlert \/ PostDivergence
           \/ NextTick \/ LeaveLoop \/ EndRun
  <2>1. pc \notin {"reporting", "fetching"}
    BY <1>4 DEF StartRun, Start, ScoreChain, JoinPolls, PostAlert, Posted, PostDivergence,
                Escalated, NextTick, SelectTicker, LeaveLoop, SelectDone, EndRun, Close
  <2> QED BY <1>4, <2>1 DEF ObservedInv, StartRun, ScoreChain, PostAlert, PostDivergence,
                            NextTick, LeaveLoop, EndRun
<1> QED BY <1>1, <1>2, <1>3, <1>4

LEMMA ObservedInvariance == Spec => []ObservedInv
<1>1. Init => ObservedInv
  BY DEF Init, ObservedInv
<1>2. LoopInv /\ ObservedInv /\ [Next]_vars => ObservedInv'
  <2> SUFFICES ASSUME LoopInv, ObservedInv, [Next]_vars PROVE ObservedInv'
    OBVIOUS
  <2>1. CASE \/ StartRun \/ ScoreChain \/ PostAlert \/ SkipCheck \/ CheckHashes \/ HashesAgree
             \/ PostDivergence \/ NextTick \/ LeaveLoop \/ EndRun
             \/ \E e \in Endpoint : Answer(e)
    BY <2>1, OtherStepsUnobserved DEF ObservedInv
  <2>2. CASE RecordSample \/ RecordDivergence
    BY <2>2 DEF RecordSample, RecordDivergence, ObservedInv
  <2>3. CASE ObserveSample \/ HashesDiffer
    BY <2>3 DEF ObserveSample, HashesDiffer, loopVars, ObservedInv
  <2>4. CASE Outside \/ UNCHANGED vars
    <3>1. UNCHANGED <<pc, reported, inflight, observed>>
      BY <2>4 DEF Outside, TickerFires, Cancel, vars, loopVars
    <3> QED BY <3>1 DEF ObservedInv
  <2> QED BY <2>1, <2>2, <2>3, <2>4 DEF Next
<1> QED BY <1>1, <1>2, LoopInvHolds, PTL DEF Spec

\* What is pending is a record, of the endpoint or chain being measured.
LEMMA PendingTyped ==
  ASSUME ProbeInv, LoopInv
  PROVE  /\ pc = "reporting" /\ reported < N =>
              /\ SampleRecord \in Records /\ SampleRecord.type = "lag"
              /\ SampleRecord.about = <<Score(reported + 1), chain, reported + 1>>
              /\ chain \in Chain /\ reported + 1 \in Endpoint
         /\ pc = "fetching" =>
              /\ DivergenceRecord \in Records /\ DivergenceRecord.type = "divergence"
              /\ DivergenceRecord.about[2] = chain /\ chain \in Chain
<1>1. at \in Time
  BY DEF ProbeInv, TypeOK
<1>2. ASSUME pc = "reporting", reported < N
      PROVE  /\ SampleRecord \in Records /\ SampleRecord.type = "lag"
             /\ SampleRecord.about = <<Score(reported + 1), chain, reported + 1>>
             /\ chain \in Chain /\ reported + 1 \in Endpoint
  <2>1. chain \in Chain /\ reported + 1 \in Endpoint
    BY <1>2, LoopAssumption, TickTyped DEF ProbeInv, LoopInv, LoopTypeOK, Endpoint
  <2>2. <<Score(reported + 1), chain, reported + 1>>
          \in {"failed", "lagging", "fresh"} \X Chain \X Endpoint
    BY <2>1 DEF Score
  <2> QED BY <1>1, <2>1, <2>2 DEF SampleRecord, Record, Records
<1>3. ASSUME pc = "fetching"
      PROVE  /\ DivergenceRecord \in Records /\ DivergenceRecord.type = "divergence"
             /\ DivergenceRecord.about[2] = chain /\ chain \in Chain
  <2>1. chain \in Chain /\ Diverged \in Key
    BY <1>3, TickTyped DEF ProbeInv
  <2> QED BY <1>1, <2>1 DEF DivergenceRecord, Record, Records, Diverged
<1> QED BY <1>2, <1>3

LEMMA SeenTyped ==
  ASSUME ProbeInv, LoopInv, ObservedInv
  PROVE  /\ facts \in Seq(Records) /\ Seen \in Seq(Records)
         /\ ~observed => Seen = facts
<1>1. facts \in Seq(Records)
  BY DEF ProbeInv, TypeOK
<1>2. CASE ~observed
  <2>1. Pending = <<>> /\ facts \o <<>> = facts
    BY <1>1, <1>2 DEF Pending
  <2> QED BY <1>1, <2>1 DEF Seen
<1>3. CASE observed
  <2>1. PICK x \in Records : Pending = <<x>>
    BY <1>3, PendingTyped DEF Pending, ObservedInv
  <2>2. <<x>> \in Seq(Records)
    OBVIOUS
  <2> QED BY <1>1, <1>3, <2>1, <2>2, ConcatProperties DEF Seen
<1> QED BY <1>2, <1>3

\* The positions of an endpoint's samples, of the healthy ones among them and
\* of a chain's divergences, in any sequence of records:

SamplesIn(fs, c, e) ==
  {i \in 1 .. Len(fs) : fs[i].type = "lag" /\ fs[i].about[2] = c /\ fs[i].about[3] = e}

HealthyIn(fs, c, e) == {i \in SamplesIn(fs, c, e) : fs[i].about[1] # "failed"}

DivergencesIn(fs, c) ==
  {i \in 1 .. Len(fs) : fs[i].type = "divergence" /\ fs[i].about[2] = c}

SeriesOf(fs, m, all, healthy) ==
  /\ m.requests["ok"] = Cardinality(healthy)
  /\ m.requests["failed"] = Cardinality(all \ healthy)
  /\ m.up = 1 <=> Latest(all) \in healthy
  /\ m.lag = 1 <=> healthy # {} /\ fs[Latest(healthy)].about[1] = "lagging"

\* The series of endpoint e of chain c is true of its samples.
SeriesTrue(fs, reg, c, e) ==
  /\ <<c, e>> \in DOMAIN reg <=> SamplesIn(fs, c, e) # {}
  /\ <<c, e>> \in DOMAIN reg =>
       SeriesOf(fs, reg[<<c, e>>], SamplesIn(fs, c, e), HealthyIn(fs, c, e))

Counted(divs, c) == IF c \in DOMAIN divs THEN divs[c] ELSE 0

\* The sample of endpoint e of chain c is recorded in this tick, or observed.
Polled(c, e) ==
  Recorded(c, e) \/ (observed /\ pc = "reporting" /\ c = chain /\ e = reported + 1)

\* In a tick, the endpoints the loop has observed have one poll more.
MetricsInv ==
  /\ \A c \in Chain, e \in Endpoint : SeriesTrue(Seen, registry, c, e)
  /\ \A c \in Chain : Counted(divergences, c) = Cardinality(DivergencesIn(Seen, c))
  /\ \E past \in Nat : \A c \in Chain, e \in Endpoint :
       Polls(c, e) = past + (IF Polled(c, e) THEN 1 ELSE 0)

\* A set of positions that is not empty has a last one.
LEMMA LatestIsLast ==
  ASSUME NEW n \in Nat, NEW S \in SUBSET (1 .. n), S # {}
  PROVE  Latest(S) \in S /\ \A j \in S : j <= Latest(S)
<1> DEFINE D == {d \in Nat : d < n /\ n - d \in S}
<1>1. PICK s \in S : s \in 1 .. n
  OBVIOUS
<1>2. n - s \in D
  BY <1>1
<1>3. \E d \in D : \A m \in D : <<m, d>> \notin OpToRel(<, Nat)
  BY <1>2, WFMin, NatLessThanWellFounded
<1>4. PICK d \in D : \A m \in D : ~(m < d)
  BY <1>3 DEF OpToRel
<1>5. d \in Nat /\ n - d \in S /\ n - d \in 1 .. n
  BY <1>4
<1>6. \A j \in S : j <= n - d
  <2> SUFFICES ASSUME NEW j \in S PROVE j <= n - d
    OBVIOUS
  <2>1. j \in 1 .. n /\ n - j \in Nat /\ n - j < n /\ n - (n - j) = j
    OBVIOUS
  <2>2. n - j \in D
    BY <2>1
  <2>3. ~(n - j < d)
    BY <1>4, <2>2
  <2> HIDE DEF D
  <2> QED BY <1>5, <2>1, <2>3
<1>7. \E i \in S : \A j \in S : j <= i
  BY <1>5, <1>6
<1> QED BY <1>7 DEF Latest

LEMMA PositionsFinite ==
  ASSUME NEW n \in Nat, NEW S \in SUBSET (1 .. n)
  PROVE  IsFiniteSet(S) /\ Cardinality(S) \in Nat
<1>1. IsFiniteSet(1 .. n)
  BY FS_Interval
<1>2. IsFiniteSet(S)
  BY <1>1, FS_Subset
<1> QED BY <1>2, FS_CardinalityType

\* Records that are no sample of an endpoint leave its series true.
LEMMA OthersKeepSeries ==
  ASSUME NEW fs \in Seq(Records), NEW r \in Seq(Records), NEW reg, NEW new, NEW c, NEW e,
         SeriesTrue(fs, reg, c, e),
         <<c, e>> \in DOMAIN new <=> <<c, e>> \in DOMAIN reg,
         <<c, e>> \in DOMAIN reg => new[<<c, e>>] = reg[<<c, e>>],
         \A i \in 1 .. Len(r) :
           ~(r[i].type = "lag" /\ r[i].about[2] = c /\ r[i].about[3] = e)
  PROVE  SeriesTrue(fs \o r, new, c, e)
<1> DEFINE n == Len(fs)
           gs == fs \o r
           all == SamplesIn(fs, c, e)
           healthy == HealthyIn(fs, c, e)
<1>1. /\ Len(gs) = n + Len(r) /\ n \in Nat /\ Len(r) \in Nat
      /\ \A i \in 1 .. Len(gs) :
           \/ i \in 1 .. n /\ gs[i] = fs[i]
           \/ i \notin 1 .. n /\ i - n \in 1 .. Len(r) /\ gs[i] = r[i - n]
  BY Joined
<1>2. \A i \in 1 .. n : i \in 1 .. Len(gs) /\ gs[i] = fs[i]
  BY <1>1
<1> HIDE DEF gs
<1>3. SamplesIn(gs, c, e) = all
  BY <1>1, <1>2 DEF SamplesIn
<1>4. HealthyIn(gs, c, e) = healthy
  BY <1>2, <1>3 DEF HealthyIn, SamplesIn
<1>5. healthy # {} => gs[Latest(healthy)] = fs[Latest(healthy)]
  <2>1. healthy \in SUBSET (1 .. n)
    BY DEF HealthyIn, SamplesIn
  <2> HIDE DEF healthy, n
  <2>2. healthy # {} => Latest(healthy) \in 1 .. n
    BY <1>1, <2>1, LatestIsLast
  <2> QED BY <1>2, <2>2
<1> HIDE DEF all, healthy
<1>6. ASSUME <<c, e>> \in DOMAIN reg PROVE SeriesOf(gs, reg[<<c, e>>], all, healthy)
  <2>1. SeriesOf(fs, reg[<<c, e>>], all, healthy)
    BY <1>6 DEF SeriesTrue, all, healthy
  <2> QED BY <1>5, <2>1 DEF SeriesOf
<1>7. <<c, e>> \in DOMAIN reg <=> all # {}
  BY DEF SeriesTrue, all
<1> QED BY <1>3, <1>4, <1>6, <1>7 DEF SeriesTrue, gs

\* A sample is counted in the series of its endpoint.
LEMMA SampleCounted ==
  ASSUME NEW fs \in Seq(Records), NEW reg, NEW c \in Chain, NEW e \in Endpoint,
         IsMap(reg, Chain \X Endpoint, Series({0, 1})), SeriesTrue(fs, reg, c, e),
         NEW x \in Records, x.type = "lag", x.about[2] = c, x.about[3] = e,
         NEW healthy \in BOOLEAN, healthy <=> x.about[1] # "failed",
         NEW lag, healthy => lag \in {0, 1} /\ (lag = 1 <=> x.about[1] = "lagging")
  PROVE  SeriesTrue(fs \o <<x>>, ObserveLag(reg, <<c, e>>, healthy, lag), c, e)
<1> DEFINE n == Len(fs)
           gs == fs \o <<x>>
           k == <<c, e>>
           all == SamplesIn(fs, c, e)
           well == HealthyIn(fs, c, e)
           m == ForEndpoint(reg, k)
           class == IF healthy THEN "ok" ELSE "failed"
           new == [up |-> IF healthy THEN 1 ELSE 0,
                   lag |-> IF healthy THEN lag ELSE m.lag,
                   requests |-> [m.requests EXCEPT ![class] = @ + 1]]
<1>1. /\ Len(gs) = n + 1 /\ n \in Nat /\ gs[n + 1] = x
      /\ \A i \in 1 .. n : i \in 1 .. n + 1 /\ gs[i] = fs[i]
      /\ \A i \in 1 .. n + 1 : i \in 1 .. n \/ i = n + 1
      /\ n + 1 \in 1 .. n + 1
  <2>1. <<x>> \in Seq(Records) /\ Len(<<x>>) = 1 /\ <<x>>[1] = x
    OBVIOUS
  <2> QED BY <2>1, Joined
<1>2. all \in SUBSET (1 .. n) /\ well \in SUBSET all
  BY DEF SamplesIn, HealthyIn
<1> HIDE DEF gs, n
<1>3. SamplesIn(gs, c, e) = all \cup {n + 1}
  BY <1>1 DEF SamplesIn, n
<1>4. HealthyIn(gs, c, e) = IF healthy THEN well \cup {n + 1} ELSE well
  <2>1. \A i \in all : i \in 1 .. n /\ gs[i] = fs[i]
    BY <1>1, <1>2
  <2> HIDE DEF all
  <2>2. HealthyIn(gs, c, e) = {i \in all \cup {n + 1} : gs[i].about[1] # "failed"}
    BY <1>3 DEF HealthyIn
  <2>3. well = {i \in all : fs[i].about[1] # "failed"}
    BY DEF HealthyIn, all
  <2> QED BY <1>1, <2>1, <2>2, <2>3
<1>5. /\ k \in DOMAIN reg <=> all # {}
      /\ k \in DOMAIN reg => SeriesOf(fs, reg[k], all, well)
  BY DEF SeriesTrue
<1>6. /\ m \in Series({0, 1}) /\ m.requests \in [{"ok", "failed"} -> Nat] /\ m.lag \in {0, 1}
  <2>1. m \in Series({0, 1})
    BY DEF IsMap, ForEndpoint, NewSeries, Series
  <2> QED BY <2>1 DEF Series
<1> HIDE DEF all, well
<1>7. /\ m.requests["ok"] = Cardinality(well) /\ m.requests["failed"] = Cardinality(all \ well)
      /\ m.lag = 1 <=> well # {} /\ fs[Latest(well)].about[1] = "lagging"
  <2>1. CASE k \in DOMAIN reg
    BY <1>5, <2>1 DEF ForEndpoint, SeriesOf
  <2>2. CASE k \notin DOMAIN reg
    <3>1. all = {} /\ well = {} /\ all \ well = {} /\ Cardinality({}) = 0
      BY <1>2, <1>5, <2>2, FS_EmptySet
    <3> QED BY <2>2, <3>1 DEF ForEndpoint, NewSeries
  <2> QED BY <2>1, <2>2
<1> HIDE DEF m
<1>8. /\ new.requests["ok"] = m.requests["ok"] + (IF healthy THEN 1 ELSE 0)
      /\ new.requests["failed"] = m.requests["failed"] + (IF healthy THEN 0 ELSE 1)
      /\ new.up = (IF healthy THEN 1 ELSE 0)
      /\ new.lag = (IF healthy THEN lag ELSE m.lag)
  BY <1>6
<1>9. k \in DOMAIN ObserveLag(reg, k, healthy, lag) /\ ObserveLag(reg, k, healthy, lag)[k] = new
  BY DEF ObserveLag, Put, m
<1> HIDE DEF new
<1>10. /\ IsFiniteSet(well) /\ IsFiniteSet(all) /\ IsFiniteSet(all \ well)
       /\ n + 1 \notin all /\ n + 1 \notin well
  <2>1. IsFiniteSet(all)
    BY <1>1, <1>2, PositionsFinite
  <2>2. all \ well \in SUBSET all
    OBVIOUS
  <2>3. IsFiniteSet(well) /\ IsFiniteSet(all \ well)
    BY <1>2, <2>1, <2>2, FS_Subset
  <2>4. n + 1 \notin 1 .. n
    BY <1>1
  <2> QED BY <1>2, <2>1, <2>3, <2>4
<1>11. Latest(all \cup {n + 1}) = n + 1
  <2>1. all \cup {n + 1} \in SUBSET (1 .. n + 1) /\ all \cup {n + 1} # {} /\ n + 1 \in Nat
    BY <1>1, <1>2
  <2>2. /\ Latest(all \cup {n + 1}) \in all \cup {n + 1}
        /\ \A j \in all \cup {n + 1} : j <= Latest(all \cup {n + 1})
    BY <2>1, LatestIsLast
  <2>3. n + 1 <= Latest(all \cup {n + 1}) /\ Latest(all \cup {n + 1}) \in 1 .. n + 1
    BY <2>1, <2>2
  <2> QED BY <1>1, <2>3
<1>12. CASE healthy
  <2>1. Latest(well \cup {n + 1}) = n + 1
    <3>1. well \cup {n + 1} \in SUBSET (1 .. n + 1) /\ well \cup {n + 1} # {} /\ n + 1 \in Nat
      BY <1>1, <1>2
    <3>2. /\ Latest(well \cup {n + 1}) \in well \cup {n + 1}
          /\ \A j \in well \cup {n + 1} : j <= Latest(well \cup {n + 1})
      BY <3>1, LatestIsLast
    <3>3. n + 1 <= Latest(well \cup {n + 1}) /\ Latest(well \cup {n + 1}) \in 1 .. n + 1
      BY <3>1, <3>2
    <3> QED BY <1>1, <3>3
  <2>2. Cardinality(well \cup {n + 1}) = Cardinality(well) + 1
    BY <1>10, FS_AddElement
  <2>3. (all \cup {n + 1}) \ (well \cup {n + 1}) = all \ well
    BY <1>10
  <2>4. SeriesOf(gs, new, all \cup {n + 1}, well \cup {n + 1})
    <3>1. new.requests["ok"] = Cardinality(well \cup {n + 1})
      BY <1>7, <1>8, <1>12, <2>2
    <3>2. new.requests["failed"] = Cardinality((all \cup {n + 1}) \ (well \cup {n + 1}))
      <4>1. new.requests["failed"] = m.requests["failed"]
        BY <1>6, <1>8, <1>12
      <4> QED BY <1>7, <2>3, <4>1
    <3>3. new.up = 1 /\ Latest(all \cup {n + 1}) \in well \cup {n + 1}
      BY <1>8, <1>11, <1>12
    <3>4. new.lag = 1 <=> gs[Latest(well \cup {n + 1})].about[1] = "lagging"
      BY <1>1, <1>8, <1>12, <2>1
    <3> QED BY <3>1, <3>2, <3>3, <3>4 DEF SeriesOf
  <2>5. HealthyIn(gs, c, e) = well \cup {n + 1}
    BY <1>4, <1>12
  <2> QED BY <1>3, <1>9, <2>4, <2>5 DEF SeriesTrue, gs
<1>13. CASE ~healthy
  <2>1. (all \cup {n + 1}) \ well = (all \ well) \cup {n + 1}
    BY <1>10
  <2>2. Cardinality((all \ well) \cup {n + 1}) = Cardinality(all \ well) + 1
    BY <1>10, FS_AddElement
  <2>3. well # {} => gs[Latest(well)] = fs[Latest(well)]
    <3>1. well \in SUBSET (1 .. n)
      BY <1>2
    <3>2. well # {} => Latest(well) \in 1 .. n
      BY <1>1, <3>1, LatestIsLast
    <3> QED BY <1>1, <3>2
  <2>4. SeriesOf(gs, new, all \cup {n + 1}, well)
    <3>1. new.requests["ok"] = Cardinality(well)
      BY <1>6, <1>7, <1>8, <1>13
    <3>2. new.requests["failed"] = Cardinality((all \cup {n + 1}) \ well)
      BY <1>7, <1>8, <1>13, <2>1, <2>2
    <3>3. new.up # 1 /\ Latest(all \cup {n + 1}) \notin well
      BY <1>8, <1>10, <1>11, <1>13
    <3>4. new.lag = 1 <=> well # {} /\ gs[Latest(well)].about[1] = "lagging"
      BY <1>7, <1>8, <1>13, <2>3
    <3> QED BY <3>1, <3>2, <3>3, <3>4 DEF SeriesOf
  <2>5. HealthyIn(gs, c, e) = well
    BY <1>4, <1>13
  <2> QED BY <1>3, <1>9, <2>4, <2>5 DEF SeriesTrue, gs
<1> QED BY <1>12, <1>13

\* Records that are no divergences leave their count alone; a divergence adds
\* one to that of its chain.
LEMMA DivergencesKept ==
  ASSUME NEW fs \in Seq(Records), NEW r \in Seq(Records), NEW c,
         \A i \in 1 .. Len(r) : ~(r[i].type = "divergence" /\ r[i].about[2] = c)
  PROVE  DivergencesIn(fs \o r, c) = DivergencesIn(fs, c)
<1> DEFINE n == Len(fs)
           gs == fs \o r
<1>1. /\ Len(gs) = n + Len(r) /\ n \in Nat /\ Len(r) \in Nat
      /\ \A i \in 1 .. Len(gs) :
           \/ i \in 1 .. n /\ gs[i] = fs[i]
           \/ i \notin 1 .. n /\ i - n \in 1 .. Len(r) /\ gs[i] = r[i - n]
  BY Joined
<1>2. \A i \in 1 .. n : i \in 1 .. Len(gs) /\ gs[i] = fs[i]
  BY <1>1
<1> HIDE DEF gs
<1>3. DivergencesIn(gs, c) = DivergencesIn(fs, c)
  BY <1>1, <1>2 DEF DivergencesIn
<1> QED BY <1>3 DEF gs

LEMMA DivergenceCounted ==
  ASSUME NEW fs \in Seq(Records), NEW c,
         NEW x \in Records, x.type = "divergence", x.about[2] = c
  PROVE  Cardinality(DivergencesIn(fs \o <<x>>, c)) = Cardinality(DivergencesIn(fs, c)) + 1
<1> DEFINE n == Len(fs)
           gs == fs \o <<x>>
           S == DivergencesIn(fs, c)
<1>1. /\ Len(gs) = n + 1 /\ n \in Nat /\ gs[n + 1] = x
      /\ \A i \in 1 .. n : i \in 1 .. n + 1 /\ gs[i] = fs[i]
      /\ \A i \in 1 .. n + 1 : i \in 1 .. n \/ i = n + 1
      /\ n + 1 \in 1 .. n + 1 /\ n + 1 \notin 1 .. n
  <2>1. <<x>> \in Seq(Records) /\ Len(<<x>>) = 1 /\ <<x>>[1] = x
    OBVIOUS
  <2> QED BY <2>1, Joined
<1> HIDE DEF gs, n
<1>2. DivergencesIn(gs, c) = S \cup {n + 1}
  BY <1>1 DEF DivergencesIn, n
<1>3. S \in SUBSET (1 .. n)
  BY DEF DivergencesIn, n
<1>4. IsFiniteSet(S) /\ n + 1 \notin S
  BY <1>1, <1>3, PositionsFinite
<1> QED BY <1>2, <1>4, FS_AddElement DEF gs

(***************************************************************************)
(* A step that observes nothing keeps the metrics true, when it adds no    *)
(* samples and no divergences and the same endpoints are polled.           *)
(***************************************************************************)
LEMMA UnobservedKeepsMetrics ==
  ASSUME ProbeInv, LoopInv, ObservedInv, MetricsInv, UNCHANGED <<registry, divergences>>,
         \A c \in Chain, e \in Endpoint : Polled(c, e)' <=> Polled(c, e),
         NEW r \in Seq(Records), Seen' = Seen \o r,
         \A i \in 1 .. Len(r) : r[i].type \notin {"lag", "divergence"}
  PROVE  MetricsInv'
<1>1. Seen \in Seq(Records)
  BY SeenTyped
<1> HIDE DEF Seen
<1>2. \A c \in Chain, e \in Endpoint : SeriesTrue(Seen', registry', c, e)
  BY <1>1, OthersKeepSeries DEF MetricsInv
<1>3. \A c \in Chain : Counted(divergences', c) = Cardinality(DivergencesIn(Seen', c))
  BY <1>1, DivergencesKept DEF MetricsInv
<1>4. \A c \in Chain, e \in Endpoint : Polls(c, e)' = Polls(c, e)
  BY DEF Polls
<1>5. PICK past \in Nat : \A c \in Chain, e \in Endpoint :
        Polls(c, e) = past + (IF Polled(c, e) THEN 1 ELSE 0)
  BY DEF MetricsInv
<1>6. \A c \in Chain, e \in Endpoint :
        Polls(c, e)' = past + (IF Polled(c, e)' THEN 1 ELSE 0)
  BY <1>4, <1>5
<1> QED BY <1>2, <1>3, <1>6 DEF MetricsInv

\* In particular when it adds no record at all.
LEMMA SameSeenKeepsMetrics ==
  ASSUME ProbeInv, LoopInv, ObservedInv, MetricsInv, UNCHANGED <<registry, divergences>>,
         \A c \in Chain, e \in Endpoint : Polled(c, e)' <=> Polled(c, e),
         Seen' = Seen
  PROVE  MetricsInv'
<1>1. Seen \in Seq(Records)
  BY SeenTyped
<1> DEFINE r == <<>>
<1>2. /\ r \in Seq(Records) /\ Seen' = Seen \o r
      /\ \A i \in 1 .. Len(r) : r[i].type \notin {"lag", "divergence"}
  BY <1>1
<1> HIDE DEF r
<1> QED BY <1>2, UnobservedKeepsMetrics

LEMMA QuietStepKeepsMetrics ==
  ASSUME ProbeInv, LoopInv, ObservedInv, MetricsInv,
         \/ ScoreChain \/ SkipCheck \/ CheckHashes \/ LeaveLoop \/ HashesAgree
         \/ \E e \in Endpoint : Answer(e)
         \/ Outside \/ UNCHANGED vars
  PROVE  MetricsInv'
<1>1. /\ facts' = facts /\ UNCHANGED <<registry, divergences>>
  BY DEF ScoreChain, SkipCheck, CheckHashes, LeaveLoop, HashesAgree, Answer, Outside, vars,
         logVars, hashVars
<1>2. \A c \in Chain, e \in Endpoint : Recorded(c, e)' <=> Recorded(c, e)
  BY QuietStepsOfLoop, LoopRecords
<1>3. CASE \/ ScoreChain \/ SkipCheck \/ CheckHashes \/ LeaveLoop \/ HashesAgree
           \/ \E e \in Endpoint : Answer(e)
  <2>1. ~observed /\ ~observed'
    BY <1>3, OtherStepsUnobserved
  <2>2. Seen' = Seen
    BY <1>1, <2>1 DEF Seen, Pending
  <2>3. \A c \in Chain, e \in Endpoint : Polled(c, e)' <=> Polled(c, e)
    BY <1>2, <2>1 DEF Polled
  <2> QED BY <1>1, <2>2, <2>3, SameSeenKeepsMetrics
<1>4. CASE Outside \/ UNCHANGED vars
  <2>1. UNCHANGED <<observed, pc, chain, reported, at, head>>
    BY <1>4 DEF Outside, TickerFires, Cancel, vars, loopVars
  <2>2. Seen' = Seen
    BY <1>1, <2>1 DEF Seen, Pending, SampleRecord, DivergenceRecord, Record, Score, Best,
                      Diverged
  <2>3. \A c \in Chain, e \in Endpoint : Polled(c, e)' <=> Polled(c, e)
    BY <1>2, <2>1 DEF Polled
  <2> QED BY <1>1, <2>2, <2>3, SameSeenKeepsMetrics
<1> QED BY <1>3, <1>4

\* What was observed is recorded: a scrape had seen it already.
LEMMA RecordKeepsMetrics ==
  ASSUME ProbeInv, LoopInv, ObservedInv, MetricsInv, RecordSample \/ RecordDivergence
  PROVE  MetricsInv'
<1>1. observed /\ ~observed' /\ UNCHANGED <<registry, divergences>>
  BY DEF RecordSample, RecordDivergence, hashVars
<1>2. facts' \in Seq(Records) /\ facts' = facts \o Pending
  <2>1. CASE RecordSample
    <3>1. pc = "reporting" /\ facts' = facts \o <<SampleRecord>>
      BY <2>1 DEF RecordSample, Report, Write
    <3> QED BY <1>1, <3>1, SeenTyped DEF Pending, Seen
  <2>2. CASE RecordDivergence
    <3>1. pc = "fetching" /\ facts' = facts \o <<DivergenceRecord>>
      BY <2>2 DEF RecordDivergence, JoinHashes, Write
    <3> QED BY <1>1, <3>1, SeenTyped DEF Pending, Seen
  <2> QED BY <2>1, <2>2
<1>3. Seen' = Seen
  <2>1. Pending' = <<>> /\ facts' \o <<>> = facts'
    BY <1>1, <1>2 DEF Pending
  <2> QED BY <1>2, <2>1 DEF Seen
<1>4. \A c \in Chain, e \in Endpoint : Polled(c, e)' <=> Polled(c, e)
  <2>1. CASE RecordSample
    <3>1. /\ Report(AlertsOf(reported + 1) # <<>>) /\ pc = "reporting"
          /\ (AlertsOf(reported + 1) # <<>>) \in BOOLEAN
      BY <2>1 DEF RecordSample, Report
    <3>2. \A c \in Chain, e \in Endpoint :
            Recorded(c, e)' <=> Recorded(c, e) \/ (c = chain /\ e = reported + 1)
      BY <3>1, ReportRecords
    <3> QED BY <1>1, <3>1, <3>2 DEF Polled
  <2>2. CASE RecordDivergence
    <3>1. /\ JoinHashes(Alerts(Diverged, TRUE) # <<>>) /\ pc = "fetching"
          /\ (Alerts(Diverged, TRUE) # <<>>) \in BOOLEAN
      BY <2>2 DEF RecordDivergence, JoinHashes
    <3>2. \A c \in Chain, e \in Endpoint : Recorded(c, e)' <=> Recorded(c, e)
      BY <3>1, LoopRecords
    <3> QED BY <1>1, <3>1, <3>2 DEF Polled
  <2> QED BY <2>1, <2>2
<1> QED BY <1>1, <1>3, <1>4, SameSeenKeepsMetrics

\* An alert, and the first and the last record of a run, are not counted.
LEMMA WritesKeepMetrics ==
  ASSUME ProbeInv, LoopInv, ObservedInv, TickInv, MetricsInv,
         StartRun \/ EndRun \/ PostAlert \/ PostDivergence
  PROVE  MetricsInv'
<1> USE ProbeAssumption
<1> DEFINE s == Record("run_started", 0, <<>>)
           f == Record("run_finished", 0, <<>>)
<1>1. /\ UNCHANGED <<registry, divergences>>
      /\ \E r \in {<<>>, <<s>>, <<f>>, posting} : facts' = facts \o r
      /\ pc \notin {"posting", "escalating"}
           => \E r \in {<<>>, <<s>>, <<f>>} : facts' = facts \o r
  BY DEF StartRun, EndRun, PostAlert, PostDivergence, Posted, Escalated, Deliver, Write, hashVars
<1>2. /\ s \in Records /\ s.type \notin {"lag", "divergence"}
      /\ f \in Records /\ f.type \notin {"lag", "divergence"}
  BY DEF Record, Records, Time
<1> HIDE DEF s, f
<1>3. PICK r \in {<<>>, <<s>>, <<f>>, posting} :
        /\ facts' = facts \o r
        /\ pc \notin {"posting", "escalating"} => r \in {<<>>, <<s>>, <<f>>}
  BY <1>1
<1>4. r \in Seq(Records) /\ \A i \in 1 .. Len(r) : r[i].type \notin {"lag", "divergence"}
  <2>1. CASE r = <<>>
    <3>1. Len(r) = 0
      BY <2>1
    <3> QED BY <2>1, <3>1
  <2>2. CASE r = <<s>>
    BY <1>2, <2>2
  <2>3. CASE r = <<f>>
    BY <1>2, <2>3
  <2>4. CASE r = posting /\ pc \in {"posting", "escalating"}
    BY <2>4 DEF ProbeInv, TypeOK, TickInv
  <2> QED BY <1>3, <2>1, <2>2, <2>3, <2>4
<1>5. \A c \in Chain, e \in Endpoint : Recorded(c, e)' <=> Recorded(c, e)
  <2>1. CASE StartRun
    <3>1. pc = "starting" /\ PollChain(1)
      BY <2>1 DEF StartRun, Start
    <3> QED BY <3>1, PollFirstRecords DEF Recorded
  <2>2. CASE EndRun \/ PostAlert \/ PostDivergence
    BY <2>2, LoopRecords DEF EndRun, PostAlert, PostDivergence
  <2> QED BY <2>1, <2>2
<1>6. ~observed /\ ~observed'
  BY OtherStepsUnobserved
<1>7. Seen' = Seen \o r
  <2>1. Seen = facts
    BY <1>6, SeenTyped
  <2>2. facts \o r \in Seq(Records) /\ (facts \o r) \o <<>> = facts \o r
    BY <1>4, SeenTyped, ConcatProperties
  <2> QED BY <1>3, <1>6, <2>1, <2>2 DEF Seen, Pending
<1>8. \A c \in Chain, e \in Endpoint : Polled(c, e)' <=> Polled(c, e)
  BY <1>5, <1>6 DEF Polled
<1> QED BY <1>1, <1>4, <1>7, <1>8, UnobservedKeepsMetrics

\* Between ticks all endpoints have the same number of polls, and the next
\* tick begins with that number as the past.
LEMMA NextTickKeepsMetrics ==
  ASSUME LoopInv, ObservedInv, MetricsInv, NextTick PROVE MetricsInv'
<1>1. /\ facts' = facts /\ UNCHANGED <<registry, divergences>>
      /\ pc = "select" /\ chain = 0 /\ PollChain(1)
  BY DEF NextTick, SelectTicker, logVars, hashVars, LoopInv, ChainOfTick
<1>2. ~observed /\ ~observed'
  BY OtherStepsUnobserved
<1>3. Seen' = Seen
  BY <1>1, <1>2 DEF Seen, Pending
<1>4. PICK past \in Nat : \A c \in Chain, e \in Endpoint :
        Polls(c, e) = past + (IF Polled(c, e) THEN 1 ELSE 0)
  BY DEF MetricsInv
<1>5. \A c \in Chain, e \in Endpoint :
        Polls(c, e)' = Polls(c, e) /\ Polled(c, e) /\ ~Polled(c, e)'
  BY <1>1, <1>2, PollFirstRecords DEF Polls, Recorded, Polled
<1>6. /\ past + 1 \in Nat
      /\ \A c \in Chain, e \in Endpoint :
           Polls(c, e)' = (past + 1) + (IF Polled(c, e)' THEN 1 ELSE 0)
  BY <1>4, <1>5
<1> QED BY <1>1, <1>3, <1>6 DEF MetricsInv

\* A divergence is counted for its chain when it is observed.
LEMMA HashesDifferKeepsMetrics ==
  ASSUME ProbeInv, LoopInv, ObservedInv, MetricsInv, HashesDiffer PROVE MetricsInv'
<1> DEFINE d == DivergenceRecord
<1>1. /\ registry' = registry /\ pc = "fetching" /\ pc' = pc /\ ~observed /\ observed'
      /\ divergences' = ObserveDivergence(divergences, chain)
      /\ UNCHANGED <<loopVars, at, facts>>
  BY DEF HashesDiffer, logVars, loopVars
<1>2. /\ facts \in Seq(Records) /\ Seen = facts /\ IsMap(divergences, Chain, Nat)
      /\ chain \in Chain
  BY <1>1, SeenTyped, PendingTyped DEF ProbeInv, TypeOK
<1>3. /\ d \in Records /\ d.type = "divergence" /\ d.about[2] = chain
      /\ <<d>> \in Seq(Records) /\ Len(<<d>>) = 1 /\ <<d>>[1] = d
  BY <1>1, PendingTyped
<1>4. Seen' = Seen \o <<d>>
  <2>1. Pending' = <<d'>> /\ d' = d
    BY <1>1 DEF Pending, DivergenceRecord, Record, Diverged, loopVars
  <2> QED BY <1>1, <1>2, <2>1 DEF Seen
<1>5. Seen \in Seq(Records)
  BY <1>2
<1> HIDE DEF d, Seen
<1>6. \A i \in 1 .. Len(<<d>>) : <<d>>[i].type # "lag"
  BY <1>3
<1>7. \A c \in Chain, e \in Endpoint : SeriesTrue(Seen', registry', c, e)
  BY <1>1, <1>3, <1>4, <1>5, <1>6, OthersKeepSeries DEF MetricsInv
<1>8. ASSUME NEW c \in Chain
      PROVE  Counted(divergences', c) = Cardinality(DivergencesIn(Seen', c))
  <2>1. Counted(divergences, c) = Cardinality(DivergencesIn(Seen, c))
    BY DEF MetricsInv
  <2>2. CASE c = chain
    <3>1. Counted(divergences', c) = Counted(divergences, c) + 1
      BY <1>1, <1>2, <2>2 DEF ObserveDivergence, Put, Counted, IsMap
    <3> QED BY <1>3, <1>4, <1>5, <2>1, <2>2, <3>1, DivergenceCounted
  <2>3. CASE c # chain
    <3>1. Counted(divergences', c) = Counted(divergences, c)
      BY <1>1, <2>3 DEF ObserveDivergence, Put, Counted
    <3>2. \A i \in 1 .. Len(<<d>>) :
            ~(<<d>>[i].type = "divergence" /\ <<d>>[i].about[2] = c)
      BY <1>3, <2>3
    <3> QED BY <1>3, <1>4, <1>5, <2>1, <3>1, <3>2, DivergencesKept
  <2> QED BY <2>2, <2>3
<1>9. \A c \in Chain, e \in Endpoint :
        Polls(c, e)' = Polls(c, e) /\ (Polled(c, e)' <=> Polled(c, e))
  <2>1. \A c \in Chain, e \in Endpoint : Recorded(c, e)' <=> Recorded(c, e)
    BY <1>1 DEF Recorded, loopVars
  <2>2. \A c \in Chain, e \in Endpoint : Polls(c, e)' = Polls(c, e)
    BY <1>1 DEF Polls
  <2> QED BY <1>1, <2>1, <2>2 DEF Polled
<1>10. PICK past \in Nat : \A c \in Chain, e \in Endpoint :
         Polls(c, e) = past + (IF Polled(c, e) THEN 1 ELSE 0)
  BY DEF MetricsInv
<1>11. \A c \in Chain, e \in Endpoint :
         Polls(c, e)' = past + (IF Polled(c, e)' THEN 1 ELSE 0)
  BY <1>9, <1>10
<1> QED BY <1>7, <1>8, <1>11 DEF MetricsInv

\* A sample is counted for its endpoint when it is observed.
LEMMA ObserveSampleKeepsMetrics ==
  ASSUME ProbeInv, LoopInv, ObservedInv, MetricsInv, ObserveSample PROVE MetricsInv'
<1> DEFINE i == reported + 1
           x == SampleRecord
           healthy == head[i] # 0
           lag == Best - head[i]
<1>1. /\ pc = "reporting" /\ reported < N /\ ~observed /\ observed'
      /\ divergences' = divergences /\ UNCHANGED <<loopVars, at, head, facts>>
      /\ registry' = ObserveLag(registry, <<chain, i>>, healthy, lag)
  BY DEF ObserveSample, logVars, hashVars
<1>2. /\ chain \in Chain /\ i \in Endpoint
      /\ x \in Records /\ x.type = "lag" /\ x.about[1] = Score(i)
      /\ x.about[2] = chain /\ x.about[3] = i
      /\ <<x>> \in Seq(Records) /\ Len(<<x>>) = 1 /\ <<x>>[1] = x
  BY <1>1, PendingTyped
<1>3. /\ facts \in Seq(Records) /\ Seen = facts /\ head[i] \in 0 .. 2
      /\ IsMap(registry, Chain \X Endpoint, Series({0, 1}))
  BY <1>1, <1>2, SeenTyped DEF ProbeInv, TypeOK, PolledHead
<1>4. /\ ~Polled(chain, i)
      /\ \A c \in Chain, e \in Endpoint :
           Polled(c, e)' <=> Polled(c, e) \/ (c = chain /\ e = i)
  <2>1. ~Recorded(chain, i)
    <3>1. chain \in Nat \ {0} /\ reported \in Nat
      BY <1>2 DEF Chain, LoopInv, LoopTypeOK
    <3> QED BY <3>1 DEF Recorded
  <2>2. \A c \in Chain, e \in Endpoint : Recorded(c, e)' <=> Recorded(c, e)
    BY <1>1 DEF Recorded, loopVars
  <2>3. pc' = pc /\ chain' = chain /\ reported' = reported
    BY <1>1 DEF loopVars
  <2> QED BY <1>1, <2>1, <2>2, <2>3 DEF Polled
<1>5. /\ healthy \in BOOLEAN /\ (healthy <=> Score(i) # "failed")
      /\ healthy => lag \in {0, 1} /\ (lag = 1 <=> Score(i) = "lagging")
  <2>1. CASE head[i] = 0
    BY <2>1 DEF Score
  <2>2. CASE head[i] = 1
    BY <1>2, <2>2 DEF Best, Score
  <2>3. CASE head[i] = 2
    BY <1>2, <2>3 DEF Best, Score
  <2> QED BY <1>3, <2>1, <2>2, <2>3
<1>6. Seen' = Seen \o <<x>>
  <2>1. Pending' = <<x'>> /\ x' = x
    BY <1>1 DEF Pending, SampleRecord, Record, Score, Best, loopVars
  <2> QED BY <1>1, <1>3, <2>1 DEF Seen
<1>7. Seen \in Seq(Records)
  BY <1>3
<1> HIDE DEF i, x, healthy, lag, Seen
<1>8. ASSUME NEW c \in Chain, NEW e \in Endpoint PROVE SeriesTrue(Seen', registry', c, e)
  <2>1. SeriesTrue(Seen, registry, c, e)
    BY DEF MetricsInv
  <2>2. CASE c = chain /\ e = i
    BY <1>1, <1>2, <1>3, <1>5, <1>6, <1>7, <2>1, <2>2, SampleCounted
  <2>3. CASE ~(c = chain /\ e = i)
    <3>1. /\ <<c, e>> \in DOMAIN registry' <=> <<c, e>> \in DOMAIN registry
          /\ <<c, e>> \in DOMAIN registry => registry'[<<c, e>>] = registry[<<c, e>>]
      BY <1>1, <2>3 DEF ObserveLag, Put
    <3>2. \A p \in 1 .. Len(<<x>>) :
            ~(<<x>>[p].type = "lag" /\ <<x>>[p].about[2] = c /\ <<x>>[p].about[3] = e)
      BY <1>2, <2>3
    <3> QED BY <1>2, <1>6, <1>7, <2>1, <3>1, <3>2, OthersKeepSeries
  <2> QED BY <2>2, <2>3
<1>9. \A c \in Chain : Counted(divergences', c) = Cardinality(DivergencesIn(Seen', c))
  <2>1. \A c : \A p \in 1 .. Len(<<x>>) :
          ~(<<x>>[p].type = "divergence" /\ <<x>>[p].about[2] = c)
    BY <1>2
  <2> QED BY <1>1, <1>2, <1>6, <1>7, <2>1, DivergencesKept DEF MetricsInv
<1>10. ASSUME NEW c \in Chain, NEW e \in Endpoint
       PROVE  Polls(c, e)' = Polls(c, e) + (IF c = chain /\ e = i THEN 1 ELSE 0)
  <2>1. CASE c = chain /\ e = i
    <3> DEFINE k == <<c, e>>
               m == ForEndpoint(registry, k)
               class == IF healthy THEN "ok" ELSE "failed"
    <3>1. k \in DOMAIN registry' /\ registry'[k].requests = [m.requests EXCEPT ![class] = @ + 1]
      BY <1>1, <2>1 DEF ObserveLag, Put
    <3>2. m.requests \in [{"ok", "failed"} -> Nat]
      <4>1. m \in Series({0, 1})
        BY <1>3 DEF IsMap, ForEndpoint, NewSeries, Series
      <4> QED BY <4>1 DEF Series
    <3>3. Polls(c, e) = m.requests["ok"] + m.requests["failed"]
      BY DEF Polls, ForEndpoint, NewSeries
    <3>4. Polls(c, e)' = registry'[k].requests["ok"] + registry'[k].requests["failed"]
      BY <3>1 DEF Polls
    <3> HIDE DEF m, k
    <3> QED BY <2>1, <3>1, <3>2, <3>3, <3>4
  <2>2. CASE ~(c = chain /\ e = i)
    <3>1. /\ <<c, e>> \in DOMAIN registry' <=> <<c, e>> \in DOMAIN registry
          /\ <<c, e>> \in DOMAIN registry => registry'[<<c, e>>] = registry[<<c, e>>]
      BY <1>1, <2>2 DEF ObserveLag, Put
    <3>2. Polls(c, e)' = Polls(c, e) /\ Polls(c, e) \in Nat
      <4>1. <<c, e>> \in DOMAIN registry
              => registry[<<c, e>>].requests \in [{"ok", "failed"} -> Nat]
        BY <1>3 DEF IsMap, Series
      <4> QED BY <3>1, <4>1 DEF Polls
    <3> QED BY <2>2, <3>2
  <2> QED BY <2>1, <2>2
<1>11. PICK past \in Nat : \A c \in Chain, e \in Endpoint :
         Polls(c, e) = past + (IF Polled(c, e) THEN 1 ELSE 0)
  BY DEF MetricsInv
<1>12. ASSUME NEW c \in Chain, NEW e \in Endpoint
       PROVE  Polls(c, e)' = past + (IF Polled(c, e)' THEN 1 ELSE 0)
  BY <1>4, <1>10, <1>11
<1> QED BY <1>8, <1>9, <1>12 DEF MetricsInv

LEMMA MetricsInvariance == Spec => []MetricsInv
<1>1. Init => MetricsInv
  <2> SUFFICES ASSUME Init PROVE MetricsInv
    OBVIOUS
  <2>1. /\ facts = <<>> /\ Len(facts) = 0 /\ pc = "starting"
        /\ DOMAIN registry = {} /\ DOMAIN divergences = {}
    BY DEF Init, LoopInit, EmptyMap
  <2>5. ~observed /\ Seen = <<>>
    BY DEF Init, Seen, Pending
  <2>6. Len(Seen) = 0
    BY <2>5
  <2>2. \A c \in Chain, e \in Endpoint : SeriesTrue(Seen, registry, c, e)
    BY <2>1, <2>6 DEF SeriesTrue, SamplesIn
  <2>3. \A c \in Chain : Counted(divergences, c) = Cardinality(DivergencesIn(Seen, c))
    <3>1. \A c : DivergencesIn(Seen, c) = {}
      BY <2>6 DEF DivergencesIn
    <3> QED BY <2>1, <3>1, FS_EmptySet DEF Counted
  <2>4. 0 \in Nat /\ \A c \in Chain, e \in Endpoint :
          Polls(c, e) = 0 + (IF Polled(c, e) THEN 1 ELSE 0)
    BY <2>1, <2>5 DEF Polls, Recorded, Polled
  <2> QED BY <2>2, <2>3, <2>4 DEF MetricsInv
<1>2. ProbeInv /\ LoopInv /\ ObservedInv /\ TickInv /\ MetricsInv /\ [Next]_vars => MetricsInv'
  <2> SUFFICES ASSUME ProbeInv, LoopInv, ObservedInv, TickInv, MetricsInv, [Next]_vars
               PROVE  MetricsInv'
    OBVIOUS
  <2>1. CASE \/ ScoreChain \/ SkipCheck \/ CheckHashes \/ LeaveLoop \/ HashesAgree
             \/ \E e \in Endpoint : Answer(e)
             \/ Outside \/ UNCHANGED vars
    BY <2>1, QuietStepKeepsMetrics
  <2>2. CASE StartRun \/ EndRun \/ PostAlert \/ PostDivergence
    BY <2>2, WritesKeepMetrics
  <2>3. CASE NextTick
    BY <2>3, NextTickKeepsMetrics
  <2>4. CASE HashesDiffer
    BY <2>4, HashesDifferKeepsMetrics
  <2>5. CASE ObserveSample
    BY <2>5, ObserveSampleKeepsMetrics
  <2>6. CASE RecordSample \/ RecordDivergence
    BY <2>6, RecordKeepsMetrics
  <2> QED BY <2>1, <2>2, <2>3, <2>4, <2>5, <2>6 DEF Next
<1> QED BY <1>1, <1>2, ProbeInvariance, LoopInvHolds, ObservedInvariance, TickInvariance,
           PTL DEF Spec

(***************************************************************************)
(* Whatever of the log is lost, a scrape at any time is true of the        *)
(* samples and divergences handed to the log and of at most one more, just *)
(* observed, and between ticks of those handed over exactly.               *)
(***************************************************************************)
THEOREM ScrapesAreTrue == Spec => []MetricsMatchFacts
<1>1. ProbeInv /\ LoopInv /\ ObservedInv /\ MetricsInv => MetricsMatchFacts
  <2> SUFFICES ASSUME ProbeInv, LoopInv, ObservedInv, MetricsInv PROVE MetricsMatchFacts
    OBVIOUS
  <2>1. DOMAIN Seen = 1 .. Len(Seen)
    BY SeenTyped
  <2>2. ASSUME NEW c \in Chain, NEW e \in Endpoint
        PROVE  /\ Samples(c, e) = SamplesIn(Seen, c, e)
               /\ {p \in Samples(c, e) : Seen[p].about[1] # "failed"} = HealthyIn(Seen, c, e)
    BY <2>1 DEF Samples, SamplesIn, HealthyIn
  <2>3. ASSUME NEW c \in Chain
        PROVE  {p \in DOMAIN Seen : Seen[p].type = "divergence" /\ Seen[p].about[2] = c}
                 = DivergencesIn(Seen, c)
    BY <2>1 DEF DivergencesIn
  <2>4. \A c \in Chain :
          (IF c \in DOMAIN divergences THEN divergences[c] ELSE 0)
            = Cardinality({p \in DOMAIN Seen :
                Seen[p].type = "divergence" /\ Seen[p].about[2] = c})
    BY <2>3 DEF MetricsInv, Counted
  <2>5. ASSUME NEW c \in Chain, NEW e \in Endpoint
        PROVE  LET all == Samples(c, e)
                   healthy == {p \in all : Seen[p].about[1] # "failed"}
               IN  /\ <<c, e>> \in DOMAIN registry <=> all # {}
                   /\ all # {} => SeriesMatches(registry[<<c, e>>], all, healthy)
    <3>1. SeriesTrue(Seen, registry, c, e)
      BY DEF MetricsInv
    <3> QED BY <2>2, <3>1 DEF SeriesTrue, SeriesOf, SeriesMatches
  <2>6. PICK past \in Nat : \A c \in Chain, e \in Endpoint :
          Polls(c, e) = past + (IF Polled(c, e) THEN 1 ELSE 0)
    BY DEF MetricsInv
  <2>7. ASSUME NEW c1 \in Chain, NEW c2 \in Chain, NEW e1 \in Endpoint, NEW e2 \in Endpoint,
               c1 < c2 \/ (c1 = c2 /\ e1 < e2)
        PROVE  Polls(c1, e1) - Polls(c2, e2) \in
                 IF BetweenTicks THEN {0} ELSE {0, 1}
    <3>1. Polled(c2, e2) => Polled(c1, e1)
      <4>1. /\ c1 \in Nat /\ c2 \in Nat /\ e1 \in Nat /\ e2 \in Nat
            /\ chain \in Nat /\ reported \in Nat
        BY LoopAssumption DEF Chain, Endpoint, LoopInv, LoopTypeOK
      <4> QED BY <2>7, <4>1 DEF Recorded, Polled
    <3>2. BetweenTicks => Polled(c1, e1) /\ Polled(c2, e2)
      BY DEF BetweenTicks, Polled, Recorded, LoopInv, ChainOfTick
    <3>3. /\ Polls(c1, e1) = past + (IF Polled(c1, e1) THEN 1 ELSE 0)
          /\ Polls(c2, e2) = past + (IF Polled(c2, e2) THEN 1 ELSE 0)
      BY <2>6
    <3>4. CASE Polled(c2, e2)
      BY <3>1, <3>3, <3>4
    <3>5. CASE ~Polled(c2, e2)
      BY <3>2, <3>3, <3>5
    <3> QED BY <3>4, <3>5
  <2>8. BetweenTicks => ~observed
    BY DEF BetweenTicks, ObservedInv
  <2> QED BY <2>4, <2>5, <2>7, <2>8 DEF MetricsMatchFacts
<1> QED BY <1>1, ProbeInvariance, LoopInvHolds, ObservedInvariance, MetricsInvariance, PTL

-----------------------------------------------------------------------------
(***************************************************************************)
(* Scores, records, keys and counters of a whole run are well typed.       *)
(***************************************************************************)
THEOREM TypeCorrect == Spec => []TypeOK
BY ProbeInvariance, PTL DEF ProbeInv

(***************************************************************************)
(* Whatever writes fail, the log is the beginning of what happened.        *)
(***************************************************************************)
THEOREM LogIsAlwaysPrefix == Spec => []LogIsPrefix
BY ProbeInvariance, PTL DEF ProbeInv, LogInv

(***************************************************************************)
(* A divergence alert of the log follows the record it is about.           *)
(***************************************************************************)
THEOREM DivergencesRecordedFirst == Spec => []DivergenceRecordedFirst
BY ProbeInvariance, PTL DEF ProbeInv

(***************************************************************************)
(* Two alerts on record for one condition are Cooldown apart, whatever     *)
(* posts and writes failed in between.                                     *)
(***************************************************************************)
THEOREM AlertsAreSpaced == Spec => []AlertsSpaced
<1>1. ProbeInv /\ SpacingInv => AlertsSpaced
  <2> SUFFICES ASSUME ProbeInv, SpacingInv, NEW i \in Positions("alert"),
                      NEW j \in Positions("alert"), i < j, log[i].about = log[j].about
               PROVE  log[j].ts - log[i].ts >= Cooldown
    BY DEF AlertsSpaced
  <2>1. /\ log \in Seq(Records) /\ facts \in Seq(Records)
        /\ Len(log) <= Len(facts) /\ \A n \in DOMAIN log : log[n] = facts[n]
    BY DEF ProbeInv, TypeOK, LogInv, LogIsPrefix
  <2>2. /\ i \in 1 .. Len(facts) /\ facts[i] = log[i] /\ facts[i].type = "alert"
        /\ j \in 1 .. Len(facts) /\ facts[j] = log[j] /\ facts[j].type = "alert"
    BY <2>1 DEF Positions
  <2> QED BY <2>2 DEF SpacingInv, FactsSpaced
<1> QED BY <1>1, ProbeInvariance, SpacingInvariance, PTL

(***************************************************************************)
(* Every lag and unavailability alert of the log can be justified from the *)
(* samples before it in the log alone.                                     *)
(***************************************************************************)
THEOREM AlertsAreJustified == Spec => []AlertsJustified
<1>1. ProbeInv /\ JustifiedInv => AlertsJustified
  <2> SUFFICES ASSUME ProbeInv, JustifiedInv, NEW i \in Positions("alert"),
                      log[i].about[1] # "divergence"
               PROVE  \E j \in 1 .. i - 1 :
                        /\ SampleOf(j, log[i].about[2], log[i].about[3])
                        /\ log[i].ts - log[j].ts >= For
                        /\ \A m \in j .. i - 1 :
                             SampleOf(m, log[i].about[2], log[i].about[3])
                               => log[m].about[1] = Class(log[i].about[1])
                        /\ \E m \in j .. i - 1 :
                             /\ SampleOf(m, log[i].about[2], log[i].about[3])
                             /\ log[m].ts = log[i].ts
    BY DEF AlertsJustified
  <2>1. /\ log \in Seq(Records) /\ facts \in Seq(Records) /\ Len(log) \in Nat
        /\ Len(facts) \in Nat /\ Len(log) <= Len(facts)
        /\ \A n \in 1 .. Len(log) : facts[n] = log[n]
    BY DEF ProbeInv, TypeOK, LogInv, LogIsPrefix
  <2>2. i \in 1 .. Len(log) /\ i \in 1 .. Len(facts) /\ OfSample(facts[i]) /\ facts[i] = log[i]
    BY <2>1 DEF Positions, OfSample
  <2>3. Grounded(facts, i - 1, log[i])
    BY <2>2 DEF JustifiedInv, FactsGrounded
  <2>4. Grounded(log, i - 1, log[i])
    <3>1. i - 1 \in Nat /\ \A m \in 1 .. i - 1 : log[m] = facts[m]
      BY <2>1, <2>2
    <3> QED BY <2>3, <3>1, GroundedByPrefix
  <2> QED BY <2>4 DEF Grounded, Breaching, IsSample, SampleOf
<1> QED BY <1>1, ProbeInvariance, JustifiedInvariance, PTL

(***************************************************************************)
(* No request outlives its round in the whole program either.              *)
(***************************************************************************)
THEOREM ProbeJoinsRequests == Spec => []RequestsAreJoined
BY LoopInvHolds, PTL DEF LoopInv

=============================================================================
