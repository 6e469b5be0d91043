--------------------------- MODULE HeadLagProofs ---------------------------
(***************************************************************************)
(* The height clock is exact over its window, for every bound on heights   *)
(* and instants and every Keep.  The scores of ComputeLag over that clock  *)
(* are sound and, within the window, exact, for any number of endpoints,   *)
(* ticks and heights.                                                      *)
(***************************************************************************)
EXTENDS HeadLag, TLAPS

(***************************************************************************)
(* Stamp keeps a map of heights to instants and changes one date only.     *)
(***************************************************************************)
LEMMA StampLemma ==
  ASSUME NEW f, IsMap(f, Height \ {0}, Time),
         NEW h \in Height \ {0}, NEW t \in Time
  PROVE  /\ IsMap(Stamp(f, h, t), Height \ {0}, Time)
         /\ DOMAIN Stamp(f, h, t) = DOMAIN f \cup {h}
         /\ \A x \in DOMAIN f \ {h} : Stamp(f, h, t)[x] = f[x]
         /\ h \in DOMAIN f => Stamp(f, h, t)[h] = (IF f[h] < t THEN f[h] ELSE t)
         /\ h \notin DOMAIN f => Stamp(f, h, t)[h] = t
<1> USE ClockAssumption DEF Height, Time, IsMap
<1>1. CASE h \in DOMAIN f /\ t >= f[h]
  BY <1>1 DEF Stamp
<1>2. CASE ~(h \in DOMAIN f /\ t >= f[h])
  <2>1. Stamp(f, h, t) = Put(f, h, t)
    BY <1>2 DEF Stamp
  <2>2. Put(f, h, t) \in [DOMAIN f \cup {h} -> Time]
    BY DEF Put
  <2> QED BY <1>2, <2>1, <2>2 DEF Put
<1> QED BY <1>1, <1>2

(***************************************************************************)
(* Prune keeps exactly the heights of the window, with their dates.        *)
(***************************************************************************)
LEMMA PruneLemma ==
  ASSUME NEW f, IsMap(f, Height \ {0}, Time), NEW top \in Height
  PROVE  /\ IsMap(Prune(f, top), Height \ {0}, Time)
         /\ DOMAIN Prune(f, top) = {x \in DOMAIN f : x + Keep >= top}
         /\ \A x \in DOMAIN Prune(f, top) : Prune(f, top)[x] = f[x]
BY ClockAssumption DEF Prune, IsMap, Height, Time

\* What the highest height means: nothing above it was ever observed.
HighestIsTop == \A h \in DOMAIN earliest : h <= highest

ClockInv ==
  /\ ClockTypeOK
  /\ HighestIsTop
  /\ WindowExact
  /\ NeverTooEarly

\* The invariant holds of an empty clock.
LEMMA ClockInitInv == ClockInit => ClockInv
BY ClockAssumption
   DEF ClockInit, ClockInv, ClockTypeOK, HighestIsTop, WindowExact,
       NeverTooEarly, EmptyMap, IsMap, Height, Time

(***************************************************************************)
(* An observation of any height at any instant preserves the invariant:    *)
(* this is the step both the clock alone and the scan of a tick take.      *)
(***************************************************************************)
LEMMA ObserveKeepsClockInv ==
  ASSUME ClockInv, NEW h \in Height, NEW t \in Time, Observe(h, t)
  PROVE  ClockInv'
<1> USE ClockAssumption
<1>1. CASE h = 0
  BY <1>1 DEF Observe, clockVars, ClockInv, ClockTypeOK, HighestIsTop,
              WindowExact, NeverTooEarly
<1>2. CASE h # 0
  <2> DEFINE stamped == Stamp(firstSeen, h, t)
  <2>0. h \in Height \ {0} /\ IsMap(firstSeen, Height \ {0}, Time)
    BY <1>2 DEF ClockInv, ClockTypeOK
  <2>1. /\ IsMap(stamped, Height \ {0}, Time)
        /\ DOMAIN stamped = DOMAIN firstSeen \cup {h}
        /\ \A x \in DOMAIN firstSeen \ {h} : stamped[x] = firstSeen[x]
        /\ h \in DOMAIN firstSeen =>
             stamped[h] = (IF firstSeen[h] < t THEN firstSeen[h] ELSE t)
        /\ h \notin DOMAIN firstSeen => stamped[h] = t
    BY <2>0, StampLemma
  <2>2. Remember(h, t)
    BY <1>2 DEF Observe
  <2>3. /\ IsMap(earliest', Height \ {0}, Time)
        /\ DOMAIN earliest' = DOMAIN earliest \cup {h}
        /\ \A x \in DOMAIN earliest \ {h} : earliest'[x] = earliest[x]
        /\ h \in DOMAIN earliest =>
             earliest'[h] = (IF earliest[h] < t THEN earliest[h] ELSE t)
        /\ h \notin DOMAIN earliest => earliest'[h] = t
    BY <2>0, <2>2 DEF Remember, ClockInv, ClockTypeOK, IsMap
  <2>4. /\ \A x \in DOMAIN firstSeen :
             /\ x \in Height \ {0} /\ firstSeen[x] \in Time
             /\ x \in DOMAIN earliest /\ firstSeen[x] >= earliest[x]
        /\ \A x \in DOMAIN earliest :
             x \in Height \ {0} /\ earliest[x] \in Time /\ x <= highest
        /\ highest \in Height
    BY DEF ClockInv, ClockTypeOK, HighestIsTop, NeverTooEarly, IsMap
  <2> HIDE DEF stamped
  <2>5. CASE h > highest
    <3>1. highest' = h /\ firstSeen' = Prune(stamped, h)
      BY <1>2, <2>5 DEF Observe, stamped
    <3>2. /\ IsMap(firstSeen', Height \ {0}, Time)
          /\ DOMAIN firstSeen' = {x \in DOMAIN stamped : x + Keep >= h}
          /\ \A x \in DOMAIN firstSeen' : firstSeen'[x] = stamped[x]
      BY <2>1, <3>1, PruneLemma
    <3>3. ClockTypeOK'
      BY <2>3, <3>1, <3>2 DEF ClockTypeOK
    <3>4. HighestIsTop'
      BY <2>3, <2>4, <2>5, <3>1 DEF HighestIsTop, Height
    <3>5. WindowExact'
      BY <2>1, <2>3, <2>4, <2>5, <3>1, <3>2
         DEF WindowExact, ClockInv, Height, Time
    <3>6. NeverTooEarly'
      BY <2>1, <2>3, <2>4, <3>2 DEF NeverTooEarly, Height, Time
    <3> QED BY <3>3, <3>4, <3>5, <3>6 DEF ClockInv
  <2>6. CASE ~(h > highest)
    <3>1. highest' = highest /\ firstSeen' = stamped
      BY <1>2, <2>6 DEF Observe, stamped
    <3>2. ClockTypeOK'
      BY <2>1, <2>3, <2>4, <3>1 DEF ClockTypeOK
    <3>3. HighestIsTop'
      BY <2>3, <2>4, <2>6, <3>1 DEF HighestIsTop, Height
    <3>4. WindowExact'
      BY <2>1, <2>3, <2>4, <3>1 DEF WindowExact, ClockInv, Height, Time
    <3>5. NeverTooEarly'
      BY <2>1, <2>3, <2>4, <3>1 DEF NeverTooEarly, Height, Time
    <3> QED BY <3>2, <3>3, <3>4, <3>5 DEF ClockInv
  <2> QED BY <2>5, <2>6
<1> QED BY <1>1, <1>2

(***************************************************************************)
(* What an observation does to the clock, as ComputeLag relies on it: the  *)
(* height is dated, nothing is forgotten unless it is a new highest one,   *)
(* and no date lies beyond the instants observed so far.                   *)
(***************************************************************************)
LEMMA ObserveEffect ==
  ASSUME ClockInv, NEW h \in Height \ {0}, NEW t \in Time, Observe(h, t)
  PROVE  /\ h \in DOMAIN firstSeen'
         /\ highest' = IF h > highest THEN h ELSE highest
         /\ h <= highest => DOMAIN firstSeen \subseteq DOMAIN firstSeen'
         /\ (\A x \in DOMAIN firstSeen : firstSeen[x] <= t)
              => \A x \in DOMAIN firstSeen' : firstSeen'[x] <= t
<1> USE ClockAssumption
<1> DEFINE stamped == Stamp(firstSeen, h, t)
<1>1. IsMap(firstSeen, Height \ {0}, Time) /\ highest \in Height
  BY DEF ClockInv, ClockTypeOK
<1>2. /\ IsMap(stamped, Height \ {0}, Time)
      /\ DOMAIN stamped = DOMAIN firstSeen \cup {h}
      /\ \A x \in DOMAIN firstSeen \ {h} : stamped[x] = firstSeen[x]
      /\ h \in DOMAIN firstSeen =>
           stamped[h] = (IF firstSeen[h] < t THEN firstSeen[h] ELSE t)
      /\ h \notin DOMAIN firstSeen => stamped[h] = t
  BY <1>1, StampLemma
<1>3. (\A x \in DOMAIN firstSeen : firstSeen[x] <= t)
        => \A x \in DOMAIN stamped : stamped[x] <= t
  <2>1. \A x \in DOMAIN firstSeen : firstSeen[x] \in Time
    BY <1>1 DEF IsMap
  <2> HIDE DEF stamped
  <2> QED BY <1>2, <2>1 DEF Time
<1> HIDE DEF stamped
<1>4. CASE h > highest
  <2>1. highest' = h /\ firstSeen' = Prune(stamped, h)
    BY <1>4 DEF Observe, stamped
  <2>2. /\ DOMAIN firstSeen' = {x \in DOMAIN stamped : x + Keep >= h}
        /\ \A x \in DOMAIN firstSeen' : firstSeen'[x] = stamped[x]
    BY <1>2, <2>1, PruneLemma
  <2> QED BY <1>1, <1>2, <1>3, <1>4, <2>1, <2>2 DEF Height
<1>5. CASE ~(h > highest)
  BY <1>1, <1>2, <1>3, <1>5 DEF Observe, stamped, Height
<1> QED BY <1>4, <1>5

\* A step that leaves the clock alone keeps its invariant.
LEMMA StutterKeepsClockInv == ClockInv /\ UNCHANGED clockVars => ClockInv'
BY DEF clockVars, ClockInv, ClockTypeOK, HighestIsTop, WindowExact, NeverTooEarly

-----------------------------------------------------------------------------
(***************************************************************************)
(* The clock of lag.go is well typed, dates every height of its window     *)
(* with the earliest observation, and never dates a height too early.      *)
(***************************************************************************)
THEOREM ClockCorrect == ClockSpec => [](ClockTypeOK /\ WindowExact /\ NeverTooEarly)
<1>1. ClockInit => ClockInv
  BY ClockInitInv
<1>2. ClockInv /\ [ClockNext]_clockVars => ClockInv'
  BY ObserveKeepsClockInv, StutterKeepsClockInv DEF ClockNext
<1>3. ClockInv => ClockTypeOK /\ WindowExact /\ NeverTooEarly
  BY DEF ClockInv
<1> QED BY <1>1, <1>2, <1>3, PTL DEF ClockSpec

(***************************************************************************)
(* Heights leave the clock only through the window, and no date moves      *)
(* later while its height is remembered.                                   *)
(***************************************************************************)
THEOREM ClockForgetsByPruning == ClockSpec => OnlyPruningForgets
<1> DEFINE Kept == \A h \in DOMAIN firstSeen :
                     \/ h \in DOMAIN firstSeen' /\ firstSeen'[h] <= firstSeen[h]
                     \/ h + Keep < highest' /\ highest < highest'
<1>1. ClockInv /\ [ClockNext]_clockVars => [Kept]_clockVars
  <2> USE ClockAssumption
  <2> SUFFICES ASSUME ClockInv, NEW h \in Height, NEW t \in Time, Observe(h, t)
               PROVE  Kept
    BY DEF ClockNext
  <2>1. CASE h = 0
    BY <2>1 DEF Observe, clockVars, ClockInv, ClockTypeOK, IsMap, Time
  <2>2. CASE h # 0
    <3>a. h \in Height \ {0} /\ IsMap(firstSeen, Height \ {0}, Time)
      BY <2>2 DEF ClockInv, ClockTypeOK
    <3>0. /\ highest \in Height
          /\ \A x \in DOMAIN firstSeen : x \in Height /\ firstSeen[x] \in Time
      BY DEF ClockInv, ClockTypeOK, IsMap
    <3> DEFINE stamped == Stamp(firstSeen, h, t)
    <3>1. /\ IsMap(stamped, Height \ {0}, Time)
          /\ DOMAIN stamped = DOMAIN firstSeen \cup {h}
          /\ \A x \in DOMAIN firstSeen \ {h} : stamped[x] = firstSeen[x]
          /\ h \in DOMAIN firstSeen =>
               stamped[h] = (IF firstSeen[h] < t THEN firstSeen[h] ELSE t)
          /\ h \notin DOMAIN firstSeen => stamped[h] = t
      BY <3>a, StampLemma
    <3>2. \A x \in DOMAIN firstSeen :
            x \in DOMAIN stamped /\ stamped[x] <= firstSeen[x]
      BY <3>0, <3>1 DEF Time
    <3> HIDE DEF stamped
    <3>3. CASE h > highest
      <4>1. highest' = h /\ firstSeen' = Prune(stamped, h)
        BY <2>2, <3>3 DEF Observe, stamped
      <4>2. /\ DOMAIN firstSeen' = {x \in DOMAIN stamped : x + Keep >= h}
            /\ \A x \in DOMAIN firstSeen' : firstSeen'[x] = stamped[x]
        BY <3>1, <4>1, PruneLemma
      <4> QED BY <3>0, <3>2, <3>3, <4>1, <4>2 DEF Height
    <3>4. CASE ~(h > highest)
      BY <2>2, <3>2, <3>4 DEF Observe, stamped
    <3> QED BY <3>3, <3>4
  <2> QED BY <2>1, <2>2
<1>2. ClockInit => ClockInv
  BY ClockInitInv
<1>3. ClockInv /\ [ClockNext]_clockVars => ClockInv'
  BY ObserveKeepsClockInv, StutterKeepsClockInv DEF ClockNext
<1> QED BY <1>1, <1>2, <1>3, PTL DEF ClockSpec, OnlyPruningForgets

-----------------------------------------------------------------------------
\* The scan has seen no healthy head above the reference.
ReferenceIsTop ==
  \A e \in Endpoint :
    samples[e].ok /\ (next = 0 \/ e < next) => samples[e].height <= best

\* The reference is dated from the moment a sample sets it.
ReferenceKept == best > 0 => best \in DOMAIN firstSeen /\ best <= highest

\* No date lies in the tick's future.
NoFutureDate == \A h \in DOMAIN firstSeen : firstSeen[h] <= at

IInv ==
  /\ TypeOK
  /\ ClockInv
  /\ ReferenceIsTop
  /\ ReferenceKept
  /\ NoFutureDate
  /\ NeverOverstated
  /\ ExactInWindow

(***************************************************************************)
(* Healthy or not, a sample has a height.                                  *)
(***************************************************************************)
LEMMA SampleType ==
  ASSUME NEW x \in Sample PROVE x.ok \in BOOLEAN /\ x.height \in Height
<1>1. CASE x = Failed
  BY <1>1, ClockAssumption DEF Failed, Height
<1>2. CASE x \in [ok : {TRUE}, height : Height]
  BY <1>2
<1> QED BY <1>1, <1>2 DEF Sample

\* The invariant holds before the first tick.
LEMMA InitInv == Init => IInv
<1> USE ClockAssumption, EndpointAssumption
<1> SUFFICES ASSUME Init PROVE IInv
  OBVIOUS
<1>1. ClockInv
  BY ClockInitInv DEF Init
<1>2. TypeOK
  BY <1>1 DEF Init, TypeOK, ClockInv, Sample, Failed, Lag, NoLag, Height, Time
<1>3. ReferenceIsTop /\ ReferenceKept /\ NoFutureDate
  BY DEF Init, ClockInit, EmptyMap, ReferenceIsTop, ReferenceKept, NoFutureDate, Failed
<1>4. NeverOverstated /\ ExactInWindow
  BY DEF Init, Behind, NeverOverstated, ExactInWindow, Failed
<1> QED BY <1>1, <1>2, <1>3, <1>4 DEF IInv

\* A new tick only replaces the samples and the instant.
LEMMA BeginTickKeepsInv ==
  ASSUME IInv, NEW s \in [Endpoint -> Sample], NEW t \in Time, BeginTick(s, t)
  PROVE  IInv'
<1> USE ClockAssumption, EndpointAssumption DEF BeginTick
<1>1. ClockInv'
  BY StutterKeepsClockInv DEF IInv
<1>2. TypeOK'
  BY <1>1 DEF IInv, TypeOK, ClockInv, Lag, NoLag, Height, Time
<1>3. ReferenceIsTop'
  BY DEF ReferenceIsTop, Endpoint
<1>4. ReferenceKept' /\ NoFutureDate'
  BY DEF IInv, TypeOK, ClockTypeOK, IsMap, clockVars, ReferenceKept, NoFutureDate, Time
<1>5. NeverOverstated' /\ ExactInWindow'
  BY DEF Behind, NeverOverstated, ExactInWindow
<1> QED BY <1>1, <1>2, <1>3, <1>4, <1>5 DEF IInv

\* A scanned sample goes through the clock, whose invariant is preserved by
\* its own operations; the reference head stays the top of the clock.
LEMMA ScanKeepsInv == ASSUME IInv, Scan PROVE IInv'
<1> USE ClockAssumption, EndpointAssumption
<1> DEFINE s == samples[next]
<1>1. /\ next \in Endpoint /\ next' = next + 1
      /\ UNCHANGED <<samples, at, lags>>
  BY DEF Scan
<1>2. /\ s \in Sample /\ s.height \in Height /\ at \in Time
      /\ best \in Height /\ highest \in Height
  BY <1>1, SampleType DEF IInv, TypeOK, ClockTypeOK
<1>3. NeverOverstated' /\ ExactInWindow'
  BY <1>1 DEF Behind, NeverOverstated, ExactInWindow, Endpoint
<1>4. CASE s.ok
  <2>1. /\ best' = IF s.height > best THEN s.height ELSE best
        /\ Observe(s.height, at)
    BY <1>4 DEF Scan
  <2>2. ClockInv'
    BY <1>2, <2>1, ObserveKeepsClockInv DEF IInv
  <2>3. TypeOK'
    BY <1>1, <1>2, <2>1, <2>2 DEF IInv, TypeOK, ClockInv, Endpoint
  <2>4. ReferenceIsTop'
    <3>1. \A e \in Endpoint : samples[e].height \in Height
      BY SampleType DEF IInv, TypeOK
    <3>2. best' \in Height /\ best' >= best /\ best' >= s.height
      BY <1>2, <2>1 DEF Height
    <3>3. ASSUME NEW e \in Endpoint, samples[e].ok, e < next + 1
          PROVE  samples[e].height <= best'
      <4>1. CASE e = next
        BY <3>2, <4>1
      <4>2. CASE e < next
        BY <1>2, <3>1, <3>2, <3>3, <4>2 DEF IInv, ReferenceIsTop, Height
      <4> QED BY <1>1, <3>3, <4>1, <4>2 DEF Endpoint
    <3>4. next + 1 # 0
      BY <1>1 DEF Endpoint
    <3> QED BY <1>1, <3>3, <3>4 DEF ReferenceIsTop
  <2>5. ReferenceKept' /\ NoFutureDate'
    <3>1. CASE s.height = 0
      BY <1>1, <1>2, <2>1, <3>1
         DEF IInv, Observe, clockVars, ReferenceKept, NoFutureDate, Height
    <3>2. CASE s.height # 0
      <4>1. /\ s.height \in DOMAIN firstSeen'
            /\ highest' = IF s.height > highest THEN s.height ELSE highest
            /\ s.height <= highest => DOMAIN firstSeen \subseteq DOMAIN firstSeen'
            /\ (\A x \in DOMAIN firstSeen : firstSeen[x] <= at)
                 => \A x \in DOMAIN firstSeen' : firstSeen'[x] <= at
        BY <1>2, <2>1, <3>2, ObserveEffect DEF IInv
      <4>2. NoFutureDate'
        BY <1>1, <4>1 DEF IInv, NoFutureDate
      <4>3. ReferenceKept'
        BY <1>2, <2>1, <3>2, <4>1 DEF IInv, ReferenceKept, Height
      <4> QED BY <4>2, <4>3
    <3> QED BY <3>1, <3>2
  <2> QED BY <1>3, <2>2, <2>3, <2>4, <2>5 DEF IInv
<1>5. CASE ~s.ok
  <2>1. UNCHANGED <<best, firstSeen, highest, earliest>>
    BY <1>5 DEF Scan
  <2>2. ClockInv'
    BY <2>1, StutterKeepsClockInv DEF IInv, clockVars
  <2>3. TypeOK'
    BY <1>1, <2>1, <2>2 DEF IInv, TypeOK, ClockInv, Endpoint
  <2>4. ReferenceIsTop' /\ ReferenceKept' /\ NoFutureDate'
    BY <1>1, <1>5, <2>1
       DEF IInv, ReferenceIsTop, ReferenceKept, NoFutureDate, Endpoint
  <2> QED BY <1>3, <2>2, <2>3, <2>4 DEF IInv
<1> QED BY <1>4, <1>5

(***************************************************************************)
(* The score of one endpoint, from a clock that satisfies its invariant.   *)
(***************************************************************************)
LEMMA LagOfSound ==
  ASSUME IInv, next = N + 1, NEW e \in Endpoint
  PROVE  LET l == LagOf(samples[e])
             above == samples[e].height + 1
         IN  /\ l \in Lag
             /\ samples[e].ok /\ samples[e].height < best =>
                  /\ ~l.estimated => /\ above \in DOMAIN earliest
                                     /\ l.seconds <= at - earliest[above]
                  /\ above \in DOMAIN earliest /\ above + Keep >= highest =>
                       ~l.estimated /\ l.seconds = at - earliest[above]
<1> USE ClockAssumption, EndpointAssumption
<1> DEFINE s == samples[e]
           h == s.height
           l == LagOf(s)
<1>1. /\ h \in Height /\ at \in Time /\ best \in Height /\ highest \in Height
      /\ s.ok \in BOOLEAN
  BY SampleType DEF IInv, TypeOK, ClockTypeOK
<1>2. \A x \in DOMAIN firstSeen :
        /\ x \in DOMAIN earliest
        /\ firstSeen[x] \in Time /\ earliest[x] \in Time
        /\ firstSeen[x] <= at /\ earliest[x] <= firstSeen[x]
  BY DEF IInv, ClockInv, ClockTypeOK, IsMap, NeverTooEarly, NoFutureDate, Time
<1>3. s.ok => h <= best
  BY DEF IInv, ReferenceIsTop, Endpoint
<1>4. SecondsBehind(h) \in Time
  BY <1>1, <1>2 DEF SecondsBehind, NonNegative, Height, Time
<1>5. l \in Lag
  <2>1. CASE ~s.ok \/ best = 0
    BY <2>1 DEF LagOf, NoLag, Lag, Height, Time
  <2>2. CASE s.ok /\ best # 0
    <3>1. best - h \in Height /\ 0 \in Time
      BY <1>1, <1>3, <2>2 DEF Height, Time
    <3>2. (IF h < best THEN SecondsBehind(h) ELSE 0) \in Time
      BY <1>4, <3>1
    <3> HIDE DEF h
    <3>3. l = [blocks |-> best - s.height, leader |-> s.height = best,
               seconds |-> IF s.height < best THEN SecondsBehind(s.height) ELSE 0,
               estimated |-> s.height < best /\ s.height + 1 \notin DOMAIN firstSeen]
      BY <2>2 DEF LagOf
    <3> QED BY <3>1, <3>2, <3>3 DEF Lag, h
  <2> QED BY <1>1, <2>1, <2>2
<1>6. ASSUME s.ok, h < best
      PROVE  /\ ~l.estimated => /\ h + 1 \in DOMAIN earliest
                                /\ l.seconds <= at - earliest[h + 1]
             /\ h + 1 \in DOMAIN earliest /\ h + 1 + Keep >= highest =>
                  ~l.estimated /\ l.seconds = at - earliest[h + 1]
  <2>1. best # 0
    BY <1>1, <1>6 DEF Height
  <2>2. /\ l.seconds = SecondsBehind(h)
        /\ l.estimated = (h + 1 \notin DOMAIN firstSeen)
    BY <1>6, <2>1 DEF LagOf
  <2>3. h + 1 \in DOMAIN firstSeen => SecondsBehind(h) = at - firstSeen[h + 1]
    BY <1>1, <1>2 DEF SecondsBehind, NonNegative, Time
  <2>4. h + 1 \in DOMAIN earliest /\ h + 1 + Keep >= highest =>
          h + 1 \in DOMAIN firstSeen /\ firstSeen[h + 1] = earliest[h + 1]
    BY DEF IInv, ClockInv, WindowExact
  <2> HIDE DEF l, h
  <2>5. l.estimated \in BOOLEAN
    BY <1>5 DEF Lag
  <2>6. ASSUME ~l.estimated
        PROVE  h + 1 \in DOMAIN earliest /\ l.seconds <= at - earliest[h + 1]
    <3>1. h + 1 \in DOMAIN firstSeen
      BY <2>2, <2>6
    <3> QED BY <1>1, <1>2, <2>2, <2>3, <3>1 DEF Time
  <2>7. ASSUME h + 1 \in DOMAIN earliest, h + 1 + Keep >= highest
        PROVE  ~l.estimated /\ l.seconds = at - earliest[h + 1]
    BY <2>2, <2>3, <2>4, <2>7
  <2> QED BY <2>6, <2>7
<1> QED BY <1>5, <1>6

\* Scoring reads the clock and leaves it as it is.
LEMMA ScoreKeepsInv == ASSUME IInv, Score PROVE IInv'
<1> USE ClockAssumption, EndpointAssumption
<1>1. /\ next = N + 1 /\ next' = 0
      /\ lags' = [e \in Endpoint |-> LagOf(samples[e])]
      /\ UNCHANGED <<firstSeen, highest, earliest, samples, at, best>>
  BY DEF Score
<1>2. ClockInv'
  BY <1>1, StutterKeepsClockInv DEF IInv, clockVars
<1>3. TypeOK'
  BY <1>1, <1>2, LagOfSound DEF IInv, TypeOK, ClockInv
<1>4. ReferenceIsTop' /\ ReferenceKept' /\ NoFutureDate'
  BY <1>1 DEF IInv, ReferenceIsTop, ReferenceKept, NoFutureDate, Endpoint
<1>5. NeverOverstated'
  BY <1>1, LagOfSound DEF NeverOverstated, Behind
<1>6. ExactInWindow'
  BY <1>1, LagOfSound DEF ExactInWindow, Behind
<1> QED BY <1>2, <1>3, <1>4, <1>5, <1>6 DEF IInv

\* Every step keeps the invariant.
LEMMA NextKeepsInv == IInv /\ [Next]_vars => IInv'
<1> SUFFICES ASSUME IInv, [Next]_vars PROVE IInv'
  OBVIOUS
<1>1. CASE \E s \in [Endpoint -> Sample], t \in Time : BeginTick(s, t)
  BY <1>1, BeginTickKeepsInv
<1>2. CASE Scan
  BY <1>2, ScanKeepsInv
<1>3. CASE Score
  BY <1>3, ScoreKeepsInv
<1>4. CASE UNCHANGED vars
  <2>1. ClockInv'
    BY <1>4, StutterKeepsClockInv DEF IInv, vars, clockVars
  <2> QED BY <1>4, <2>1 DEF IInv, vars, TypeOK, ClockTypeOK, ReferenceIsTop,
             ReferenceKept, NoFutureDate, NeverOverstated, ExactInWindow, Behind
<1> QED BY <1>1, <1>2, <1>3, <1>4 DEF Next

\* The inductive invariant holds in every reachable state.
LEMMA Invariance == Spec => []IInv
BY InitInv, NextKeepsInv, PTL DEF Spec

-----------------------------------------------------------------------------
(***************************************************************************)
(* Every reachable state of the scoring of head polls is well typed: lags  *)
(* are never negative (the uint64 subtraction best - height does not wrap) *)
(* and seconds never exceed the run.                                       *)
(***************************************************************************)
THEOREM TypeCorrect == Spec => []TypeOK
BY Invariance, PTL DEF IInv

(***************************************************************************)
(* No measured lag in seconds is longer than the truth.                    *)
(***************************************************************************)
THEOREM ScoresNeverOverstated == Spec => []NeverOverstated
BY Invariance, PTL DEF IInv

(***************************************************************************)
(* Within the window of the clock a lag in seconds is measured, and exact. *)
(***************************************************************************)
THEOREM ScoresExactInWindow == Spec => []ExactInWindow
BY Invariance, PTL DEF IInv

(***************************************************************************)
(* The reference head is dated whenever endpoints are scored.              *)
(***************************************************************************)
THEOREM ReferenceAlwaysDated == Spec => []ReferenceDated
<1>1. IInv => ReferenceDated
  BY DEF IInv, ReferenceKept, ReferenceDated
<1> QED BY <1>1, Invariance, PTL

(***************************************************************************)
(* Scoring drives the height clock only as its own specification allows,   *)
(* so what is proved of the clock alone holds of the clock of every chain. *)
(***************************************************************************)
THEOREM UsesTheClock == Spec => ClockSpec
<1>1. Init => ClockInit
  BY DEF Init
<1>2. IInv /\ [Next]_vars => [ClockNext]_clockVars
  <2> SUFFICES ASSUME IInv, Next PROVE [ClockNext]_clockVars
    BY DEF vars, clockVars
  <2>1. CASE \E s \in [Endpoint -> Sample], t \in Time : BeginTick(s, t)
    BY <2>1 DEF BeginTick
  <2>2. CASE Scan
    <3>1. samples[next].height \in Height /\ at \in Time
      BY <2>2, SampleType DEF Scan, IInv, TypeOK
    <3> QED BY <2>2, <3>1, ClockAssumption DEF Scan, ClockNext, clockVars
  <2>3. CASE Score
    BY <2>3 DEF Score, clockVars
  <2> QED BY <2>1, <2>2, <2>3 DEF Next
<1> QED BY <1>1, <1>2, Invariance, PTL DEF Spec, ClockSpec

=============================================================================
