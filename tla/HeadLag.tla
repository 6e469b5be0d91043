------------------------------ MODULE HeadLag ------------------------------
(***************************************************************************)
(* Scoring the head polls of one chain, tick after tick (ComputeLag in     *)
(* internal/analysis/lag.go, called by tickChain in internal/probe).       *)
(*                                                                         *)
(* A tick at instant at brings one sample per endpoint.  The samples are   *)
(* scanned in configuration order, each healthy one moving the reference   *)
(* head and the height clock, which may prune in the middle of the scan;   *)
(* then every endpoint is scored against the reference and the clock.      *)
(***************************************************************************)
EXTENDS HeightClock

CONSTANT N    \* number of endpoints of the chain

ASSUME EndpointAssumption == N \in Nat \ {0}

VARIABLES samples,  \* the tick's samples, by endpoint
          at,       \* the tick's instant, common to all its samples
          next,     \* endpoint whose sample is scanned next; 0 between ticks
          best,     \* reference head of the tick
          lags      \* the scores returned by ComputeLag

vars == <<firstSeen, highest, earliest, samples, at, next, best, lags>>

Endpoint == 1 .. N

\* A failed poll carries no height; a healthy one may still report 0.
Failed == [ok |-> FALSE, height |-> 0]
Sample == {Failed} \cup [ok : {TRUE}, height : Height]

NoLag == [blocks |-> 0, seconds |-> 0, estimated |-> FALSE, leader |-> FALSE]
Lag == [blocks : Height, seconds : Time, estimated : BOOLEAN, leader : BOOLEAN]

-----------------------------------------------------------------------------
NonNegative(d) == IF d > 0 THEN d ELSE 0

\* Age of head h when the network's next height is dated, or else the
\* distance between the dates of the reference head and of h.
SecondsBehindSinceOwn(h) ==
  IF h + 1 \in DOMAIN firstSeen
  THEN IF h \in DOMAIN firstSeen THEN NonNegative(at - firstSeen[h]) ELSE 0
  ELSE 0

SecondsBehind(h) ==
  IF h + 1 \in DOMAIN firstSeen
  THEN NonNegative(at - firstSeen[h + 1])
  ELSE IF {best, h} \subseteq DOMAIN firstSeen
       THEN NonNegative(firstSeen[best] - firstSeen[h])
       ELSE 0

LagOf(s) ==
  IF ~s.ok \/ best = 0 THEN NoLag
  ELSE [blocks    |-> best - s.height,
        leader    |-> s.height = best,
        seconds   |-> IF s.height < best THEN SecondsBehind(s.height) ELSE 0,
        estimated |-> s.height < best /\ s.height + 1 \notin DOMAIN firstSeen]

-----------------------------------------------------------------------------
Init ==
  /\ ClockInit
  /\ samples = [e \in Endpoint |-> Failed]
  /\ at = 0
  /\ next = 0
  /\ best = 0
  /\ lags = [e \in Endpoint |-> NoLag]

\* All polls of a tick have returned (wg.Wait).  Ticks have later and later
\* instants; the height clock is the chain's own and outlives the tick.
BeginTick(s, t) ==
  /\ next = 0
  /\ t > at
  /\ samples' = s
  /\ at' = t
  /\ next' = 1
  /\ best' = 0
  /\ lags' = [e \in Endpoint |-> NoLag]
  /\ UNCHANGED clockVars

\* The sample of one endpoint, in the loops over the samples.
ScanLast ==
  /\ next \in Endpoint
  /\ LET s == samples[next]
     IN  IF s.ok
         THEN /\ best' = s.height
              /\ Observe(s.height, at)
         ELSE UNCHANGED <<best, firstSeen, highest, earliest>>
  /\ next' = next + 1
  /\ UNCHANGED <<samples, at, lags>>

Scan ==
  /\ next \in Endpoint
  /\ LET s == samples[next]
     IN  IF s.ok
         THEN /\ best' = IF s.height > best THEN s.height ELSE best
              /\ Observe(s.height, at)
         ELSE UNCHANGED <<best, firstSeen, highest, earliest>>
  /\ next' = next + 1
  /\ UNCHANGED <<samples, at, lags>>

Score ==
  /\ next = N + 1
  /\ lags' = [e \in Endpoint |-> LagOf(samples[e])]
  /\ next' = 0
  /\ UNCHANGED <<firstSeen, highest, earliest, samples, at, best>>

Next ==
  \/ \E s \in [Endpoint -> Sample], t \in Time : BeginTick(s, t)
  \/ Scan
  \/ Score

Spec == Init /\ [][Next]_vars

-----------------------------------------------------------------------------
TypeOK ==
  /\ ClockTypeOK
  /\ samples \in [Endpoint -> Sample]
  /\ at \in Time
  /\ next \in 0 .. N + 1
  /\ best \in Height
  /\ lags \in [Endpoint -> Lag]

\* The endpoints ComputeLag found behind the reference head.
Behind == {e \in Endpoint : next = 0 /\ samples[e].ok /\ samples[e].height < best}

(***************************************************************************)
(* A score that is not flagged as estimated never accuses an endpoint of   *)
(* more than the truth: the height right above its head was reported, in   *)
(* this tick or an earlier one, at least that long ago.                    *)
(***************************************************************************)
NeverOverstated ==
  \A e \in Behind :
    LET above == samples[e].height + 1
    IN  ~lags[e].estimated =>
          above \in DOMAIN earliest /\ lags[e].seconds <= at - earliest[above]

(***************************************************************************)
(* While the height right above an endpoint's head is within the clock's   *)
(* window, the score is measured, and is exactly the age of the earliest   *)
(* report of that height by any endpoint in any tick.                      *)
(***************************************************************************)
ExactInWindow ==
  \A e \in Behind :
    LET above == samples[e].height + 1
    IN  above \in DOMAIN earliest /\ above + Keep >= highest =>
          ~lags[e].estimated /\ lags[e].seconds = at - earliest[above]

(***************************************************************************)
(* The reference head is dated by the time endpoints are scored, wherever  *)
(* in the scan the pruning of the clock happened, and even when every      *)
(* endpoint fell back far below the highest height ever seen: the          *)
(* fallback measure always has its first operand.                          *)
(***************************************************************************)
ReferenceDated ==
  next = N + 1 /\ best > 0 => best \in DOMAIN firstSeen /\ best <= highest

-----------------------------------------------------------------------------
(***************************************************************************)
(* lag.go:95-98, "Lag in seconds is the wall-clock age of the endpoint's   *)
(* head: the time since the network moved past it": a measured score is    *)
(* the age of the first report of ANY height above the endpoint's head, up *)
(* to the tick's reference head.  The code does not have it: it takes the  *)
(* height right above, and when the network skipped that height between    *)
(* two ticks, an endpoint that reports it late resets the age.             *)
(***************************************************************************)
SecondsSinceNetworkMoved ==
  \A e \in Behind :
    ~lags[e].estimated =>
      \A k \in DOMAIN earliest \cap (samples[e].height + 1 .. best) :
        lags[e].seconds >= at - earliest[k]

=============================================================================
