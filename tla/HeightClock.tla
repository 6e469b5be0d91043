---------------------------- MODULE HeightClock ----------------------------
(***************************************************************************)
(* The clock that dates the heights of one chain                           *)
(* (internal/analysis/lag.go, HeightClock).  It remembers when each height *)
(* was first seen by any endpoint, over a window of the most recent Keep   *)
(* heights, and is what turns a lag in blocks into a lag in seconds.       *)
(*                                                                         *)
(* The variable earliest is the history the clock is judged by: the        *)
(* earliest time at which each height was ever observed, never pruned.     *)
(***************************************************************************)
EXTENDS Integers, GoMap

CONSTANTS MaxHeight,  \* highest height any endpoint reports (bound)
          MaxTime,    \* latest instant of the run (bound)
          Keep        \* heights kept behind the highest one

ASSUME ClockAssumption ==
  /\ MaxHeight \in Nat
  /\ MaxTime \in Nat
  /\ Keep \in Nat \ {0}    \* NewHeightClock replaces 0

VARIABLES firstSeen,  \* HeightClock.firstSeen
          highest,    \* HeightClock.highest
          earliest    \* history: height -> earliest observation, never pruned

clockVars == <<firstSeen, highest, earliest>>

Height == 0 .. MaxHeight   \* 0 stands for "no height"
Time   == 0 .. MaxTime

-----------------------------------------------------------------------------
(* The operations, on a value of the map.                                  *)

\* The earlier of a remembered instant and a new one is kept.
StampLatest(f, h, at) == Put(f, h, at)
Stamp(f, h, at) == IF h \in DOMAIN f /\ at >= f[h] THEN f ELSE Put(f, h, at)

\* Heights more than Keep below the highest one are forgotten.
PruneTooMuch(f, top) == [h \in {x \in DOMAIN f : x > top - Keep} |-> f[h]]
Prune(f, top) == [h \in {x \in DOMAIN f : x >= top - Keep} |-> f[h]]

\* What is observed is remembered in the history whatever the clock does.
Remember(h, at) ==
  earliest' = [x \in DOMAIN earliest \cup {h} |->
                 IF x # h THEN earliest[x]
                 ELSE IF h \in DOMAIN earliest /\ earliest[h] < at
                      THEN earliest[h] ELSE at]

-----------------------------------------------------------------------------
ClockInit ==
  /\ firstSeen = EmptyMap
  /\ highest = 0
  /\ earliest = EmptyMap

\* Pruning happens only when the highest height rises.
Observe(h, at) ==
  IF h = 0 THEN UNCHANGED clockVars
  ELSE /\ Remember(h, at)
       /\ IF h > highest
          THEN /\ highest' = h
               /\ firstSeen' = Prune(Stamp(firstSeen, h, at), h)
          ELSE /\ firstSeen' = Stamp(firstSeen, h, at)
               /\ UNCHANGED highest

ClockNext == \E h \in Height, at \in Time : Observe(h, at)

ClockSpec == ClockInit /\ [][ClockNext]_clockVars

-----------------------------------------------------------------------------
ClockTypeOK ==
  /\ IsMap(firstSeen, Height \ {0}, Time)
  /\ IsMap(earliest, Height \ {0}, Time)
  /\ highest \in Height

(***************************************************************************)
(* Within the window of Keep heights below the highest one the clock has   *)
(* lost nothing: every height ever observed there, in whatever order and   *)
(* at whatever times, is dated with its true earliest observation.  Lag in *)
(* seconds is computed from these dates (ComputeLag).                      *)
(***************************************************************************)
WindowExact ==
  \A h \in DOMAIN earliest :
    h + Keep >= highest => h \in DOMAIN firstSeen /\ firstSeen[h] = earliest[h]

(***************************************************************************)
(* The clock never dates a height nobody observed, nor dates one before it *)
(* was first observed: an endpoint can be credited with less lag than it   *)
(* has, never accused of more.                                             *)
(***************************************************************************)
NeverTooEarly ==
  \A h \in DOMAIN firstSeen : h \in DOMAIN earliest /\ firstSeen[h] >= earliest[h]

(***************************************************************************)
(* A height leaves the clock only by falling out of the window, and its    *)
(* date never moves later while it is there.                               *)
(***************************************************************************)
OnlyPruningForgets ==
  [][\A h \in DOMAIN firstSeen :
       \/ h \in DOMAIN firstSeen' /\ firstSeen'[h] <= firstSeen[h]
       \/ h + Keep < highest' /\ highest < highest']_clockVars

=============================================================================
