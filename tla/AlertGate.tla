----------------------------- MODULE AlertGate -----------------------------
(***************************************************************************)
(* The gate in front of the alert webhook (internal/alert/alert.go, Gate). *)
(* A condition must hold for For before it fires, and cannot fire again    *)
(* within Cooldown.  The gate is told the truth of a condition, one key    *)
(* per condition, by Allow.                                                *)
(*                                                                         *)
(* The operators on a gate value are pure, so that the probe's module can  *)
(* use them; the specification below drives one gate with any calls, and   *)
(* its variable calls is the history the gate is judged by.                *)
(***************************************************************************)
EXTENDS Integers, Sequences, GoMap

CONSTANTS Key,       \* conditions: kind/chain/endpoint
          For,       \* how long a condition must hold
          Cooldown,  \* least distance between two alerts of a key
          MaxTime    \* latest instant of the run (bound)

ASSUME GateAssumption ==
  /\ For \in Nat
  /\ Cooldown \in Nat
  /\ MaxTime \in Nat

VARIABLES since,   \* Gate.since: key -> start of the current breach
          fired,   \* Gate.fired: key -> last alert
          active,  \* Gate.active: keys mapped to true
          calls    \* history: key -> calls of Allow and their answers

vars == <<since, fired, active, calls>>

Time == 0 .. MaxTime
Call == [at : Time, breaching : BOOLEAN, allowed : BOOLEAN]

-----------------------------------------------------------------------------
(* Allow, as a function of the maps the gate holds.                        *)

\* The start of the breach, this very call's instant when it is new.
Start(snc, k, now) == IF k \in DOMAIN snc THEN snc[k] ELSE now

AllowedOnceHeld(snc, frd, k, breaching, now) ==
  /\ breaching
  /\ now - Start(snc, k, now) >= For

AllowedLate(snc, frd, k, breaching, now) ==
  /\ breaching
  /\ now - Start(snc, k, now) > For
  /\ k \in DOMAIN frd => now - frd[k] >= Cooldown

Allowed(snc, frd, k, breaching, now) ==
  /\ breaching
  /\ now - Start(snc, k, now) >= For
  /\ k \in DOMAIN frd => now - frd[k] >= Cooldown

SinceNeverReset(snc, k, breaching, now) ==
  IF breaching THEN Put(snc, k, Start(snc, k, now)) ELSE snc

SinceAfter(snc, k, breaching, now) ==
  IF breaching THEN Put(snc, k, Start(snc, k, now)) ELSE Del(snc, k)

FiredAfter(snc, frd, k, breaching, now) ==
  IF Allowed(snc, frd, k, breaching, now) THEN Put(frd, k, now) ELSE frd

-----------------------------------------------------------------------------
Init ==
  /\ since = EmptyMap
  /\ fired = EmptyMap
  /\ active = {}
  /\ calls = [k \in Key |-> <<>>]

\* Calls of all keys share one clock; a key is asked once per tick at most.
InOrder(k, now) ==
  \A j \in Key : calls[j] # <<>> =>
    LET last == calls[j][Len(calls[j])].at
    IN  IF j = k THEN last < now ELSE last <= now

Allow(k, breaching, now) ==
  /\ InOrder(k, now)
  /\ LET allowed == Allowed(since, fired, k, breaching, now)
     IN  /\ active' = IF allowed THEN active \cup {k}
                      ELSE IF breaching THEN active ELSE active \ {k}
         /\ calls' = [calls EXCEPT ![k] = Append(@,
              [at |-> now, breaching |-> breaching, allowed |-> allowed])]
  /\ since' = SinceAfter(since, k, breaching, now)
  /\ fired' = FiredAfter(since, fired, k, breaching, now)

\* Resolved returns TRUE, and the key starts afresh.  It returns FALSE, and
\* changes nothing, exactly when the key is not in active.
Resolved(k) ==
  /\ k \in active
  /\ active' = active \ {k}
  /\ since' = Del(since, k)
  /\ fired' = Del(fired, k)
  /\ calls' = [calls EXCEPT ![k] = <<>>]

Next ==
  \E k \in Key :
    \/ \E breaching \in BOOLEAN, now \in Time : Allow(k, breaching, now)
    \/ Resolved(k)

Spec == Init /\ [][Next]_vars

-----------------------------------------------------------------------------
TypeOK ==
  /\ IsMap(since, Key, Time)
  /\ IsMap(fired, Key, Time)
  /\ active \subseteq Key
  /\ calls \in [Key -> Seq(Call)]

\* Of the calls c of one key, those from the i-th to the j-th all reported
\* the condition.
Holding(c, i, j) == \A m \in i .. j : c[m].breaching

\* At the j-th call the condition had held for For, without a break.
Sustained(c, j) ==
  \E i \in 1 .. j : Holding(c, i, j) /\ c[j].at - c[i].at >= For

OnlySustained(c) ==
  \A j \in 1 .. Len(c) : c[j].allowed => Sustained(c, j)

Spaced(c) ==
  \A i, j \in 1 .. Len(c) :
    i < j /\ c[i].allowed /\ c[j].allowed => c[j].at - c[i].at >= Cooldown

RefusedInCooldown(c) ==
  \A j \in 1 .. Len(c) :
    Sustained(c, j) /\ ~c[j].allowed =>
      \E i \in 1 .. j - 1 : c[i].allowed /\ c[j].at - c[i].at < Cooldown

(***************************************************************************)
(* No alert for a flapping condition: when an alert is allowed, every call *)
(* for its key over a span of at least For had reported the condition.     *)
(***************************************************************************)
FiresOnlyWhenSustained == \A k \in Key : OnlySustained(calls[k])

(***************************************************************************)
(* Two alerts of a key are at least Cooldown apart, whatever the condition *)
(* did in between: a recovery does not open the gate early.                *)
(***************************************************************************)
SpacedByCooldown == \A k \in Key : Spaced(calls[k])

(***************************************************************************)
(* No alert is withheld for any other reason: a sustained condition whose  *)
(* call was refused had an alert less than Cooldown before.                *)
(***************************************************************************)
RefusedOnlyForCooldown == \A k \in Key : RefusedInCooldown(calls[k])

=============================================================================
