-------------------------- MODULE AlertGateProofs --------------------------
(***************************************************************************)
(* The gate keeps its promise for any set of keys, any For and Cooldown,   *)
(* and any sequence of calls.                                              *)
(***************************************************************************)
EXTENDS AlertGate, TLAPS

\* The calls c of one key are in the order of their instants.
Ordered(c) == \A i, j \in 1 .. Len(c) : i < j => c[i].at < c[j].at

\* A breach of the condition runs from the i-th call to the last one.
RunsFrom(c, i) ==
  /\ i \in 1 .. Len(c)
  /\ Holding(c, i, Len(c))
  /\ i > 1 => ~c[i - 1].breaching

\* since[k] is the start of the breach the last call of k is part of.
SinceIsRunStart(snc, k, c) ==
  /\ k \in DOMAIN snc => \E i \in 1 .. Len(c) : RunsFrom(c, i) /\ c[i].at = snc[k]
  /\ (k \notin DOMAIN snc /\ Len(c) > 0) => ~c[Len(c)].breaching

\* fired[k] is the instant of the last alert of k.
FiredIsLastAlert(frd, k, c) ==
  /\ k \notin DOMAIN frd => \A i \in 1 .. Len(c) : ~c[i].allowed
  /\ k \in DOMAIN frd =>
       \E i \in 1 .. Len(c) :
         /\ c[i].allowed /\ c[i].at = frd[k]
         /\ \A j \in 1 .. Len(c) : j > i => ~c[j].allowed

KeyInv(snc, frd, k, c) ==
  /\ Ordered(c)
  /\ SinceIsRunStart(snc, k, c)
  /\ FiredIsLastAlert(frd, k, c)
  /\ OnlySustained(c)
  /\ Spaced(c)
  /\ RefusedInCooldown(c)

GateInv == TypeOK /\ \A k \in Key : KeyInv(since, fired, k, calls[k])

-----------------------------------------------------------------------------
(***************************************************************************)
(* Appending a call leaves the earlier calls and what holds of them alone. *)
(***************************************************************************)
LEMMA AppendCall ==
  ASSUME NEW c \in Seq(Call), NEW new \in Call
  PROVE  LET n == Len(c)
             d == Append(c, new)
         IN  /\ n \in Nat /\ Len(d) = n + 1
             /\ d[n + 1] = new
             /\ \A i \in 1 .. n : d[i] = c[i] /\ c[i] \in Call
             /\ \A i \in 1 .. n + 1 : d[i] \in Call /\ (i = n + 1 \/ i \in 1 .. n)
             /\ \A j \in 1 .. n : Sustained(d, j) <=> Sustained(c, j)
<1> DEFINE n == Len(c)
           d == Append(c, new)
<1>1. n \in Nat /\ Len(d) = n + 1 /\ d[n + 1] = new
  OBVIOUS
<1>2. \A i \in 1 .. n : d[i] = c[i] /\ c[i] \in Call
  OBVIOUS
<1>3. \A i \in 1 .. n + 1 : d[i] \in Call /\ (i = n + 1 \/ i \in 1 .. n)
  OBVIOUS
<1> HIDE DEF n, d
<1>4. ASSUME NEW j \in 1 .. n PROVE Sustained(d, j) <=> Sustained(c, j)
  <2>1. \A i \in 1 .. j : d[i] = c[i] /\ \A m \in i .. j : d[m] = c[m]
    BY <1>1, <1>2
  <2>2. \A i \in 1 .. j : Holding(d, i, j) <=> Holding(c, i, j)
    BY <2>1 DEF Holding
  <2>3. d[j] = c[j]
    BY <1>2
  <2> QED BY <2>1, <2>2, <2>3 DEF Sustained
<1> QED BY <1>1, <1>2, <1>3, <1>4 DEF n, d

\* What Allow adds to the history is a call record.
LEMMA CallType ==
  ASSUME NEW x \in Call
  PROVE  x.at \in Nat /\ x.breaching \in BOOLEAN /\ x.allowed \in BOOLEAN
BY GateAssumption DEF Call, Time

(***************************************************************************)
(* One call of Allow preserves the invariant of its key.                   *)
(***************************************************************************)
LEMMA CallKeepsKeyInv ==
  ASSUME NEW k \in Key, NEW snc, NEW frd, IsMap(snc, Key, Time),
         NEW c \in Seq(Call), KeyInv(snc, frd, k, c),
         NEW new \in Call, \A i \in 1 .. Len(c) : c[i].at < new.at,
         new.allowed = Allowed(snc, frd, k, new.breaching, new.at)
  PROVE  KeyInv(SinceAfter(snc, k, new.breaching, new.at),
                FiredAfter(snc, frd, k, new.breaching, new.at),
                k, Append(c, new))
<1> USE GateAssumption
<1> DEFINE n == Len(c)
           d == Append(c, new)
           now == new.at
           st == Start(snc, k, now)
<1>1. /\ n \in Nat /\ Len(d) = n + 1 /\ d[n + 1] = new
      /\ \A i \in 1 .. n : d[i] = c[i] /\ c[i] \in Call
      /\ \A i \in 1 .. n + 1 : d[i] \in Call /\ (i = n + 1 \/ i \in 1 .. n)
      /\ \A j \in 1 .. n : Sustained(d, j) <=> Sustained(c, j)
  BY AppendCall
<1>2. /\ now \in Nat /\ new.breaching \in BOOLEAN /\ new.allowed \in BOOLEAN
      /\ \A i \in 1 .. n : /\ c[i].at \in Nat /\ c[i].breaching \in BOOLEAN
                           /\ c[i].allowed \in BOOLEAN
  BY <1>1, CallType
<1>3. st \in Nat
  BY <1>2 DEF Start, IsMap, Time
<1>4. /\ \A i \in 1 .. n : c[i].at < now
      /\ Ordered(c) /\ SinceIsRunStart(snc, k, c) /\ FiredIsLastAlert(frd, k, c)
      /\ OnlySustained(c) /\ Spaced(c) /\ RefusedInCooldown(c)
  BY DEF KeyInv
<1>5. new.allowed => new.breaching /\ now - st >= For
  BY DEF Allowed
<1>6. new.allowed /\ k \in DOMAIN frd => now - frd[k] >= Cooldown
  BY DEF Allowed
<1>7. ~new.allowed /\ new.breaching /\ now - st >= For =>
        k \in DOMAIN frd /\ ~(now - frd[k] >= Cooldown)
  BY DEF Allowed
\* Where the breach that this call reports began.
<1>8. ASSUME new.breaching
      PROVE  \E i \in 1 .. n + 1 : RunsFrom(d, i) /\ d[i].at = st
  <2>1. CASE k \in DOMAIN snc
    <3>1. PICK i \in 1 .. n : RunsFrom(c, i) /\ c[i].at = snc[k]
      BY <1>4, <2>1 DEF SinceIsRunStart
    <3>2. st = snc[k]
      BY <2>1 DEF Start
    <3> HIDE DEF d, st, now, n
    <3>3. i \in 1 .. n + 1 /\ d[i].at = st
      <4>1. i \in 1 .. n + 1 /\ d[i] = c[i]
        BY <1>1
      <4> QED BY <3>1, <3>2, <4>1
    <3>4. \A m \in i .. n + 1 : m = n + 1 \/ (m \in i .. n /\ m \in 1 .. n)
      BY <1>1
    <3>a. \A m \in i .. n : c[m].breaching
      BY <3>1 DEF Holding, RunsFrom, n
    <3>b. ASSUME NEW m \in i .. n + 1 PROVE d[m].breaching
      BY <1>1, <1>8, <3>4, <3>a
    <3>5. Holding(d, i, n + 1)
      BY <3>b DEF Holding
    <3>6. i > 1 => ~d[i - 1].breaching
      <4>1. i > 1 => i - 1 \in 1 .. n
        BY <1>1
      <4> QED BY <1>1, <3>1, <4>1 DEF RunsFrom
    <3> QED BY <1>1, <3>3, <3>5, <3>6 DEF RunsFrom
  <2>2. CASE k \notin DOMAIN snc
    <3>1. n > 0 => ~c[n].breaching
      BY <1>4, <2>2 DEF SinceIsRunStart
    <3>2. st = now
      BY <2>2 DEF Start
    <3> HIDE DEF d, st, n
    <3>3. n + 1 \in 1 .. n + 1 /\ d[n + 1].at = st
      BY <1>1, <3>2
    <3>4. Holding(d, n + 1, n + 1)
      BY <1>1, <1>8 DEF Holding
    <3>5. n + 1 > 1 => ~d[n].breaching
      BY <1>1, <3>1
    <3> QED BY <1>1, <3>3, <3>4, <3>5 DEF RunsFrom
  <2> QED BY <2>1, <2>2
<1> DEFINE snc2 == SinceAfter(snc, k, new.breaching, now)
           frd2 == FiredAfter(snc, frd, k, new.breaching, now)
<1>9. SinceIsRunStart(snc2, k, d)
  <2>1. k \in DOMAIN snc2 <=> new.breaching
    BY DEF SinceAfter, Put, Del
  <2>2. new.breaching => snc2[k] = st
    BY DEF SinceAfter, Put
  <2> HIDE DEF d, st, n, snc2
  <2> QED BY <1>1, <1>8, <2>1, <2>2 DEF SinceIsRunStart
<1>10. FiredIsLastAlert(frd2, k, d)
  <2>1. CASE new.allowed
    <3>1. k \in DOMAIN frd2 /\ frd2[k] = now
      BY <2>1 DEF FiredAfter, Put
    <3> HIDE DEF d, frd2, n
    <3>2. n + 1 \in 1 .. n + 1 /\ \A j \in 1 .. n + 1 : ~(j > n + 1)
      BY <1>1
    <3> QED BY <1>1, <2>1, <3>1, <3>2 DEF FiredIsLastAlert
  <2>2. CASE ~new.allowed
    <3>1. frd2 = frd
      BY <2>2 DEF FiredAfter
    <3> HIDE DEF d, frd2, n
    <3>2. \A i \in 1 .. n : i \in 1 .. n + 1
      BY <1>1
    <3> QED BY <1>1, <1>4, <2>2, <3>1, <3>2 DEF FiredIsLastAlert, n
  <2> QED BY <2>1, <2>2
<1> HIDE DEF st, snc2, frd2, d, n
<1>11. Ordered(d)
  BY <1>1, <1>2, <1>4 DEF Ordered, n
\* This call is part of a breach that lasted For exactly when since says so.
<1>12. ASSUME Sustained(d, n + 1) PROVE new.breaching /\ now - st >= For
  <2>1. PICK i \in 1 .. n + 1 : Holding(d, i, n + 1) /\ d[n + 1].at - d[i].at >= For
    BY <1>12 DEF Sustained
  <2>2. new.breaching
    BY <1>1, <2>1 DEF Holding
  <2>3. PICK s \in 1 .. n + 1 : RunsFrom(d, s) /\ d[s].at = st
    BY <1>8, <2>2
  <2>4. s <= i
    <3> SUFFICES ASSUME s > i PROVE FALSE
      BY <1>1
    <3>1. s > 1 /\ s - 1 \in i .. n + 1
      BY <1>1
    <3> QED BY <2>1, <2>3, <3>1 DEF RunsFrom, Holding
  <2>6. d[i].at \in Nat
    BY <1>1, CallType
  <2>5. d[s].at <= d[i].at
    <3>1. CASE s = i
      BY <2>6, <3>1
    <3>2. CASE s < i
      BY <1>1, <1>3, <1>11, <2>3, <2>6, <3>2 DEF Ordered
    <3> QED BY <1>1, <2>4, <3>1, <3>2
  <2> QED BY <1>1, <1>2, <1>3, <2>1, <2>2, <2>3, <2>5, <2>6
<1>13. ASSUME new.breaching, now - st >= For PROVE Sustained(d, n + 1)
  <2>1. PICK s \in 1 .. n + 1 : RunsFrom(d, s) /\ d[s].at = st
    BY <1>8, <1>13
  <2> QED BY <1>1, <1>13, <2>1 DEF Sustained, RunsFrom
<1>14. OnlySustained(d)
  BY <1>1, <1>4, <1>5, <1>13 DEF OnlySustained, n
<1>15. Spaced(d)
  <2>1. ASSUME new.allowed, NEW i \in 1 .. n, c[i].allowed
        PROVE  now - c[i].at >= Cooldown
    <3>1. k \in DOMAIN frd
      BY <1>4, <2>1 DEF FiredIsLastAlert, n
    <3>2. PICK l \in 1 .. n : /\ c[l].at = frd[k]
                              /\ \A j \in 1 .. n : j > l => ~c[j].allowed
      BY <1>4, <3>1 DEF FiredIsLastAlert, n
    <3>3. i <= l
      BY <1>1, <2>1, <3>2
    <3>4. c[i].at <= c[l].at
      BY <1>1, <1>2, <1>4, <3>3 DEF Ordered, n
    <3> QED BY <1>2, <1>6, <2>1, <3>1, <3>2, <3>4
  <2> SUFFICES ASSUME NEW i \in 1 .. n + 1, NEW j \in 1 .. n + 1, i < j,
                      d[i].allowed, d[j].allowed
               PROVE  d[j].at - d[i].at >= Cooldown
    BY <1>1 DEF Spaced
  <2>2. i \in 1 .. n
    BY <1>1
  <2>3. CASE j = n + 1
    <3>1. d[i] = c[i] /\ d[j] = new
      BY <1>1, <2>2, <2>3
    <3> QED BY <2>1, <2>2, <3>1
  <2>4. CASE j \in 1 .. n
    BY <1>1, <1>4, <2>2, <2>4 DEF Spaced, n
  <2> QED BY <1>1, <2>3, <2>4
<1>16. RefusedInCooldown(d)
  <2>1. ASSUME Sustained(d, n + 1), ~new.allowed
        PROVE  \E i \in 1 .. n : c[i].allowed /\ now - c[i].at < Cooldown
    <3>1. k \in DOMAIN frd /\ ~(now - frd[k] >= Cooldown)
      BY <1>7, <1>12, <2>1
    <3>2. PICK l \in 1 .. n : c[l].allowed /\ c[l].at = frd[k]
      BY <1>4, <3>1 DEF FiredIsLastAlert, n
    <3>3. c[l].at \in Nat
      BY <1>2
    <3> QED BY <1>2, <3>1, <3>2, <3>3
  <2> SUFFICES ASSUME NEW j \in 1 .. n + 1, Sustained(d, j), ~d[j].allowed
               PROVE  \E i \in 1 .. j - 1 :
                        d[i].allowed /\ d[j].at - d[i].at < Cooldown
    BY <1>1 DEF RefusedInCooldown
  <2>2. CASE j = n + 1
    <3>1. PICK i \in 1 .. n : c[i].allowed /\ now - c[i].at < Cooldown
      BY <1>1, <2>1, <2>2
    <3>2. i \in 1 .. j - 1 /\ d[i] = c[i] /\ d[j] = new
      BY <1>1, <2>2
    <3> QED BY <3>1, <3>2
  <2>3. CASE j \in 1 .. n
    <3>1. PICK i \in 1 .. j - 1 : c[i].allowed /\ c[j].at - c[i].at < Cooldown
      BY <1>1, <1>4, <2>3 DEF RefusedInCooldown, n
    <3>2. d[i] = c[i] /\ d[j] = c[j]
      BY <1>1, <2>3
    <3> QED BY <3>1, <3>2
  <2> QED BY <1>1, <2>2, <2>3
<1> QED BY <1>9, <1>10, <1>11, <1>14, <1>15, <1>16 DEF KeyInv, snc2, frd2, d

-----------------------------------------------------------------------------
\* The invariant holds of an empty gate.
LEMMA InitInv == Init => GateInv
<1> SUFFICES ASSUME Init PROVE GateInv
  OBVIOUS
<1>1. TypeOK
  BY DEF Init, TypeOK, EmptyMap, IsMap
<1>2. ASSUME NEW k \in Key PROVE KeyInv(since, fired, k, calls[k])
  <2>1. calls[k] = <<>> /\ k \notin DOMAIN since /\ k \notin DOMAIN fired
    BY DEF Init, EmptyMap
  <2> QED BY <2>1 DEF KeyInv, Ordered, SinceIsRunStart, FiredIsLastAlert,
                      OnlySustained, Spaced, RefusedInCooldown
<1> QED BY <1>1, <1>2 DEF GateInv

(***************************************************************************)
(* A key that is not called keeps its invariant.                           *)
(***************************************************************************)
LEMMA OtherKey ==
  ASSUME NEW j, NEW c, NEW snc, NEW frd, NEW snc2, NEW frd2,
         KeyInv(snc, frd, j, c),
         j \in DOMAIN snc2 <=> j \in DOMAIN snc,
         j \in DOMAIN snc => snc2[j] = snc[j],
         j \in DOMAIN frd2 <=> j \in DOMAIN frd,
         j \in DOMAIN frd => frd2[j] = frd[j]
  PROVE  KeyInv(snc2, frd2, j, c)
BY DEF KeyInv, SinceIsRunStart, FiredIsLastAlert

\* Allow keeps the three maps typed.
LEMMA AllowTyped ==
  ASSUME GateInv, NEW k \in Key, NEW b \in BOOLEAN, NEW now \in Time,
         Allow(k, b, now)
  PROVE  TypeOK'
<1> USE GateAssumption DEF GateInv, TypeOK
<1>1. Start(since, k, now) \in Time
  BY DEF Start, IsMap
<1>2. IsMap(since', Key, Time)
  BY <1>1 DEF Allow, SinceAfter, Put, Del, IsMap
<1>3. IsMap(fired', Key, Time)
  BY DEF Allow, FiredAfter, Put, IsMap
<1>4. active' \subseteq Key
  BY DEF Allow
<1>5. calls' \in [Key -> Seq(Call)]
  <2> DEFINE new == [at |-> now, breaching |-> b,
                     allowed |-> Allowed(since, fired, k, b, now)]
  <2>1. new \in Call
    BY DEF Allowed, Call
  <2>2. calls' = [calls EXCEPT ![k] = Append(calls[k], new)]
    BY DEF Allow
  <2> HIDE DEF new
  <2> QED BY <2>1, <2>2
<1> QED BY <1>2, <1>3, <1>4, <1>5

\* Allow keeps the invariant: of its key by CallKeepsKeyInv, of the others
\* by OtherKey.
LEMMA AllowKeepsInv ==
  ASSUME GateInv, NEW k \in Key, NEW b \in BOOLEAN, NEW now \in Time,
         Allow(k, b, now)
  PROVE  GateInv'
<1> DEFINE new == [at |-> now, breaching |-> b,
                   allowed |-> Allowed(since, fired, k, b, now)]
<1>1. /\ new \in Call /\ new.at = now /\ new.breaching = b
      /\ new.allowed = Allowed(since, fired, k, b, now)
  BY DEF Allowed, Call
<1>2. /\ calls' = [calls EXCEPT ![k] = Append(calls[k], new)]
      /\ since' = SinceAfter(since, k, b, now)
      /\ fired' = FiredAfter(since, fired, k, b, now)
  BY DEF Allow
<1> HIDE DEF new
<1>3. /\ IsMap(since, Key, Time) /\ calls \in [Key -> Seq(Call)]
      /\ \A j \in Key : KeyInv(since, fired, j, calls[j])
  BY DEF GateInv, TypeOK
<1>4. KeyInv(since', fired', k, calls'[k])
  <2>1. \A i \in 1 .. Len(calls[k]) : calls[k][i].at < now
    <3>1. calls[k] \in Seq(Call) /\ Ordered(calls[k])
      BY <1>3 DEF KeyInv
    <3>2. calls[k] # <<>> => calls[k][Len(calls[k])].at < now
      BY DEF Allow, InOrder
    <3>3. \A i \in 1 .. Len(calls[k]) : calls[k][i].at \in Nat
      BY <3>1, CallType
    <3>4. now \in Nat
      BY GateAssumption DEF Time
    <3> QED BY <3>1, <3>2, <3>3, <3>4 DEF Ordered
  <2>2. KeyInv(SinceAfter(since, k, new.breaching, new.at),
               FiredAfter(since, fired, k, new.breaching, new.at),
               k, Append(calls[k], new))
    BY <1>1, <1>3, <2>1, CallKeepsKeyInv
  <2> QED BY <1>1, <1>2, <1>3, <2>2
<1>5. ASSUME NEW j \in Key, j # k PROVE KeyInv(since', fired', j, calls'[j])
  <2>1. calls'[j] = calls[j]
    BY <1>2, <1>3, <1>5
  <2>2. /\ j \in DOMAIN since' <=> j \in DOMAIN since
        /\ j \in DOMAIN since => since'[j] = since[j]
    BY <1>2, <1>5 DEF SinceAfter, Put, Del
  <2>3. /\ j \in DOMAIN fired' <=> j \in DOMAIN fired
        /\ j \in DOMAIN fired => fired'[j] = fired[j]
    BY <1>2, <1>5 DEF FiredAfter, Put
  <2> QED BY <1>3, <2>1, <2>2, <2>3, OtherKey
<1> QED BY <1>4, <1>5, AllowTyped DEF GateInv

\* Resolved forgets its key altogether and with it the key's history, so the
\* invariant of the key holds as of a new one; other keys are untouched.
LEMMA ResolvedKeepsInv ==
  ASSUME GateInv, NEW k \in Key, Resolved(k) PROVE GateInv'
<1>1. TypeOK'
  BY DEF GateInv, TypeOK, Resolved, Del, IsMap
<1>2. KeyInv(since', fired', k, calls'[k])
  <2>1. calls'[k] = <<>> /\ k \notin DOMAIN since' /\ k \notin DOMAIN fired'
    BY DEF GateInv, TypeOK, Resolved, Del
  <2> QED BY <2>1 DEF KeyInv, Ordered, SinceIsRunStart, FiredIsLastAlert,
                      OnlySustained, Spaced, RefusedInCooldown
<1>3. ASSUME NEW j \in Key, j # k PROVE KeyInv(since', fired', j, calls'[j])
  <2>1. calls'[j] = calls[j]
    BY <1>3 DEF Resolved, GateInv, TypeOK
  <2>2. /\ j \in DOMAIN since' <=> j \in DOMAIN since
        /\ j \in DOMAIN since => since'[j] = since[j]
        /\ j \in DOMAIN fired' <=> j \in DOMAIN fired
        /\ j \in DOMAIN fired => fired'[j] = fired[j]
    BY <1>3 DEF Resolved, Del
  <2> QED BY <2>1, <2>2, OtherKey DEF GateInv
<1> QED BY <1>1, <1>2, <1>3 DEF GateInv

\* The inductive invariant holds in every reachable state.
LEMMA Invariance == Spec => []GateInv
<1>1. GateInv /\ [Next]_vars => GateInv'
  <2> SUFFICES ASSUME GateInv, [Next]_vars PROVE GateInv'
    OBVIOUS
  <2>1. CASE Next
    BY <2>1, AllowKeepsInv, ResolvedKeepsInv DEF Next
  <2>2. CASE UNCHANGED vars
    BY <2>2 DEF vars, GateInv, TypeOK
  <2> QED BY <2>1, <2>2
<1> QED BY <1>1, InitInv, PTL DEF Spec

-----------------------------------------------------------------------------
(***************************************************************************)
(* The gate's maps and its answers are well typed.                         *)
(***************************************************************************)
THEOREM TypeCorrect == Spec => []TypeOK
BY Invariance, PTL DEF GateInv

(***************************************************************************)
(* Only a condition that held for For without a break is alerted.          *)
(***************************************************************************)
THEOREM NoAlertForFlapping == Spec => []FiresOnlyWhenSustained
<1>1. GateInv => FiresOnlyWhenSustained
  BY DEF GateInv, KeyInv, FiresOnlyWhenSustained
<1> QED BY <1>1, Invariance, PTL

(***************************************************************************)
(* Alerts of a key are at least Cooldown apart.                            *)
(***************************************************************************)
THEOREM AlertsAreSpaced == Spec => []SpacedByCooldown
<1>1. GateInv => SpacedByCooldown
  BY DEF GateInv, KeyInv, SpacedByCooldown
<1> QED BY <1>1, Invariance, PTL

(***************************************************************************)
(* A sustained condition is withheld for the cooldown and nothing else.    *)
(***************************************************************************)
THEOREM RefusalsAreForCooldown == Spec => []RefusedOnlyForCooldown
<1>1. GateInv => RefusedOnlyForCooldown
  BY DEF GateInv, KeyInv, RefusedOnlyForCooldown
<1> QED BY <1>1, Invariance, PTL

=============================================================================
