--------------------------- MODULE RunLoopProofs ---------------------------
(***************************************************************************)
(* The control of a run is safe for any number of endpoints and chains,    *)
(* whatever the scheduler, the endpoints and the ticker do.  No fairness   *)
(* is used, so the theorems hold of whatever implements LoopSafetySpec.   *)
(***************************************************************************)
EXTENDS RunLoop, TLAPS

\* A chain is being measured exactly inside a tick.
ChainOfTick ==
  chain # 0 <=> pc \in {"polling", "reporting", "posting", "fetching", "escalating"}

\* Hashes are compared only once all samples are reported.
ReportedFirst == pc \in {"fetching", "escalating"} => reported = N

\* Only Run selects.
OnlyRunSelects == pc = "select" => ~once

LoopInv ==
  /\ LoopTypeOK
  /\ RequestsAreJoined
  /\ StopsForAReason
  /\ ChainOfTick
  /\ ReportedFirst
  /\ OnlyRunSelects

\* The invariant holds when the process starts.
LEMMA LoopInitInv == LoopInit => LoopInv
<1> SUFFICES ASSUME LoopInit PROVE LoopInv
  OBVIOUS
<1>1. /\ pc \in Location /\ once \in BOOLEAN
      /\ ticker \in BOOLEAN /\ cancelled \in BOOLEAN
  BY DEF LoopInit, Location
<1>2. chain \in 0 .. C /\ inflight \subseteq Endpoint /\ reported \in 0 .. N
  BY LoopAssumption DEF LoopInit
<1>3. RequestsAreJoined /\ StopsForAReason /\ ChainOfTick /\ ReportedFirst /\ OnlyRunSelects
  BY DEF LoopInit, RequestsAreJoined, StopsForAReason, ChainOfTick, ReportedFirst,
         OnlyRunSelects
<1> QED BY <1>1, <1>2, <1>3 DEF LoopInv, LoopTypeOK

\* When the first chain is polled, nothing else is in flight.
LEMMA PollFirstKeepsInv ==
  ASSUME LoopInv, PollChain(1), UNCHANGED <<once, cancelled>>, ticker' \in BOOLEAN
  PROVE  LoopInv'
<1>1. /\ pc' = "polling" /\ chain' = 1 /\ inflight' = Endpoint /\ reported' = 0
      /\ once' = once /\ cancelled' = cancelled
  BY DEF PollChain
<1>2. LoopTypeOK'
  BY <1>1, LoopAssumption DEF LoopInv, LoopTypeOK, Location
<1> QED
  BY <1>1, <1>2
     DEF LoopInv, RequestsAreJoined, StopsForAReason, ChainOfTick, ReportedFirst,
         OnlyRunSelects

\* A chain ends with nothing in flight: the next one begins, or the tick ends.
LEMMA EndChainKeepsInv ==
  ASSUME LoopInv, chain # 0, inflight = {}, EndChain, UNCHANGED <<once, ticker, cancelled>>
  PROVE  LoopInv'
<1>1. CASE ~(chain >= C)
  <2>1. PollChain(chain + 1) /\ chain + 1 \in 1 .. C
    BY <1>1, LoopAssumption DEF EndChain, EndOf, LoopInv, LoopTypeOK
  <2> QED
    BY <2>1, LoopAssumption
       DEF PollChain, LoopInv, LoopTypeOK, Location, Endpoint, RequestsAreJoined,
           StopsForAReason, ChainOfTick, ReportedFirst, OnlyRunSelects
<1>2. CASE chain >= C
  <2>1. /\ pc' = IF once THEN "closing" ELSE "select"
        /\ chain' = 0 /\ reported' = 0 /\ inflight' = inflight
    BY <1>2 DEF EndChain, EndOf
  <2> QED
    BY <2>1, LoopAssumption
       DEF LoopInv, LoopTypeOK, Location, RequestsAreJoined,
           StopsForAReason, ChainOfTick, ReportedFirst, OnlyRunSelects
<1> QED BY <1>1, <1>2

\* Every step keeps the invariant.
LEMMA LoopNextKeepsInv == LoopInv /\ [LoopNext]_loopVars => LoopInv'
<1> SUFFICES ASSUME LoopInv, [LoopNext]_loopVars PROVE LoopInv'
  OBVIOUS
<1> USE LoopAssumption
<1>1. CASE Start
  BY <1>1, PollFirstKeepsInv DEF Start, LoopInv, LoopTypeOK
<1>2. CASE JoinPolls
  BY <1>2 DEF JoinPolls, LoopInv, LoopTypeOK, Location, RequestsAreJoined,
              StopsForAReason, ChainOfTick, ReportedFirst, OnlyRunSelects
<1>3. CASE Posted
  BY <1>3 DEF Posted, LoopInv, LoopTypeOK, Location, RequestsAreJoined,
              StopsForAReason, ChainOfTick, ReportedFirst, OnlyRunSelects
<1>4. CASE Escalated
  BY <1>4, EndChainKeepsInv DEF Escalated, LoopInv, RequestsAreJoined, ChainOfTick
<1>5. CASE Close
  BY <1>5 DEF Close, LoopInv, LoopTypeOK, Location, RequestsAreJoined,
              StopsForAReason, ChainOfTick, ReportedFirst, OnlyRunSelects
<1>6. ASSUME NEW alerting \in BOOLEAN, Report(alerting) PROVE LoopInv'
  <2>1. pc' \in {"posting", "reporting"} /\ reported' \in 0 .. N
    BY <1>6 DEF Report, LoopInv, LoopTypeOK
  <2> QED
    BY <1>6, <2>1 DEF Report, LoopInv, LoopTypeOK, Location, RequestsAreJoined,
                      StopsForAReason, ChainOfTick, ReportedFirst, OnlyRunSelects
<1>7. ASSUME NEW alerting \in BOOLEAN, JoinHashes(alerting) PROVE LoopInv'
  <2>1. CASE alerting
    BY <1>7, <2>1 DEF JoinHashes, LoopInv, LoopTypeOK, Location, RequestsAreJoined,
                      StopsForAReason, ChainOfTick, ReportedFirst, OnlyRunSelects
  <2>2. CASE ~alerting
    BY <1>7, <2>2, EndChainKeepsInv DEF JoinHashes, LoopInv, ChainOfTick
  <2> QED BY <2>1, <2>2
<1>8. CASE SkipHashes
  BY <1>8, EndChainKeepsInv DEF SkipHashes, LoopInv, RequestsAreJoined, ChainOfTick
<1>9. CASE FetchHashes
  BY <1>9 DEF FetchHashes, Endpoint, LoopInv, LoopTypeOK, Location, RequestsAreJoined,
              StopsForAReason, ChainOfTick, ReportedFirst, OnlyRunSelects
<1>10. CASE SelectTicker
  BY <1>10, PollFirstKeepsInv DEF SelectTicker
<1>11. CASE SelectDone
  BY <1>11 DEF SelectDone, LoopInv, LoopTypeOK, Location, RequestsAreJoined,
               StopsForAReason, ChainOfTick, ReportedFirst, OnlyRunSelects
<1>12. ASSUME NEW e \in Endpoint, Return(e) PROVE LoopInv'
  BY <1>12 DEF Return, LoopInv, LoopTypeOK, RequestsAreJoined,
               StopsForAReason, ChainOfTick, ReportedFirst, OnlyRunSelects
<1>13. CASE TickerFires
  BY <1>13 DEF TickerFires, LoopInv, LoopTypeOK, RequestsAreJoined,
               StopsForAReason, ChainOfTick, ReportedFirst, OnlyRunSelects
<1>14. CASE Cancel
  BY <1>14 DEF Cancel, LoopInv, LoopTypeOK, RequestsAreJoined,
               StopsForAReason, ChainOfTick, ReportedFirst, OnlyRunSelects
<1>15. CASE UNCHANGED loopVars
  BY <1>15 DEF loopVars, LoopInv, LoopTypeOK, RequestsAreJoined,
               StopsForAReason, ChainOfTick, ReportedFirst, OnlyRunSelects
<1> QED
  BY <1>1, <1>2, <1>3, <1>4, <1>5, <1>6, <1>7, <1>8, <1>9, <1>10, <1>11, <1>12,
     <1>13, <1>14, <1>15 DEF LoopNext, MainStep

\* The inductive invariant holds in every reachable state.
LEMMA LoopInvariance == LoopSafetySpec => []LoopInv
BY LoopInitInv, LoopNextKeepsInv, PTL DEF LoopSafetySpec

-----------------------------------------------------------------------------
(***************************************************************************)
(* The state of the loop is well typed.                                    *)
(***************************************************************************)
THEOREM LoopTypeCorrect == LoopSafetySpec => []LoopTypeOK
BY LoopInvariance, PTL DEF LoopInv

(***************************************************************************)
(* No request goroutine is alive when the main goroutine is past the join  *)
(* of its round: none writes into samples being scored, none runs into the *)
(* next tick, none is left when the log is closed.                         *)
(***************************************************************************)
THEOREM GoroutinesAreJoined == LoopSafetySpec => []RequestsAreJoined
BY LoopInvariance, PTL DEF LoopInv

(***************************************************************************)
(* A run that was not cancelled ends only under --once.                    *)
(***************************************************************************)
THEOREM RunsStopForAReason == LoopSafetySpec => []StopsForAReason
BY LoopInvariance, PTL DEF LoopInv

(***************************************************************************)
(* Chains are measured one after the other, each reported in full.         *)
(***************************************************************************)
THEOREM ChainsAreMeasuredInTurn == LoopSafetySpec => ChainsInTurn
<1> DEFINE InTurn ==
      chain' # chain =>
        /\ chain # 0 => reported = N
        /\ chain' = IF chain < C THEN chain + 1 ELSE 0
<1> USE LoopAssumption
<1>1. ASSUME LoopInv, [LoopNext]_loopVars PROVE [InTurn]_loopVars
  <2>1. ASSUME PollChain(1), chain = 0 PROVE InTurn
    BY <2>1 DEF PollChain
  <2>2. ASSUME EndChain, reported = N PROVE InTurn
    BY <1>1, <2>2 DEF EndChain, EndOf, PollChain, LoopInv, LoopTypeOK
  <2>3. CASE Start \/ SelectTicker
    BY <1>1, <2>1, <2>3 DEF Start, SelectTicker, LoopInv, ChainOfTick
  <2>4. CASE Escalated \/ SkipHashes \/ \E alerting \in BOOLEAN : JoinHashes(alerting)
    BY <1>1, <2>2, <2>4 DEF Escalated, SkipHashes, JoinHashes, LoopInv, ReportedFirst
  <2>5. CASE chain' = chain
    BY <2>5
  <2> QED
    BY <1>1, <2>3, <2>4, <2>5
       DEF LoopNext, MainStep, JoinPolls, Posted, Close, Report, FetchHashes, SelectDone,
           Return, TickerFires, Cancel, loopVars
<1> QED BY <1>1, LoopInvariance, PTL DEF LoopSafetySpec, ChainsInTurn

=============================================================================
