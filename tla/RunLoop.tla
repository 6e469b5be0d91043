------------------------------ MODULE RunLoop ------------------------------
(***************************************************************************)
(* The life of one probe process: Run, Tick, tickChain and the control of  *)
(* maybeCheckHashes in internal/probe/probe.go, under cmdRun in main.go.   *)
(*                                                                         *)
(* One goroutine measures the chains one after the other.  For each it     *)
(* starts one request per endpoint and waits for all of them, reports the  *)
(* samples one by one, posting alerts on the way, and may then start and   *)
(* join a second round of requests to compare hashes.  Between ticks it    *)
(* selects between the ticker, whose channel holds one tick, and the       *)
(* cancellation of its context.  What is measured is left to Probe.        *)
(***************************************************************************)
EXTENDS Integers

CONSTANTS N,   \* endpoints per chain
          C    \* chains, measured in sorted order

ASSUME LoopAssumption ==
  /\ N \in Nat \ {0, 1}    \* Validate refuses a chain with one endpoint
  /\ C \in Nat \ {0}

VARIABLES pc,         \* where the main goroutine is
          once,       \* --once: a single tick, without Run
          chain,      \* the chain being measured
          inflight,   \* endpoints whose request has not returned
          reported,   \* samples of the chain already reported
          ticker,     \* a tick waits in ticker.C
          cancelled   \* the context is done: a signal, or --duration

loopVars == <<pc, once, chain, inflight, reported, ticker, cancelled>>

Endpoint == 1 .. N

Location == {"starting", "polling", "reporting", "posting", "fetching",
             "escalating", "select", "closing", "stopped"}

-----------------------------------------------------------------------------
LoopInit ==
  /\ pc = "starting"
  /\ once \in BOOLEAN
  /\ chain = 0
  /\ inflight = {}
  /\ reported = 0
  /\ ticker = FALSE
  /\ cancelled = FALSE

\* tickChain starts one goroutine per endpoint.
PollChain(c) ==
  /\ pc' = "polling"
  /\ chain' = c
  /\ inflight' = Endpoint
  /\ reported' = 0

\* Run records run_started and makes the ticker, or --once calls Tick.
Start ==
  /\ pc = "starting"
  /\ PollChain(1)
  /\ UNCHANGED <<once, ticker, cancelled>>

\* A request returns: an answer, an error, its timeout or the cancellation.
Return(e) ==
  /\ e \in inflight
  /\ inflight' = inflight \ {e}
  /\ UNCHANGED <<pc, once, chain, reported, ticker, cancelled>>

\* wg.Wait.
JoinFirst ==
  /\ pc = "polling"
  /\ inflight # Endpoint
  /\ pc' = "reporting"
  /\ UNCHANGED <<once, chain, inflight, reported, ticker, cancelled>>

JoinPolls ==
  /\ pc = "polling"
  /\ inflight = {}
  /\ pc' = "reporting"
  /\ UNCHANGED <<once, chain, inflight, reported, ticker, cancelled>>

\* One sample is reported; an alert may be posted, at most one per sample
\* because an unavailable endpoint is not lagging.
Report(alerting) ==
  /\ pc = "reporting"
  /\ reported < N
  /\ reported' = reported + 1
  /\ pc' = IF alerting THEN "posting" ELSE "reporting"
  /\ UNCHANGED <<once, chain, inflight, ticker, cancelled>>

\* The webhook answers, or fails, or its client times out.
PostedWithoutTimeout ==
  /\ pc = "posting" /\ cancelled
  /\ pc' = "reporting"
  /\ UNCHANGED <<once, chain, inflight, reported, ticker, cancelled>>

Posted ==
  /\ pc = "posting"
  /\ pc' = "reporting"
  /\ UNCHANGED <<once, chain, inflight, reported, ticker, cancelled>>

\* The chain is done: the next one, or the end of the tick.
EndOf(last) ==
  IF ~last
  THEN PollChain(chain + 1)
  ELSE /\ pc' = IF once THEN "closing" ELSE "select"
       /\ chain' = 0
       /\ reported' = 0
       /\ UNCHANGED inflight

EndChainLate == EndOf(chain > C)
EndChain == EndOf(chain >= C)

\* maybeCheckHashes returns early.
SkipHashesEarly ==
  /\ pc = "reporting"
  /\ EndChain
  /\ UNCHANGED <<once, ticker, cancelled>>

SkipHashes ==
  /\ pc = "reporting" /\ reported = N
  /\ EndChain
  /\ UNCHANGED <<once, ticker, cancelled>>

\* fetchHashes starts one goroutine per endpoint.
FetchHashes ==
  /\ pc = "reporting" /\ reported = N
  /\ pc' = "fetching"
  /\ inflight' = Endpoint
  /\ UNCHANGED <<once, chain, reported, ticker, cancelled>>

\* wg.Wait; a divergence may be posted.
JoinHashes(alerting) ==
  /\ pc = "fetching" /\ inflight = {}
  /\ IF alerting
     THEN pc' = "escalating" /\ UNCHANGED <<chain, inflight, reported>>
     ELSE EndChain
  /\ UNCHANGED <<once, ticker, cancelled>>

Escalated ==
  /\ pc = "escalating"
  /\ EndChain
  /\ UNCHANGED <<once, ticker, cancelled>>

\* The select of Run.  When both channels are ready either is taken.
SelectTicker ==
  /\ pc = "select" /\ ticker
  /\ ticker' = FALSE
  /\ PollChain(1)
  /\ UNCHANGED <<once, cancelled>>

SelectDoneIfNoTick ==
  /\ pc = "select" /\ cancelled /\ ~ticker
  /\ pc' = "closing"
  /\ UNCHANGED <<once, chain, inflight, reported, ticker, cancelled>>

SelectDone ==
  /\ pc = "select" /\ cancelled
  /\ pc' = "closing"
  /\ UNCHANGED <<once, chain, inflight, reported, ticker, cancelled>>

\* The deferred calls of Run: the ticker stops, run_finished is recorded.
Close ==
  /\ pc = "closing"
  /\ pc' = "stopped"
  /\ ticker' = FALSE
  /\ UNCHANGED <<once, chain, inflight, reported, cancelled>>

\* Time passes: the ticker's channel has room for one tick, further ticks
\* are dropped.
TickerFires ==
  /\ ~once
  /\ pc \notin {"starting", "stopped"}
  /\ ticker' = TRUE
  /\ UNCHANGED <<pc, once, chain, inflight, reported, cancelled>>

Cancel ==
  /\ pc # "stopped"
  /\ cancelled' = TRUE
  /\ UNCHANGED <<pc, once, chain, inflight, reported, ticker>>

-----------------------------------------------------------------------------
\* The steps of the main goroutine, apart from the choices of the select.
MainStep ==
  \/ Start \/ JoinPolls \/ Posted \/ Escalated \/ Close
  \/ \E alerting \in BOOLEAN : Report(alerting) \/ JoinHashes(alerting)
  \/ SkipHashes \/ FetchHashes

LoopNext ==
  \/ MainStep
  \/ SelectTicker
  \/ SelectDone
  \/ \E e \in Endpoint : Return(e)
  \/ TickerFires
  \/ Cancel

LoopSafetySpec == LoopInit /\ [][LoopNext]_loopVars

-----------------------------------------------------------------------------
LoopTypeOK ==
  /\ pc \in Location
  /\ once \in BOOLEAN
  /\ chain \in 0 .. C
  /\ inflight \subseteq Endpoint
  /\ reported \in 0 .. N
  /\ ticker \in BOOLEAN
  /\ cancelled \in BOOLEAN

(***************************************************************************)
(* No goroutine outlives the round that started it: a request in flight    *)
(* means the main goroutine is waiting for it, so that it neither writes   *)
(* into the samples being scored nor overlaps with the next tick, and none *)
(* is left when the evidence log is closed.                                *)
(***************************************************************************)
RequestsAreJoined == inflight # {} => pc \in {"polling", "fetching"}

(***************************************************************************)
(* A run ends for a reason: the context was cancelled, or --once was given *)
(* and its tick reported every chain.                                      *)
(***************************************************************************)
StopsForAReason == pc \in {"closing", "stopped"} => once \/ cancelled

(***************************************************************************)
(* Every chain is reported in every tick: the chain moves on only when all *)
(* samples of the current one are reported, and in the configured order.   *)
(***************************************************************************)
ChainsInTurn ==
  [][chain' # chain =>
       /\ chain # 0 => reported = N
       /\ chain' = IF chain < C THEN chain + 1 ELSE 0]_loopVars

=============================================================================
