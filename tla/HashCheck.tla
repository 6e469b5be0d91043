----------------------------- MODULE HashCheck -----------------------------
(***************************************************************************)
(* The comparison of block hashes at a finalised height, for one chain     *)
(* (maybeCheckHashes and fetchHashes in internal/probe/probe.go,           *)
(* FinalisedHeight in internal/analysis/lag.go), against a chain that      *)
(* grows and reorganises while the endpoints are polled and asked.         *)
(*                                                                         *)
(* The chain is the environment: its blocks are numbered by the fork that  *)
(* made them, a reorg replaces at most MaxReorg of them and ends with a    *)
(* longer chain.  Every endpoint is honest: its view is the chain as it    *)
(* was at some moment, so whatever divergence is reported here is false.   *)
(* Some are inexact: asked for a block they may answer with another one.   *)
(***************************************************************************)
EXTENDS Integers, Sequences

CONSTANTS Endpoint,       \* endpoints of the chain
          Inexact,        \* those that may answer with another height's block
          FinalityDepth,  \* config: distance of the compared height to the head
          CheckInterval,  \* config: hash_check_interval
          MaxReorg,       \* deepest ordinary reorg
          MaxHeight,      \* longest chain (bound)
          MaxFork,        \* number of reorgs (bound)
          MaxTime         \* latest tick (bound)

ASSUME CheckAssumption ==
  /\ Inexact \subseteq Endpoint
  /\ FinalityDepth \in Nat \ {0, 1}    \* Validate
  /\ CheckInterval \in Nat
  /\ MaxReorg \in Nat
  /\ MaxReorg <= FinalityDepth
  /\ MaxHeight \in Nat
  /\ MaxFork \in Nat
  /\ MaxTime \in Nat

VARIABLES chain,          \* environment: height -> fork of its canonical block
          fork,           \* environment: reorgs so far
          view,           \* environment: endpoint -> the chain it serves
          phase,          \* where Tick is: "idle", "poll", "gate", "fetch"
          at,             \* the tick's instant
          head,           \* endpoint -> polled height, 0 when the poll failed
          pending,        \* endpoints whose request has not returned yet
          height,         \* the height under comparison
          obs,            \* endpoint -> <<its number, its fork>> of the block
                          \* answered, NoAnswer
          lastHashCheck,  \* Probe.lastHashCheck of the chain, 0 for the zero time
          lastChecked,    \* Probe.lastChecked of the chain
          checks,         \* history: the comparisons made, in order
          event           \* the divergence event of this tick, NoEvent

chainVars == <<chain, fork, view>>
gateVars == <<lastHashCheck, lastChecked>>
vars == <<chainVars, phase, at, head, pending, height, obs, gateVars, checks, event>>

NoAnswer == <<0, 0>>
NoEvent == {}

-----------------------------------------------------------------------------
(* The environment.                                                        *)

\* The d topmost blocks are replaced by d + g others, of a new fork if any
\* was replaced.
Extend(d, g) ==
  /\ d <= Len(chain) /\ Len(chain) + g <= MaxHeight
  /\ d > 0 => fork < MaxFork
  /\ fork' = IF d > 0 THEN fork + 1 ELSE fork
  /\ chain' = [h \in 1 .. Len(chain) + g |->
                 IF h <= Len(chain) - d THEN chain[h] ELSE fork']
  /\ UNCHANGED <<view, phase, at, head, pending, height, obs, gateVars, checks, event>>

\* An endpoint catches up with the chain; until then it is stuck.
Sync(e) ==
  /\ view[e] # chain
  /\ view' = [view EXCEPT ![e] = chain]
  /\ UNCHANGED <<chain, fork, phase, at, head, pending, height, obs, gateVars, checks, event>>

-----------------------------------------------------------------------------
(* The tick.                                                               *)

BeginTick(t) ==
  /\ phase = "idle"
  /\ t > at
  /\ at' = t
  /\ phase' = "poll"
  /\ pending' = Endpoint
  /\ head' = [e \in Endpoint |-> 0]
  /\ obs' = [e \in Endpoint |-> NoAnswer]
  /\ event' = NoEvent
  /\ UNCHANGED <<chainVars, height, gateVars, checks>>

\* A request returns its result or fails, at the latest when it times out;
\* the class of the failure is of no consequence here.
Call(result, failed) == {result, failed}

\* A failed poll leaves the height of its sample 0.
BlockNumber(e) == Call(Len(view[e]), 0)

\* The block of view v at height k, and null for one it has not reached.
BlockAt(v, k) == IF k \in 1 .. Len(v) THEN <<k, v[k]>> ELSE NoAnswer

\* The number of the block in the answer is parsed, but not compared with the
\* one that was asked for.
BlockByNumber(e, h) ==
  UNION {Call(BlockAt(view[e], k), NoAnswer) :
           k \in {h} \cup IF e \in Inexact THEN 1 .. MaxHeight ELSE {}}

Poll(e) ==
  /\ phase = "poll" /\ e \in pending
  /\ \E h \in BlockNumber(e) : head' = [head EXCEPT ![e] = h]
  /\ pending' = pending \ {e}
  /\ phase' = IF pending' = {} THEN "gate" ELSE "poll"
  /\ UNCHANGED <<chainVars, at, height, obs, gateVars, checks, event>>

\* The highest head of a healthy sample.
IsBest(b) == /\ \E e \in Endpoint : head[e] = b
             /\ \A e \in Endpoint : head[e] <= b

\* FinalisedHeight: there is a height at the finality depth.
FinalisedAtDepth(b) == b >= FinalityDepth
Finalised(b) == b > FinalityDepth

TooSoon == lastHashCheck # 0 /\ at - lastHashCheck < CheckInterval

\* maybeCheckHashes returns early: no finalised height, or a comparison too
\* recent, or one just made at this height.
SkipCheck ==
  /\ phase = "gate"
  /\ \E b \in 0 .. MaxHeight :
       /\ IsBest(b)
       /\ ~Finalised(b) \/ TooSoon \/ lastChecked = b - FinalityDepth
  /\ phase' = "idle"
  /\ UNCHANGED <<chainVars, at, head, pending, height, obs, gateVars, checks, event>>

\* The interval and the height are consumed before anything is fetched.
BeginCheckAt(depth) ==
  /\ phase = "gate"
  /\ \E b \in 0 .. MaxHeight :
       /\ IsBest(b) /\ Finalised(b)
       /\ ~TooSoon
       /\ lastChecked # b - depth
       /\ height' = b - depth
  /\ lastHashCheck' = at
  /\ lastChecked' = height'
  /\ checks' = Append(checks, [at |-> at, height |-> height'])
  /\ phase' = "fetch"
  /\ pending' = Endpoint
  /\ UNCHANGED <<chainVars, at, head, obs, event>>

BeginCheckAtHead == BeginCheckAt(0)

BeginCheckAnytime ==
  /\ phase = "gate"
  /\ \E b \in 0 .. MaxHeight :
       /\ IsBest(b) /\ Finalised(b)
       /\ lastChecked # b - FinalityDepth
       /\ height' = b - FinalityDepth
  /\ lastHashCheck' = at
  /\ lastChecked' = height'
  /\ checks' = Append(checks, [at |-> at, height |-> height'])
  /\ phase' = "fetch"
  /\ pending' = Endpoint
  /\ UNCHANGED <<chainVars, at, head, obs, event>>

BeginCheck == BeginCheckAt(FinalityDepth)

Fetch(e) ==
  /\ phase = "fetch" /\ e \in pending
  /\ \E b \in BlockByNumber(e, height) : obs' = [obs EXCEPT ![e] = b]
  /\ pending' = pending \ {e}
  /\ UNCHANGED <<chainVars, phase, at, head, height, gateVars, checks, event>>

Answered == {e \in Endpoint : obs[e] # NoAnswer}

\* DetectDivergence, as module Divergence shows it: an event exactly when two
\* answers differ, with the answers clustered by hash.
Disagreement ==
  IF \E e, f \in Answered : obs[e] # obs[f]
  THEN {{e \in Answered : obs[e] = obs[f]} : f \in Answered}
  ELSE NoEvent

Detect ==
  /\ phase = "fetch" /\ pending = {}
  /\ event' = Disagreement
  /\ phase' = "idle"
  /\ UNCHANGED <<chainVars, at, head, pending, height, obs, gateVars, checks>>

-----------------------------------------------------------------------------
Init ==
  /\ chain \in {[h \in 1 .. n |-> 0] : n \in 0 .. MaxHeight}
  /\ fork = 0
  /\ view = [e \in Endpoint |-> chain]
  /\ phase = "idle"
  /\ at = 0
  /\ head = [e \in Endpoint |-> 0]
  /\ pending = {}
  /\ height = 0
  /\ obs = [e \in Endpoint |-> NoAnswer]
  /\ lastHashCheck = 0
  /\ lastChecked = 0
  /\ checks = <<>>
  /\ event = NoEvent

Next ==
  \/ \E d \in 0 .. MaxReorg, g \in 1 .. MaxHeight : Extend(d, g)
  \/ \E e \in Endpoint : Sync(e)
  \/ \E t \in 1 .. MaxTime : BeginTick(t)
  \/ \E e \in Endpoint : Poll(e)
  \/ SkipCheck
  \/ BeginCheck
  \/ \E e \in Endpoint : Fetch(e)
  \/ Detect

Spec == Init /\ [][Next]_vars

-----------------------------------------------------------------------------
Block == 0 .. MaxFork

TypeOK ==
  /\ chain \in Seq(Block) /\ Len(chain) <= MaxHeight
  /\ fork \in Block
  /\ view \in [Endpoint -> Seq(Block)]
  /\ \A e \in Endpoint : Len(view[e]) <= MaxHeight
  /\ phase \in {"idle", "poll", "gate", "fetch"}
  /\ at \in 0 .. MaxTime
  /\ head \in [Endpoint -> 0 .. MaxHeight]
  /\ pending \subseteq Endpoint
  /\ height \in 0 .. MaxHeight
  /\ obs \in [Endpoint -> ((1 .. MaxHeight) \X Block) \cup {NoAnswer}]
  /\ lastHashCheck \in 0 .. MaxTime
  /\ lastChecked \in 0 .. MaxHeight
  /\ checks \in Seq([at : 1 .. MaxTime, height : 1 .. MaxHeight])
  /\ event \subseteq SUBSET Endpoint

(***************************************************************************)
(* Hash comparisons, which are paid requests, are at least                 *)
(* hash_check_interval apart, however many ticks fall in between, also     *)
(* when a comparison got no answer at all.                                 *)
(***************************************************************************)
ChecksAreSpaced ==
  \A i, j \in DOMAIN checks :
    i < j => checks[j].at - checks[i].at >= CheckInterval

(***************************************************************************)
(* An ordinary reorg is never reported as a divergence between endpoints   *)
(* that keep up: an event means that some endpoint that answered had been  *)
(* polled more than FinalityDepth - MaxReorg blocks behind another one in  *)
(* the same tick, where a poll that failed counts as one of no block at    *)
(* all, whatever the chain did between polls and answers, or that the      *)
(* number in some answer, which is kept as evidence, is not the height     *)
(* that was compared.                                                      *)
(***************************************************************************)
NoFalseDivergence ==
  event # NoEvent =>
    \E e \in Answered :
      \/ obs[e][1] # height
      \/ \E f \in Endpoint : head[f] - head[e] > FinalityDepth - MaxReorg

(***************************************************************************)
(* The endpoint that led the tick answers with a block that stays in the   *)
(* chain for good: it is the endpoints behind it that a divergence event   *)
(* tells from the chain, at any time after the comparison, if it is not    *)
(* itself inexact.                                                         *)
(***************************************************************************)
LeaderIsCanonical ==
  \A e \in Answered \ Inexact : IsBest(head[e]) => obs[e] = <<height, chain[height]>>

-----------------------------------------------------------------------------
(***************************************************************************)
(* probe.go:178-179, hashes are compared "never twice at the same height". *)
(* Only the last compared height is remembered: when the leading endpoint  *)
(* fails one poll and recovers, its height is compared again.              *)
(***************************************************************************)
NeverTwiceAtAHeight ==
  \A i, j \in DOMAIN checks : i # j => checks[i].height # checks[j].height

=============================================================================
