-------------------------- MODULE HashCheckProofs --------------------------
(***************************************************************************)
(* Hash comparisons are spaced and never accuse an endpoint that keeps up, *)
(* for any number of endpoints, any finality depth, any reorgs that are    *)
(* not deeper than it and any interleaving of them with the tick.          *)
(***************************************************************************)
EXTENDS HashCheck, SequenceTheorems, TLAPS

\* An honest view is shorter than the chain and differs from it only in its
\* topmost MaxReorg blocks.
Agrees(v) ==
  /\ Len(v) <= Len(chain)
  /\ \A h \in 1 .. Len(v) : h + MaxReorg <= Len(v) => v[h] = chain[h]

ViewsAgree == \A e \in Endpoint : Agrees(view[e])

\* A polled head is still covered by the endpoint's view.
HeadsServed == \A e \in Endpoint : head[e] <= Len(view[e])

\* Answers are there only once a height was chosen for them.
Compared == phase = "fetch" \/ \E e \in Endpoint : obs[e] # NoAnswer

\* The compared height is FinalityDepth below the best polled head.
HeightFromBest ==
  Compared =>
    /\ height >= 1
    /\ \E e \in Endpoint : head[e] = height + FinalityDepth
    /\ \A e \in Endpoint : head[e] <= height + FinalityDepth

\* An endpoint polled MaxReorg blocks above the height that answers with a
\* block of that number answers with the block of the chain.
AnswersFinal ==
  \A e \in Endpoint :
    obs[e] # NoAnswer /\ obs[e][1] = height /\ height + MaxReorg <= head[e]
      => obs[e] = <<height, chain[height]>>

\* Only an inexact endpoint answers with a block of another number.
ExactAnswers ==
  \A e \in Endpoint \ Inexact : obs[e] # NoAnswer => obs[e][1] = height

\* An event is one of the answers that are still there.
EventShown ==
  event # NoEvent =>
    phase = "idle" /\ \E e, f \in Answered : obs[e] # obs[f]

\* Answers are gone from the beginning of a tick to its comparison.
NotYetAsked ==
  phase \in {"poll", "gate"} => \A e \in Endpoint : obs[e] = NoAnswer

\* The last comparison is the one the code remembers.
ChecksRemembered ==
  /\ phase # "idle" => at >= 1
  /\ lastHashCheck <= at
  /\ checks # <<>> => lastHashCheck # 0
  /\ \A i \in 1 .. Len(checks) : checks[i].at <= lastHashCheck

IInv ==
  /\ TypeOK
  /\ ViewsAgree
  /\ HeadsServed
  /\ HeightFromBest
  /\ AnswersFinal
  /\ ExactAnswers
  /\ EventShown
  /\ NotYetAsked
  /\ ChecksRemembered
  /\ ChecksAreSpaced

-----------------------------------------------------------------------------
\* The invariant holds before the first tick, with every view the chain.
LEMMA InitInv == Init => IInv
<1> SUFFICES ASSUME Init PROVE IInv
  OBVIOUS
<1> USE CheckAssumption DEF Init
<1>1. PICK n \in 0 .. MaxHeight : chain = [h \in 1 .. n |-> 0]
  OBVIOUS
<1>2. chain \in Seq(Block) /\ Len(chain) = n
  BY <1>1, SeqDef DEF Block
<1>3. TypeOK
  BY <1>2 DEF TypeOK, NoEvent, Block, NoAnswer
<1>4. ViewsAgree /\ HeadsServed
  BY <1>2 DEF ViewsAgree, Agrees, HeadsServed
<1>5. HeightFromBest /\ AnswersFinal /\ ExactAnswers /\ EventShown /\ NotYetAsked
  BY DEF HeightFromBest, Compared, AnswersFinal, ExactAnswers, EventShown, NotYetAsked, NoEvent
<1>6. ChecksRemembered /\ ChecksAreSpaced
  BY DEF ChecksRemembered, ChecksAreSpaced
<1> QED BY <1>3, <1>4, <1>5, <1>6 DEF IInv

(***************************************************************************)
(* What a reorg leaves alone: the chain at every height that is MaxReorg   *)
(* or more below its end.                                                  *)
(***************************************************************************)
LEMMA ExtendKeepsDeepBlocks ==
  ASSUME TypeOK, NEW d \in 0 .. MaxReorg, NEW g \in 1 .. MaxHeight, Extend(d, g)
  PROVE  /\ chain' \in Seq(Block) /\ Len(chain') = Len(chain) + g
         /\ Len(chain') <= MaxHeight /\ fork' \in Block
         /\ \A h \in 1 .. Len(chain) :
              h + MaxReorg <= Len(chain) => chain'[h] = chain[h]
<1> USE CheckAssumption
<1> DEFINE n == Len(chain) + g
<1>1. n \in Nat /\ n <= MaxHeight /\ fork' \in Block
  BY DEF TypeOK, Extend, Block
<1>2. \A h \in 1 .. Len(chain) : chain[h] \in Block
  BY ElementOfSeq DEF TypeOK
<1>3. chain' = [h \in 1 .. n |-> IF h <= Len(chain) - d THEN chain[h] ELSE fork']
  BY DEF Extend
<1>4. chain' \in [1 .. n -> Block]
  <2> SUFFICES ASSUME NEW h \in 1 .. n
               PROVE  (IF h <= Len(chain) - d THEN chain[h] ELSE fork') \in Block
    BY <1>3
  <2>1. CASE h <= Len(chain) - d
    BY <1>1, <1>2, <2>1 DEF TypeOK
  <2>2. CASE ~(h <= Len(chain) - d)
    BY <1>1, <2>2
  <2> QED BY <2>1, <2>2
<1>5. chain' \in Seq(Block) /\ Len(chain') = n
  BY <1>1, <1>4, SeqDef
<1>6. ASSUME NEW h \in 1 .. Len(chain), h + MaxReorg <= Len(chain)
      PROVE  chain'[h] = chain[h]
  <2>1. h \in 1 .. n /\ h <= Len(chain) - d
    BY <1>6 DEF TypeOK
  <2> QED BY <1>3, <2>1
<1> QED BY <1>1, <1>5, <1>6

\* The chain moves on: views and answers agreed with it where it is final.
LEMMA ExtendKeepsInv ==
  ASSUME IInv, NEW d \in 0 .. MaxReorg, NEW g \in 1 .. MaxHeight, Extend(d, g)
  PROVE  IInv'
<1> USE CheckAssumption
<1>1. /\ chain' \in Seq(Block) /\ Len(chain') = Len(chain) + g
      /\ Len(chain') <= MaxHeight /\ fork' \in Block
      /\ \A h \in 1 .. Len(chain) :
           h + MaxReorg <= Len(chain) => chain'[h] = chain[h]
  BY ExtendKeepsDeepBlocks DEF IInv
<1>2. UNCHANGED <<view, phase, at, head, pending, height, obs, gateVars, checks, event>>
  BY DEF Extend
<1>3. TypeOK'
  BY <1>1, <1>2 DEF IInv, TypeOK, gateVars
<1>4. ViewsAgree'
  <2> SUFFICES ASSUME NEW e \in Endpoint PROVE Agrees(view[e])'
    BY DEF ViewsAgree
  <2>1. Agrees(view[e]) /\ Len(view[e]) \in Nat /\ Len(chain) \in Nat
    BY DEF IInv, ViewsAgree, TypeOK
  <2>2. Len(view'[e]) <= Len(chain')
    BY <1>1, <1>2, <2>1 DEF Agrees
  <2>3. ASSUME NEW h \in 1 .. Len(view[e]), h + MaxReorg <= Len(view[e])
        PROVE  view[e][h] = chain'[h]
    <3>1. view[e][h] = chain[h] /\ Len(view[e]) <= Len(chain)
      BY <2>1, <2>3 DEF Agrees
    <3>2. h \in 1 .. Len(chain) /\ h + MaxReorg <= Len(chain)
      BY <2>1, <2>3, <3>1
    <3> QED BY <1>1, <3>1, <3>2
  <2> QED BY <1>2, <2>2, <2>3 DEF Agrees
<1>a. ExactAnswers'
  BY <1>2 DEF IInv, ExactAnswers
<1>5. AnswersFinal'
  <2> SUFFICES ASSUME NEW e \in Endpoint, obs[e] # NoAnswer, obs[e][1] = height,
                      height + MaxReorg <= head[e]
               PROVE  obs[e] = <<height, chain'[height]>>
    BY <1>2 DEF AnswersFinal
  <2>1. obs[e] = <<height, chain[height]>> /\ height >= 1
    BY DEF IInv, AnswersFinal, HeightFromBest, Compared
  <2>2. head[e] <= Len(chain) /\ height \in 1 .. Len(chain) /\ height + MaxReorg <= Len(chain)
    BY <2>1 DEF IInv, HeadsServed, ViewsAgree, Agrees, TypeOK
  <2> QED BY <1>1, <2>1, <2>2
<1>6. HeadsServed' /\ HeightFromBest'
  BY <1>2 DEF IInv, HeadsServed, HeightFromBest, Compared
<1>7. EventShown' /\ NotYetAsked'
  BY <1>2 DEF IInv, EventShown, NotYetAsked, Answered
<1>8. ChecksRemembered' /\ ChecksAreSpaced'
  BY <1>2 DEF IInv, ChecksRemembered, ChecksAreSpaced, gateVars
<1> QED BY <1>3, <1>4, <1>5, <1>6, <1>7, <1>8, <1>a DEF IInv

\* A view that catches up is longer than before, and is the chain.
LEMMA SyncKeepsInv == ASSUME IInv, NEW n \in Endpoint, Sync(n) PROVE IInv'
<1> USE CheckAssumption
<1>1. /\ view' = [view EXCEPT ![n] = chain]
      /\ UNCHANGED <<chain, fork, phase, at, head, pending, height, obs, gateVars, checks, event>>
  BY DEF Sync
<1>2. TypeOK'
  BY <1>1 DEF IInv, TypeOK, gateVars
<1>3. ViewsAgree' /\ HeadsServed'
  <2> SUFFICES ASSUME NEW e \in Endpoint PROVE Agrees(view[e])' /\ head[e] <= Len(view'[e])
    BY <1>1 DEF ViewsAgree, HeadsServed
  <2>1. Agrees(view[e]) /\ head[e] <= Len(view[e]) /\ Len(view[e]) \in Nat
        /\ Len(chain) \in Nat /\ head[e] \in Nat
    BY DEF IInv, ViewsAgree, HeadsServed, TypeOK
  <2>2. CASE e = n
    BY <1>1, <2>1, <2>2 DEF Agrees, IInv, TypeOK
  <2>3. CASE e # n
    BY <1>1, <2>1, <2>3 DEF Agrees, IInv, TypeOK
  <2> QED BY <2>2, <2>3
<1>4. HeightFromBest' /\ AnswersFinal' /\ ExactAnswers'
  BY <1>1 DEF IInv, HeightFromBest, Compared, AnswersFinal, ExactAnswers
<1>5. EventShown' /\ NotYetAsked'
  BY <1>1 DEF IInv, EventShown, NotYetAsked, Answered
<1>6. ChecksRemembered' /\ ChecksAreSpaced'
  BY <1>1 DEF IInv, ChecksRemembered, ChecksAreSpaced, gateVars
<1> QED BY <1>2, <1>3, <1>4, <1>5, <1>6 DEF IInv

\* A new tick forgets heads, answers and event.
LEMMA BeginTickKeepsInv ==
  ASSUME IInv, NEW t \in 1 .. MaxTime, BeginTick(t) PROVE IInv'
<1> USE CheckAssumption DEF BeginTick
<1>1. TypeOK'
  BY DEF IInv, TypeOK, chainVars, gateVars, NoEvent
<1>2. ViewsAgree' /\ HeadsServed'
  <2>1. ViewsAgree'
    BY DEF IInv, ViewsAgree, Agrees, chainVars
  <2>2. \A e \in Endpoint : Len(view[e]) \in Nat
    BY DEF IInv, TypeOK
  <2> QED BY <2>1, <2>2 DEF HeadsServed, chainVars
<1>3. HeightFromBest' /\ AnswersFinal' /\ ExactAnswers' /\ EventShown' /\ NotYetAsked'
  BY DEF HeightFromBest, Compared, AnswersFinal, ExactAnswers, EventShown, NotYetAsked, NoEvent
<1>4. ChecksRemembered' /\ ChecksAreSpaced'
  BY DEF IInv, TypeOK, ChecksRemembered, ChecksAreSpaced, gateVars
<1> QED BY <1>1, <1>2, <1>3, <1>4 DEF IInv

\* A poll returns the length of the view, or nothing.
LEMMA PollKeepsInv == ASSUME IInv, NEW n \in Endpoint, Poll(n) PROVE IInv'
<1> USE CheckAssumption
<1>1. /\ phase = "poll" /\ phase' \in {"poll", "gate"}
      /\ pending' \subseteq pending
      /\ UNCHANGED <<chainVars, at, height, obs, gateVars, checks, event>>
  BY DEF Poll
<1>a. PICK h \in BlockNumber(n) : head' = [head EXCEPT ![n] = h]
  BY DEF Poll
<1>b. h \in 0 .. MaxHeight /\ h <= Len(view[n])
  BY DEF BlockNumber, Call, IInv, TypeOK
<1>2. TypeOK'
  <2>1. head' \in [Endpoint -> 0 .. MaxHeight]
    BY <1>a, <1>b DEF IInv, TypeOK
  <2> QED BY <1>1, <2>1 DEF IInv, TypeOK, chainVars, gateVars
<1>3. ViewsAgree' /\ HeadsServed'
  <2>1. ViewsAgree'
    BY <1>1 DEF IInv, ViewsAgree, Agrees, chainVars
  <2>2. ASSUME NEW e \in Endpoint PROVE head'[e] <= Len(view[e])
    <3>1. head[e] <= Len(view[e])
      BY DEF IInv, HeadsServed
    <3>2. head'[e] = head[e] \/ (e = n /\ head'[e] = h)
      BY <1>a DEF IInv, TypeOK
    <3> QED BY <1>b, <3>1, <3>2
  <2> QED BY <1>1, <2>1, <2>2 DEF HeadsServed, chainVars
<1>4. NotYetAsked'
  BY <1>1 DEF IInv, NotYetAsked
<1>5. HeightFromBest' /\ AnswersFinal' /\ ExactAnswers'
  BY <1>1, <1>4 DEF HeightFromBest, Compared, AnswersFinal, ExactAnswers, NotYetAsked
<1>6. EventShown'
  BY <1>1 DEF IInv, EventShown
<1>7. ChecksRemembered' /\ ChecksAreSpaced'
  BY <1>1 DEF IInv, ChecksRemembered, ChecksAreSpaced, gateVars
<1> QED BY <1>2, <1>3, <1>4, <1>5, <1>6, <1>7 DEF IInv

\* An early return ends the tick without answers.
LEMMA SkipCheckKeepsInv == ASSUME IInv, SkipCheck PROVE IInv'
<1> USE CheckAssumption
<1>1. /\ phase = "gate" /\ phase' = "idle"
      /\ UNCHANGED <<chainVars, at, head, pending, height, obs, gateVars, checks, event>>
  BY DEF SkipCheck
<1>2. TypeOK' /\ ViewsAgree' /\ HeadsServed'
  BY <1>1 DEF IInv, TypeOK, ViewsAgree, HeadsServed, Agrees, chainVars, gateVars
<1>3. HeightFromBest' /\ AnswersFinal' /\ ExactAnswers' /\ EventShown' /\ NotYetAsked'
  BY <1>1 DEF IInv, HeightFromBest, Compared, AnswersFinal, ExactAnswers, EventShown, NotYetAsked
<1>4. ChecksRemembered' /\ ChecksAreSpaced'
  BY <1>1 DEF IInv, ChecksRemembered, ChecksAreSpaced, gateVars
<1> QED BY <1>2, <1>3, <1>4 DEF IInv

(***************************************************************************)
(* A comparison begins at a height FinalityDepth below the best head, and  *)
(* CheckInterval or more after the one remembered, which is the last one.  *)
(***************************************************************************)
LEMMA BeginCheckKeepsInv == ASSUME IInv, BeginCheck PROVE IInv'
<1> USE CheckAssumption
<1>1. PICK b \in 0 .. MaxHeight :
        IsBest(b) /\ Finalised(b) /\ ~TooSoon /\ height' = b - FinalityDepth
  BY DEF BeginCheck, BeginCheckAt
<1>2. /\ phase = "gate" /\ phase' = "fetch"
      /\ lastHashCheck' = at /\ lastChecked' = height'
      /\ checks' = Append(checks, [at |-> at, height |-> height'])
      /\ pending' = Endpoint
      /\ UNCHANGED <<chainVars, at, head, obs, event>>
  BY DEF BeginCheck, BeginCheckAt
<1>3. height' \in 1 .. MaxHeight /\ at \in 1 .. MaxTime
  BY <1>1, <1>2 DEF Finalised, IInv, TypeOK, ChecksRemembered
<1>4. [at |-> at, height |-> height'] \in [at : 1 .. MaxTime, height : 1 .. MaxHeight]
  BY <1>3
<1>5. TypeOK'
  BY <1>2, <1>3, <1>4 DEF IInv, TypeOK, chainVars
<1>6. ViewsAgree' /\ HeadsServed'
  BY <1>2 DEF IInv, ViewsAgree, HeadsServed, Agrees, chainVars
<1>7. HeightFromBest'
  BY <1>1, <1>2, <1>3 DEF IInv, TypeOK, HeightFromBest, IsBest
<1>8. AnswersFinal' /\ ExactAnswers' /\ EventShown' /\ NotYetAsked'
  BY <1>2 DEF IInv, AnswersFinal, ExactAnswers, EventShown, NotYetAsked
<1>9. /\ Len(checks') = Len(checks) + 1 /\ Len(checks) \in Nat
      /\ \A i \in 1 .. Len(checks) : checks'[i] = checks[i] /\ checks[i].at \in Nat
      /\ checks'[Len(checks) + 1].at = at
      /\ DOMAIN checks' = 1 .. Len(checks')
  <2> DEFINE R == [at : 1 .. MaxTime, height : 1 .. MaxHeight]
             r == [at |-> at, height |-> height']
  <2>1. r \in R /\ r.at = at /\ \A x \in R : x.at \in Nat
    BY <1>4
  <2>2. checks \in Seq(R) /\ checks' = Append(checks, r)
    BY <1>2 DEF IInv, TypeOK
  <2> HIDE DEF R, r
  <2>3. \A i \in 1 .. Len(checks) : checks[i] \in R
    BY <2>2, ElementOfSeq
  <2>4. /\ Len(checks') = Len(checks) + 1 /\ Len(checks) \in Nat
        /\ \A i \in 1 .. Len(checks) : checks'[i] = checks[i]
        /\ checks'[Len(checks) + 1] = r
        /\ DOMAIN checks' = 1 .. Len(checks')
    BY <2>1, <2>2
  <2> QED BY <2>1, <2>3, <2>4
<1>10. ChecksRemembered'
  BY <1>2, <1>3, <1>9 DEF IInv, TypeOK, ChecksRemembered
<1>11. ChecksAreSpaced'
  <2> SUFFICES ASSUME NEW i \in 1 .. Len(checks'), NEW j \in 1 .. Len(checks'), i < j
               PROVE  checks'[j].at - checks'[i].at >= CheckInterval
    BY <1>9 DEF ChecksAreSpaced
  <2>1. CASE j \in 1 .. Len(checks)
    <3>1. i \in DOMAIN checks /\ j \in DOMAIN checks
      BY <1>9, <2>1, LenProperties DEF IInv, TypeOK
    <3>2. checks[j].at - checks[i].at >= CheckInterval
      BY <3>1 DEF IInv, ChecksAreSpaced
    <3> QED BY <1>9, <2>1, <3>2
  <2>2. CASE j = Len(checks) + 1
    <3>1. i \in 1 .. Len(checks) /\ checks # <<>>
      BY <1>9, <2>2
    <3>2. lastHashCheck # 0 /\ checks[i].at <= lastHashCheck
      BY <3>1 DEF IInv, ChecksRemembered
    <3>3. at - lastHashCheck >= CheckInterval
      BY <1>1, <3>2 DEF TooSoon, IInv, TypeOK
    <3> QED BY <1>9, <2>2, <3>1, <3>2, <3>3 DEF IInv, TypeOK
  <2> QED BY <1>9, <2>1, <2>2
<1> QED BY <1>5, <1>6, <1>7, <1>8, <1>10, <1>11 DEF IInv

(***************************************************************************)
(* An answer comes from a view that agrees with the chain at the height    *)
(* when the view goes MaxReorg blocks beyond it.                           *)
(***************************************************************************)
LEMMA FetchKeepsInv == ASSUME IInv, NEW n \in Endpoint, Fetch(n) PROVE IInv'
<1> USE CheckAssumption
<1>1. /\ phase = "fetch" /\ pending' \subseteq pending
      /\ UNCHANGED <<chainVars, phase, at, head, height, gateVars, checks, event>>
  BY DEF Fetch
<1>2. CASE obs' = [obs EXCEPT ![n] = NoAnswer]
  BY <1>1, <1>2
     DEF IInv, TypeOK, ViewsAgree, Agrees, HeadsServed, HeightFromBest, Compared,
         AnswersFinal, ExactAnswers, EventShown, NotYetAsked, Answered, ChecksRemembered,
         ChecksAreSpaced, chainVars, gateVars
<1>3. ASSUME NEW k \in 1 .. Len(view[n]), k = height \/ n \in Inexact,
             obs' = [obs EXCEPT ![n] = <<k, view[n][k]>>]
      PROVE  IInv'
  <2>1. height \in 1 .. MaxHeight /\ view[n] \in Seq(Block) /\ k \in 1 .. MaxHeight
    BY <1>1, <1>3 DEF IInv, TypeOK, HeightFromBest, Compared
  <2>2. view[n][k] \in Block
    BY <1>3, <2>1, ElementOfSeq
  <2>3. TypeOK'
    <3>1. <<k, view[n][k]>> \in (1 .. MaxHeight) \X Block
      BY <2>1, <2>2
    <3>2. obs' \in [Endpoint -> ((1 .. MaxHeight) \X Block) \cup {NoAnswer}]
      BY <1>3, <3>1 DEF IInv, TypeOK
    <3> QED BY <1>1, <3>2 DEF IInv, TypeOK, chainVars, gateVars
  <2>4. ViewsAgree' /\ HeadsServed'
    BY <1>1 DEF IInv, ViewsAgree, HeadsServed, Agrees, chainVars
  <2>5. HeightFromBest' /\ NotYetAsked'
    BY <1>1 DEF IInv, HeightFromBest, Compared, NotYetAsked
  <2>a. \A e \in Endpoint : obs'[e] = IF e = n THEN <<k, view[n][k]>> ELSE obs[e]
    BY <1>3 DEF IInv, TypeOK
  <2>b. ExactAnswers'
    BY <1>1, <1>3, <2>a DEF IInv, ExactAnswers
  <2>6. AnswersFinal'
    <3> SUFFICES ASSUME NEW e \in Endpoint, obs'[e] # NoAnswer, obs'[e][1] = height,
                        height + MaxReorg <= head[e]
                 PROVE  obs'[e] = <<height, chain[height]>>
      BY <1>1 DEF AnswersFinal, chainVars
    <3>1. CASE e = n
      <4>1. head[n] <= Len(view[n]) /\ Agrees(view[n])
        BY DEF IInv, HeadsServed, ViewsAgree
      <4>2. k = height /\ k + MaxReorg <= Len(view[n])
        BY <2>1, <2>a, <3>1, <4>1 DEF IInv, TypeOK
      <4>3. view[n][k] = chain[k]
        BY <1>3, <4>1, <4>2 DEF Agrees
      <4> QED BY <2>a, <3>1, <4>2, <4>3
    <3>2. CASE e # n
      BY <2>a, <3>2 DEF IInv, AnswersFinal
    <3> QED BY <3>1, <3>2
  <2>7. EventShown'
    BY <1>1 DEF IInv, EventShown
  <2>8. ChecksRemembered' /\ ChecksAreSpaced'
    BY <1>1 DEF IInv, ChecksRemembered, ChecksAreSpaced, gateVars
  <2> QED BY <2>3, <2>4, <2>5, <2>6, <2>7, <2>8, <2>b DEF IInv
<1>4. PICK b \in BlockByNumber(n, height) : obs' = [obs EXCEPT ![n] = b]
  BY DEF Fetch
<1>5. PICK k \in {height} \cup IF n \in Inexact THEN 1 .. MaxHeight ELSE {} :
        b \in {BlockAt(view[n], k), NoAnswer}
  BY <1>4 DEF BlockByNumber, Call
<1>6. CASE k \in 1 .. Len(view[n]) /\ b = BlockAt(view[n], k)
  BY <1>3, <1>4, <1>5, <1>6 DEF BlockAt
<1>7. CASE ~(k \in 1 .. Len(view[n]) /\ b = BlockAt(view[n], k))
  BY <1>2, <1>4, <1>5, <1>7 DEF BlockAt
<1> QED BY <1>6, <1>7

\* The event is an event only if two answers differ.
LEMMA DetectKeepsInv == ASSUME IInv, Detect PROVE IInv'
<1> USE CheckAssumption
<1>1. /\ phase = "fetch" /\ phase' = "idle" /\ event' = Disagreement
      /\ UNCHANGED <<chainVars, at, head, pending, height, obs, gateVars, checks>>
  BY DEF Detect
<1>2. event' \subseteq SUBSET Endpoint
  BY <1>1 DEF Disagreement, Answered, NoEvent
<1>3. TypeOK'
  BY <1>1, <1>2 DEF IInv, TypeOK, chainVars, gateVars
<1>4. ViewsAgree' /\ HeadsServed' /\ HeightFromBest' /\ AnswersFinal' /\ ExactAnswers' /\ NotYetAsked'
  BY <1>1 DEF IInv, ViewsAgree, HeadsServed, Agrees, HeightFromBest, Compared,
              AnswersFinal, ExactAnswers, NotYetAsked, chainVars
<1>5. EventShown'
  BY <1>1 DEF EventShown, Disagreement, Answered
<1>6. ChecksRemembered' /\ ChecksAreSpaced'
  BY <1>1 DEF IInv, ChecksRemembered, ChecksAreSpaced, gateVars
<1> QED BY <1>3, <1>4, <1>5, <1>6 DEF IInv

\* The inductive invariant holds in every reachable state.
LEMMA Invariance == Spec => []IInv
<1>1. IInv /\ [Next]_vars => IInv'
  <2> SUFFICES ASSUME IInv, [Next]_vars PROVE IInv'
    OBVIOUS
  <2>1. CASE Next
    BY <2>1, ExtendKeepsInv, SyncKeepsInv, BeginTickKeepsInv, PollKeepsInv,
       SkipCheckKeepsInv, BeginCheckKeepsInv, FetchKeepsInv, DetectKeepsInv DEF Next
  <2>2. CASE UNCHANGED vars
    BY <2>2
       DEF vars, chainVars, gateVars, IInv, TypeOK, ViewsAgree, Agrees, HeadsServed,
           HeightFromBest, Compared, AnswersFinal, ExactAnswers, EventShown, NotYetAsked, Answered,
           ChecksRemembered, ChecksAreSpaced
  <2> QED BY <2>1, <2>2
<1> QED BY <1>1, InitInv, PTL DEF Spec

-----------------------------------------------------------------------------
(***************************************************************************)
(* Heights, answers and comparisons are well typed: in particular the      *)
(* unsigned subtraction of FinalisedHeight does not wrap.                  *)
(***************************************************************************)
THEOREM TypeCorrect == Spec => []TypeOK
BY Invariance, PTL DEF IInv

(***************************************************************************)
(* Comparisons of hashes are at least hash_check_interval apart.           *)
(***************************************************************************)
THEOREM ComparisonsAreSpaced == Spec => []ChecksAreSpaced
BY Invariance, PTL DEF IInv

(***************************************************************************)
(* The endpoint that led the tick answers with a block that no reorg       *)
(* replaces any more.                                                      *)
(***************************************************************************)
THEOREM LeaderStaysCanonical == Spec => []LeaderIsCanonical
<1>1. IInv => LeaderIsCanonical
  <2> SUFFICES ASSUME IInv, NEW e \in Answered \ Inexact, IsBest(head[e])
               PROVE  obs[e] = <<height, chain[height]>>
    BY DEF LeaderIsCanonical
  <2>1. e \in Endpoint /\ obs[e] # NoAnswer /\ obs[e][1] = height
    BY DEF Answered, IInv, ExactAnswers
  <2>2. PICK f \in Endpoint : head[f] = height + FinalityDepth
    BY <2>1 DEF IInv, HeightFromBest, Compared
  <2>3. height + MaxReorg <= head[e]
    BY <2>1, <2>2, CheckAssumption DEF IsBest, IInv, TypeOK
  <2> QED BY <2>1, <2>3 DEF IInv, AnswersFinal
<1> QED BY <1>1, Invariance, PTL

(***************************************************************************)
(* An event always involves an endpoint that was polled more than          *)
(* FinalityDepth - MaxReorg blocks behind another one, or an answer with   *)
(* another number: reorgs alone never make a divergence.                   *)
(***************************************************************************)
THEOREM ReorgsMakeNoEvent == Spec => []NoFalseDivergence
<1>1. IInv => NoFalseDivergence
  <2> SUFFICES ASSUME IInv, event # NoEvent
               PROVE  \E e \in Answered :
                        \/ obs[e][1] # height
                        \/ \E f \in Endpoint : head[f] - head[e] > FinalityDepth - MaxReorg
    BY DEF NoFalseDivergence
  <2>1. PICK a \in Answered, b \in Answered : obs[a] # obs[b]
    BY DEF IInv, EventShown
  <2>2. a \in Endpoint /\ b \in Endpoint /\ obs[a] # NoAnswer /\ obs[b] # NoAnswer
    BY DEF Answered
  <2> SUFFICES ASSUME obs[a][1] = height, obs[b][1] = height
               PROVE  \E e \in Answered, f \in Endpoint :
                        head[f] - head[e] > FinalityDepth - MaxReorg
    OBVIOUS
  <2>3. PICK e \in {a, b} : ~(height + MaxReorg <= head[e])
    BY <2>1, <2>2 DEF IInv, AnswersFinal
  <2>4. PICK f \in Endpoint : head[f] = height + FinalityDepth
    BY <2>2 DEF IInv, HeightFromBest, Compared
  <2>5. head[f] - head[e] > FinalityDepth - MaxReorg
    BY <2>2, <2>3, <2>4, CheckAssumption DEF IInv, TypeOK
  <2> QED BY <2>4, <2>5
<1> QED BY <1>1, Invariance, PTL

=============================================================================
