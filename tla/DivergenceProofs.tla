-------------------------- MODULE DivergenceProofs --------------------------
(***************************************************************************)
(* What a divergence event says of the endpoints, and what the incident    *)
(* table makes of it, is right for any number of endpoints, any set of     *)
(* hashes, any answers and any order in which endpoints are configured.    *)
(*                                                                         *)
(* The loop is followed by an invariant that says of the endpoints looked  *)
(* at so far what the event will say of all.  The sort is followed by the  *)
(* rank of a hash, the number of hashes that are larger: a larger hash has *)
(* a lower rank, so the ranks are distinct, and being as many as hashes    *)
(* they are all the positions there are.                                   *)
(***************************************************************************)
EXTENDS Divergence, FiniteSetTheorems, TLAPS

\* The endpoints looked at so far.
Looked == {e \in Endpoint : e < next}

\* What is in the maps when a chain's endpoints up to next are looked at.
LoopInv ==
  /\ obs \in [Endpoint -> Observation]
  /\ next \in 1 .. N + 1
  /\ DOMAIN byHash = {obs[e].hash : e \in Looked} \ {NoHash}
  /\ \A h \in DOMAIN byHash : byHash[h] = {e \in Looked : obs[e].hash = h}
  /\ unanswered = {e \in Looked : obs[e] = NoAnswer}

\* The clusters are listed once each.
OrderInv ==
  /\ order \in Seq(DOMAIN byHash)
  /\ \A h \in DOMAIN byHash : \E i \in 1 .. Len(order) : order[i] = h
  /\ \A i, j \in 1 .. Len(order) : i # j => order[i] # order[j]

\* With a majority or without, the minority is who answered otherwise.
MinorityIsTheRest ==
  event.minority = {e \in Endpoint : Answered(obs[e]) /\ obs[e].hash # event.majority}

\* An event is returned once all endpoints are looked at.
EventInv ==
  event # NoEvent =>
    /\ next = N + 1
    /\ event.hashes \in Seq(Hash)
    /\ DOMAIN event.clusters = DOMAIN event.hashes
    /\ Len(event.clusters) = Len(event.hashes)
    /\ EventPartitionsEndpoints
    /\ MajorityIsStrict
    /\ MinorityIsTheRest

DivergenceInv == LoopInv /\ OrderInv /\ EventInv

-----------------------------------------------------------------------------
\* The answers: a hash is a number, and no answer is no hash.
LEMMA Answers ==
  ASSUME NEW o \in Observation
  PROVE  /\ o.hash \in Hash \cup {NoHash}
         /\ o.hash = NoHash <=> o = NoAnswer
         /\ NoHash \notin Hash
<1> USE DivergenceAssumption
<1>1. NoHash \notin Hash
  BY DEF NoHash
<1>2. CASE o = NoAnswer
  BY <1>1, <1>2 DEF NoAnswer, NoHash
<1>3. CASE o \in [hash : Hash, spelling : Spelling]
  <2>1. o.hash \in Hash
    BY <1>3
  <2>2. o.hash # NoHash
    BY <1>1, <2>1
  <2>3. NoAnswer.hash = NoHash
    BY DEF NoAnswer, NoHash
  <2> QED BY <1>1, <2>1, <2>2, <2>3
<1> QED BY <1>2, <1>3 DEF Observation

LEMMA DivergenceInitInv == Init => DivergenceInv
<1> SUFFICES ASSUME Init PROVE DivergenceInv
  OBVIOUS
<1>1. /\ obs \in [Endpoint -> Observation] /\ next = 1 /\ DOMAIN byHash = {}
      /\ order = <<>> /\ Len(order) = 0 /\ unanswered = {} /\ event = NoEvent
  BY DEF Init, EmptyMap
<1>2. Looked = {} /\ 1 \in 1 .. N + 1
  BY <1>1, DivergenceAssumption DEF Looked, Endpoint
<1> QED BY <1>1, <1>2 DEF DivergenceInv, LoopInv, OrderInv, EventInv

\* One more endpoint is looked at.
LEMMA ClusterKeepsInv ==
  ASSUME DivergenceInv, Cluster PROVE DivergenceInv'
<1> DEFINE o == obs[next]
           h == o.hash
<1>1. /\ next \in Endpoint /\ next' = next + 1 /\ obs' = obs /\ event' = event
      /\ N \in Nat \ {0} /\ next \in 1 .. N
  BY DivergenceAssumption DEF Cluster, Endpoint
<1>2. o \in Observation
  BY <1>1 DEF DivergenceInv, LoopInv
<1>3. Looked' = Looked \cup {next} /\ next \notin Looked
  BY <1>1 DEF Looked, Endpoint
<1>4. EventInv'
  <2>1. event = NoEvent
    BY <1>1 DEF DivergenceInv, EventInv
  <2> QED BY <1>1, <2>1 DEF EventInv, NoEvent
<1>5. next' \in 1 .. N + 1 /\ obs' \in [Endpoint -> Observation]
  BY <1>1 DEF DivergenceInv, LoopInv
<1>6. CASE ~Answered(o)
  <2>1. o = NoAnswer /\ h = NoHash
    BY <1>2, <1>6, Answers DEF Answered
  <2>2. unanswered' = unanswered \cup {next} /\ UNCHANGED <<byHash, order>>
    BY <1>6 DEF Cluster
  <2>3. DOMAIN byHash' = {obs'[e].hash : e \in Looked'} \ {NoHash}
    BY <1>1, <1>3, <2>1, <2>2 DEF DivergenceInv, LoopInv
  <2>4. \A g \in DOMAIN byHash : g # NoHash
    BY DEF DivergenceInv, LoopInv
  <2>5. \A g \in DOMAIN byHash' : byHash'[g] = {e \in Looked' : obs'[e].hash = g}
    BY <1>1, <1>3, <2>1, <2>2, <2>4 DEF DivergenceInv, LoopInv
  <2>6. unanswered' = {e \in Looked' : obs'[e] = NoAnswer}
    BY <1>1, <1>3, <2>1, <2>2 DEF DivergenceInv, LoopInv
  <2>7. OrderInv'
    BY <2>2 DEF DivergenceInv, OrderInv
  <2> QED BY <1>4, <1>5, <2>3, <2>5, <2>6, <2>7 DEF DivergenceInv, LoopInv
<1>7. CASE Answered(o)
  <2>1. o # NoAnswer /\ h # NoHash
    BY <1>2, <1>7, Answers DEF Answered
  <2>2. /\ byHash' = Put(byHash, h, {next} \cup IF h \in DOMAIN byHash THEN byHash[h] ELSE {})
        /\ order' = IF h \in DOMAIN byHash THEN order ELSE Append(order, h)
        /\ unanswered' = unanswered
    BY <1>7 DEF Cluster
  <2>3. DOMAIN byHash' = DOMAIN byHash \cup {h}
    BY <2>2 DEF Put
  <2>4. DOMAIN byHash' = {obs'[e].hash : e \in Looked'} \ {NoHash}
    BY <1>1, <1>3, <2>1, <2>3 DEF DivergenceInv, LoopInv
  <2>5. ASSUME NEW g \in DOMAIN byHash' PROVE byHash'[g] = {e \in Looked' : obs'[e].hash = g}
    <3>1. CASE g = h /\ h \in DOMAIN byHash
      <4>1. byHash'[g] = {next} \cup byHash[h]
        BY <2>2, <3>1 DEF Put
      <4>2. byHash[h] = {e \in Looked : obs[e].hash = h}
        BY <3>1 DEF DivergenceInv, LoopInv
      <4> QED BY <1>1, <1>3, <3>1, <4>1, <4>2
    <3>2. CASE g = h /\ h \notin DOMAIN byHash
      <4>1. byHash'[g] = {next} \cup {}
        BY <2>2, <3>2 DEF Put
      <4>2. \A e \in Looked : obs[e].hash # h
        BY <2>1, <3>2 DEF DivergenceInv, LoopInv
      <4> QED BY <1>1, <1>3, <3>2, <4>1, <4>2
    <3>3. CASE g # h
      <4>1. g \in DOMAIN byHash /\ byHash'[g] = byHash[g]
        BY <2>2, <2>3, <3>3 DEF Put
      <4>2. byHash[g] = {e \in Looked : obs[e].hash = g}
        BY <4>1 DEF DivergenceInv, LoopInv
      <4> QED BY <1>1, <1>3, <3>3, <4>1, <4>2
    <3> QED BY <3>1, <3>2, <3>3
  <2>6. unanswered' = {e \in Looked' : obs'[e] = NoAnswer}
    BY <1>1, <1>3, <2>1, <2>2 DEF DivergenceInv, LoopInv
  <2>7. OrderInv'
    <3>1. order \in Seq(DOMAIN byHash)
      BY DEF DivergenceInv, OrderInv
    <3>2. CASE h \in DOMAIN byHash
      <4>1. order' = order /\ DOMAIN byHash' = DOMAIN byHash
        BY <2>2, <2>3, <3>2
      <4> QED BY <4>1 DEF DivergenceInv, OrderInv
    <3>3. CASE h \notin DOMAIN byHash
      <4> DEFINE n == Len(order)
      <4>1. order' = Append(order, h)
        BY <2>2, <3>3
      <4>2. /\ order \in Seq(DOMAIN byHash') /\ h \in DOMAIN byHash'
            /\ \A i \in 1 .. n : order[i] \in DOMAIN byHash
        BY <2>3, <3>1
      <4>3. /\ order' \in Seq(DOMAIN byHash') /\ Len(order') = n + 1 /\ n \in Nat
            /\ order'[n + 1] = h /\ \A i \in 1 .. n : order'[i] = order[i]
        BY <4>1, <4>2
      <4>4. ASSUME NEW g \in DOMAIN byHash' PROVE \E i \in 1 .. n + 1 : order'[i] = g
        <5>1. CASE g = h
          BY <4>3, <5>1
        <5>2. CASE g # h
          <6>1. PICK i \in 1 .. n : order[i] = g
            BY <2>3, <5>2 DEF DivergenceInv, OrderInv
          <6> QED BY <4>3, <6>1
        <5> QED BY <5>1, <5>2
      <4>5. \A i, j \in 1 .. n : i # j => order[i] # order[j]
        BY DEF DivergenceInv, OrderInv
      <4>6. \A i, j \in 1 .. n + 1 : i # j => order'[i] # order'[j]
        <5>1. \A i \in 1 .. n + 1 : i \in 1 .. n \/ i = n + 1
          BY <4>3
        <5>2. \A i \in 1 .. n : order[i] # h
          BY <3>3, <4>2
        <5> HIDE DEF n
        <5> QED BY <4>3, <4>5, <5>1, <5>2
      <4> QED BY <4>3, <4>4, <4>6 DEF OrderInv
    <3> QED BY <3>2, <3>3
  <2> QED BY <1>4, <1>5, <2>4, <2>5, <2>6, <2>7 DEF DivergenceInv, LoopInv
<1> QED BY <1>6, <1>7

-----------------------------------------------------------------------------
(* The sort.                                                               *)

\* The hashes that come before h.
Before(K, h) == {g \in K : Larger(g, h)}

\* The order in which clusters are listed is a strict total one.
LEMMA LargerIsTotalOrder ==
  ASSUME NEW K \in SUBSET Nat, \A h \in K : Cardinality(byHash[h]) \in Nat
  PROVE  /\ \A h \in K : ~Larger(h, h)
         /\ \A g, h \in K : g # h => Larger(g, h) \/ Larger(h, g)
         /\ \A f, g, h \in K : Larger(f, g) /\ Larger(g, h) => Larger(f, h)
<1>1. \A h \in K : h \in Nat
  OBVIOUS
<1> QED BY <1>1 DEF Larger

\* A larger hash has fewer before it, and every hash fewer than there are.
LEMMA RankFollowsOrder ==
  ASSUME NEW K \in SUBSET Nat, IsFiniteSet(K), \A h \in K : Cardinality(byHash[h]) \in Nat
  PROVE  /\ \A h \in K : Cardinality(Before(K, h)) \in 0 .. Cardinality(K) - 1
         /\ \A g, h \in K : Larger(g, h) => Cardinality(Before(K, g)) < Cardinality(Before(K, h))
<1>1. /\ \A h \in K : ~Larger(h, h)
      /\ \A g, h \in K : g # h => Larger(g, h) \/ Larger(h, g)
      /\ \A f, g, h \in K : Larger(f, g) /\ Larger(g, h) => Larger(f, h)
  BY LargerIsTotalOrder
<1>2. ASSUME NEW h \in K
      PROVE  /\ IsFiniteSet(Before(K, h)) /\ Cardinality(Before(K, h)) \in Nat
             /\ Cardinality(Before(K, h)) <= Cardinality(K) - 1 /\ Cardinality(K) \in Nat
  <2>1. Before(K, h) \in SUBSET (K \ {h})
    BY <1>1 DEF Before
  <2>2. IsFiniteSet(K \ {h}) /\ Cardinality(K \ {h}) = Cardinality(K) - 1
    BY FS_RemoveElement
  <2> QED BY <2>1, <2>2, FS_Subset, FS_CardinalityType
<1>3. ASSUME NEW g \in K, NEW h \in K, Larger(g, h)
      PROVE  Cardinality(Before(K, g)) < Cardinality(Before(K, h))
  <2>1. Before(K, g) \in SUBSET Before(K, h)
    BY <1>1, <1>3 DEF Before
  <2>2. g \in Before(K, h) /\ g \notin Before(K, g)
    BY <1>1, <1>3 DEF Before
  <2>3. /\ Cardinality(Before(K, g)) <= Cardinality(Before(K, h))
        /\ Cardinality(Before(K, g)) # Cardinality(Before(K, h))
    BY <1>2, <2>1, <2>2, FS_Subset
  <2> QED BY <1>2, <2>3
<1> QED BY <1>2, <1>3

\* So the hashes can be arranged, each larger than those after it.
LEMMA ArrangementExists ==
  ASSUME NEW K \in SUBSET Nat, IsFiniteSet(K), \A h \in K : Cardinality(byHash[h]) \in Nat
  PROVE  \E s \in [1 .. Cardinality(K) -> K] :
           \A i, j \in 1 .. Cardinality(K) : i < j => Larger(s[i], s[j])
<1> DEFINE n == Cardinality(K)
           rank == [h \in K |-> Cardinality(Before(K, h)) + 1]
           s == [i \in 1 .. n |-> CHOOSE h \in K : rank[h] = i]
<1>1. /\ \A h \in K : Cardinality(Before(K, h)) \in 0 .. n - 1
      /\ \A g, h \in K : Larger(g, h) => Cardinality(Before(K, g)) < Cardinality(Before(K, h))
      /\ n \in Nat
  BY RankFollowsOrder, FS_CardinalityType
<1>2. \A g, h \in K : g # h => Larger(g, h) \/ Larger(h, g)
  BY LargerIsTotalOrder
<1> HIDE DEF n
<1>3. /\ \A h \in K : rank[h] \in 1 .. n
      /\ \A g, h \in K : Larger(g, h) => rank[g] < rank[h]
      /\ rank \in [K -> 1 .. n]
  BY <1>1
<1> HIDE DEF rank
<1>4. \A g, h \in K : rank[g] = rank[h] => g = h
  BY <1>2, <1>3
<1>5. rank \in Injection(K, 1 .. n)
  BY <1>3, <1>4 DEF Injection, IsInjective
<1>6. IsFiniteSet(1 .. n) /\ Cardinality(1 .. n) = n
  BY <1>1, FS_Interval
<1>7. rank \in Surjection(K, 1 .. n)
  BY <1>5, <1>6, FS_Injection DEF n
<1>8. \A i \in 1 .. n : \E h \in K : rank[h] = i
  BY <1>7 DEF Surjection
<1>9. \A i \in 1 .. n : s[i] \in K /\ rank[s[i]] = i
  BY <1>8
<1>10. s \in [1 .. n -> K]
  BY <1>9
<1> HIDE DEF s
<1>11. ASSUME NEW i \in 1 .. n, NEW j \in 1 .. n, i < j PROVE Larger(s[i], s[j])
  <2>1. s[i] \in K /\ s[j] \in K /\ rank[s[i]] = i /\ rank[s[j]] = j
    BY <1>9
  <2>2. s[i] # s[j]
    BY <1>11, <2>1
  <2>3. ASSUME Larger(s[j], s[i]) PROVE FALSE
    <3>1. rank[s[j]] < rank[s[i]]
      BY <1>3, <2>1, <2>3
    <3>2. j < i
      BY <2>1, <3>1
    <3> QED BY <1>1, <1>11, <3>2
  <2> QED BY <1>2, <2>1, <2>2, <2>3
<1> QED BY <1>10, <1>11 DEF n

\* The clusters as the sort leaves them: all of them, once each, in order.
LEMMA ClustersSorted ==
  ASSUME LoopInv, OrderInv
  PROVE  /\ Clusters \in [1 .. Len(order) -> DOMAIN byHash]
         /\ Len(order) = Cardinality(DOMAIN byHash)
         /\ \A i, j \in 1 .. Len(order) : i < j => Larger(Clusters[i], Clusters[j])
         /\ \A h \in DOMAIN byHash : \E i \in 1 .. Len(order) : Clusters[i] = h
         /\ DOMAIN byHash \subseteq Hash
         /\ \A h \in DOMAIN byHash : Cardinality(byHash[h]) \in Nat
<1> DEFINE K == DOMAIN byHash
           n == Len(order)
<1>1. K \subseteq Hash
  <2>1. \A e \in Endpoint : obs[e].hash \in Hash \cup {NoHash}
    BY Answers DEF LoopInv
  <2> QED BY <2>1 DEF LoopInv, Looked
<1>2. K \in SUBSET Nat
  BY <1>1, DivergenceAssumption
<1>3. \A h \in K : IsFiniteSet(byHash[h]) /\ Cardinality(byHash[h]) \in Nat
  <2>1. IsFiniteSet(Endpoint)
    BY FS_Interval, DivergenceAssumption DEF Endpoint
  <2>2. \A h \in K : byHash[h] \in SUBSET Endpoint
    BY DEF LoopInv, Looked
  <2> HIDE DEF K
  <2>3. \A h \in K : IsFiniteSet(byHash[h])
    BY <2>1, <2>2, FS_Subset
  <2> QED BY <2>3, FS_CardinalityType
<1>4. order \in [1 .. n -> K] /\ n \in Nat /\ DOMAIN order = 1 .. n
  BY DEF OrderInv
<1>5. IsFiniteSet(K) /\ Cardinality(K) = n
  <2>1. order \in Surjection(1 .. n, K)
    BY <1>4 DEF Surjection, OrderInv
  <2>2. order \in Injection(1 .. n, K)
    <3>1. \A i, j \in 1 .. n : order[i] = order[j] => i = j
      BY DEF OrderInv
    <3> QED BY <1>4, <3>1 DEF Injection, IsInjective
  <2> HIDE DEF K, n
  <2>3. IsFiniteSet(1 .. n) /\ Cardinality(1 .. n) = n
    BY <1>4, FS_Interval
  <2> QED BY <2>1, <2>2, <2>3, FS_Surjection
<1> HIDE DEF K, n
<1>6. \E s \in [1 .. n -> K] : \A i, j \in 1 .. n : i < j => Larger(s[i], s[j])
  BY <1>2, <1>3, <1>5, ArrangementExists
<1>7. Clusters = CHOOSE s \in [1 .. n -> K] : \A i, j \in 1 .. n : i < j => Larger(s[i], s[j])
  BY <1>4 DEF Clusters, K
<1>8. /\ Clusters \in [1 .. n -> K]
      /\ \A i, j \in 1 .. n : i < j => Larger(Clusters[i], Clusters[j])
  BY <1>6, <1>7
<1>9. \A h \in K : ~Larger(h, h)
  BY <1>2, <1>3, LargerIsTotalOrder
<1>10. \A i, j \in 1 .. n : Clusters[i] = Clusters[j] => i = j
  <2> SUFFICES ASSUME NEW i \in 1 .. n, NEW j \in 1 .. n, Clusters[i] = Clusters[j], i # j
               PROVE  FALSE
    OBVIOUS
  <2>1. i < j \/ j < i
    BY <1>4
  <2>2. Clusters[i] \in K
    BY <1>8
  <2> QED BY <1>8, <1>9, <2>1, <2>2
<1>11. Clusters \in Injection(1 .. n, K)
  BY <1>8, <1>10 DEF Injection, IsInjective
<1>12. Clusters \in Surjection(1 .. n, K)
  <2>1. Cardinality(1 .. n) = n
    BY <1>4, FS_Interval
  <2> QED BY <1>5, <1>11, <2>1, FS_Injection
<1>13. \A h \in K : \E i \in 1 .. n : Clusters[i] = h
  BY <1>12 DEF Surjection
<1> QED BY <1>1, <1>3, <1>5, <1>8, <1>13 DEF K, n

-----------------------------------------------------------------------------
(***************************************************************************)
(* The event is returned with all endpoints looked at, so that what it     *)
(* says of the clusters it says of the answers.                            *)
(***************************************************************************)
LEMMA ReturnKeepsInv ==
  ASSUME DivergenceInv, Return PROVE DivergenceInv'
<1> DEFINE K == DOMAIN byHash
           n == Len(order)
           s == Clusters
<1>1. /\ UNCHANGED <<obs, next, byHash, order, unanswered>> /\ next = N + 1 /\ n >= 2
      /\ event'.found /\ event'.hashes = s
      /\ event'.clusters = [i \in DOMAIN s |-> byHash[s[i]]]
      /\ event'.majority = Majority(s)
      /\ event'.minority = UNION {byHash[h] : h \in K \ {Majority(s)}}
      /\ event'.unanswered = unanswered
  BY DEF Return
<1>2. /\ s \in [1 .. n -> K] /\ n = Cardinality(K) /\ K \subseteq Hash
      /\ \A i, j \in 1 .. n : i < j => Larger(s[i], s[j])
      /\ \A h \in K : \E i \in 1 .. n : s[i] = h
      /\ \A h \in K : Cardinality(byHash[h]) \in Nat
  BY ClustersSorted DEF DivergenceInv
<1>3. n \in Nat /\ n >= 2
  BY <1>1 DEF DivergenceInv, OrderInv
<1>4. Looked = Endpoint
  BY <1>1, DivergenceAssumption DEF Looked, Endpoint
<1>5. /\ K = Cast /\ \A h \in K : byHash[h] = Voters(h)
      /\ unanswered = {e \in Endpoint : obs[e] = NoAnswer}
  BY <1>4 DEF DivergenceInv, LoopInv, Cast, Voters
<1>6. Cast' = Cast /\ \A h : Voters(h)' = Voters(h)
  BY <1>1 DEF Cast, Voters
<1> HIDE DEF s, K, n
<1>7. /\ event'.hashes \in Seq(Hash) /\ Len(event'.hashes) = n /\ DOMAIN event'.hashes = 1 .. n
      /\ DOMAIN event'.clusters = 1 .. n /\ Len(event'.clusters) = n
  BY <1>1, <1>2, <1>3
<1>8. EventPartitionsEndpoints'
  <2>1. {s[i] : i \in 1 .. n} = K
    BY <1>2
  <2>2. \A i \in 1 .. n : event'.clusters[i] = Voters(s[i])
    BY <1>1, <1>2, <1>5
  <2>3. \A i, j \in 1 .. n : i < j =>
          \/ Cardinality(Voters(s[i])) > Cardinality(Voters(s[j]))
          \/ Cardinality(Voters(s[i])) = Cardinality(Voters(s[j])) /\ s[i] < s[j]
    BY <1>2, <1>5 DEF Larger
  <2>4. /\ Cardinality(Cast') >= 2 /\ {event'.hashes[i] : i \in DOMAIN event'.hashes} = Cast'
        /\ Len(event'.hashes) = Cardinality(Cast')
    BY <1>1, <1>2, <1>3, <1>5, <1>6, <1>7, <2>1
  <2>5. event'.unanswered = {e \in Endpoint : obs'[e] = NoAnswer}
    BY <1>1, <1>5
  <2> QED BY <1>1, <1>6, <1>7, <2>2, <2>3, <2>4, <2>5 DEF EventPartitionsEndpoints
<1>9. MajorityIsStrict' /\ MinorityIsTheRest'
  <2>1. 1 \in 1 .. n /\ 2 \in 1 .. n /\ \A i \in 1 .. n : i # 1 => i > 1 /\ (i # 2 => i > 2)
    BY <1>3
  <2>2. /\ s[1] \in K /\ s[2] \in K /\ s[1] # s[2]
        /\ NoHash \notin K
    <3>1. Larger(s[1], s[2])
      BY <1>2, <2>1
    <3>2. s[1] \in K /\ s[2] \in K
      BY <1>2, <2>1
    <3>3. s[1] \in Nat
      BY <1>2, <3>2, DivergenceAssumption
    <3> QED BY <1>2, <3>1, <3>2, <3>3, DivergenceAssumption DEF Larger, NoHash
  <2>3. \A h \in K \ {s[1]} : Cardinality(byHash[s[1]]) >= Cardinality(byHash[h])
    BY <1>2, <2>1, <2>2 DEF Larger
  <2>4. \A h \in K \ {s[1], s[2]} : Cardinality(byHash[s[2]]) >= Cardinality(byHash[h])
    BY <1>2, <2>1, <2>2 DEF Larger
  <2>5. Cardinality(byHash[s[1]]) \in Nat /\ Cardinality(byHash[s[2]]) \in Nat
    BY <1>2, <2>2
  <2>6. Majority(s) = IF Cardinality(byHash[s[1]]) > Cardinality(byHash[s[2]]) THEN s[1] ELSE NoHash
    BY DEF Majority
  <2>7. ASSUME NEW h \in K
        PROVE  Majority(s) = h <=>
                 \A g \in K \ {h} : Cardinality(byHash[h]) > Cardinality(byHash[g])
    <3>1. CASE Cardinality(byHash[s[1]]) > Cardinality(byHash[s[2]])
      <4>1. \A g \in K \ {s[1]} : Cardinality(byHash[s[1]]) > Cardinality(byHash[g])
        <5>1. \A g \in K : Cardinality(byHash[g]) \in Nat
          BY <1>2
        <5> QED BY <2>4, <2>5, <3>1, <5>1
      <4>2. \A a, b \in K : ~(Cardinality(byHash[a]) > Cardinality(byHash[b])
                              /\ Cardinality(byHash[b]) > Cardinality(byHash[a]))
        BY <1>2
      <4> QED BY <2>2, <2>6, <3>1, <4>1, <4>2
    <3>2. CASE ~(Cardinality(byHash[s[1]]) > Cardinality(byHash[s[2]]))
      <4>1. Majority(s) = NoHash
        BY <2>6, <3>2
      <4>2. Cardinality(byHash[h]) \in Nat
        BY <1>2
      <4>3. CASE h = s[1]
        BY <2>2, <3>2, <4>1, <4>3
      <4>4. CASE h # s[1]
        <5>1. ~(Cardinality(byHash[h]) > Cardinality(byHash[s[1]]))
          BY <2>3, <2>5, <4>2, <4>4
        <5> QED BY <2>2, <4>1, <4>4, <5>1
      <4> QED BY <4>3, <4>4
    <3> QED BY <3>1, <3>2
  <2>8. \A h \in Cast' : event'.majority = h <=>
          \A g \in Cast' \ {h} : Cardinality(Voters(h)') > Cardinality(Voters(g)')
    <3>1. \A h \in Cast : Majority(s) = h <=>
            \A g \in Cast \ {h} : Cardinality(Voters(h)) > Cardinality(Voters(g))
      BY <1>5, <2>7
    <3> QED BY <1>1, <1>6, <3>1
  <2>9. MinorityIsTheRest'
    <3>1. \A e \in Endpoint : Answered(obs[e]) <=> obs[e].hash \in K
      <4>1. \A e \in Endpoint : Answered(obs[e]) <=> obs[e].hash # NoHash
        BY Answers DEF DivergenceInv, LoopInv, Answered
      <4> QED BY <1>5, <4>1 DEF Cast
    <3>2. \A h \in K : byHash[h] = {e \in Endpoint : obs[e].hash = h}
      BY <1>5 DEF Voters
    <3>3. event'.minority = {e \in Endpoint : obs[e].hash \in K /\ obs[e].hash # Majority(s)}
      <4>1. \A e : e \in event'.minority <=> \E h \in K \ {Majority(s)} : e \in byHash[h]
        BY <1>1
      <4>2. \A e : e \in event'.minority
                    <=> e \in Endpoint /\ obs[e].hash \in K /\ obs[e].hash # Majority(s)
        BY <3>2, <4>1
      <4> QED BY <4>2
    <3> QED BY <1>1, <3>1, <3>3 DEF MinorityIsTheRest
  <2>10. event'.majority \in Cast' \cup {NoHash}
    BY <1>1, <1>5, <1>6, <2>2, <2>6
  <2>11. \A e \in Endpoint : Answered(obs'[e]) => obs'[e].hash # NoHash
    BY <1>1, Answers DEF DivergenceInv, LoopInv, Answered
  <2> QED BY <2>8, <2>9, <2>10, <2>11 DEF MajorityIsStrict, MinorityIsTheRest
<1>10. LoopInv' /\ OrderInv'
  <2>1. UNCHANGED <<obs, next, byHash, order, unanswered>>
    BY <1>1
  <2>2. Looked' = Looked
    BY <2>1 DEF Looked
  <2>3. LoopInv'
    BY <2>1, <2>2 DEF DivergenceInv, LoopInv
  <2>4. OrderInv'
    BY <2>1 DEF DivergenceInv, OrderInv
  <2> QED BY <2>3, <2>4
<1>11. EventInv'
  BY <1>1, <1>7, <1>8, <1>9 DEF EventInv
<1> QED BY <1>10, <1>11 DEF DivergenceInv

\* The invariant holds in every reachable state.
LEMMA DivergenceInvariance == Spec => []DivergenceInv
<1>1. DivergenceInv /\ [Next]_vars => DivergenceInv'
  <2> SUFFICES ASSUME DivergenceInv, [Next]_vars PROVE DivergenceInv'
    OBVIOUS
  <2>1. CASE UNCHANGED vars
    <3>1. UNCHANGED <<obs, next, byHash, order, unanswered, event>>
      BY <2>1 DEF vars
    <3>2. LoopInv' /\ OrderInv'
      <4>1. Looked' = Looked
        BY <3>1 DEF Looked
      <4> QED BY <3>1, <4>1 DEF DivergenceInv, LoopInv, OrderInv
    <3>3. Cast' = Cast /\ \A h : Voters(h)' = Voters(h)
      BY <3>1 DEF Cast, Voters
    <3>4. event # NoEvent => EventPartitionsEndpoints' /\ MajorityIsStrict' /\ MinorityIsTheRest'
      BY <3>1, <3>3 DEF DivergenceInv, EventInv, EventPartitionsEndpoints, MajorityIsStrict,
                        MinorityIsTheRest
    <3> QED BY <3>1, <3>2, <3>4 DEF DivergenceInv, EventInv
  <2> QED BY <2>1, ClusterKeepsInv, ReturnKeepsInv DEF Next
<1> QED BY <1>1, DivergenceInitInv, PTL DEF Spec

(***************************************************************************)
(* Every event partitions the endpoints by their answers, in clusters that *)
(* do not depend on the order the endpoints are configured in.             *)
(***************************************************************************)
THEOREM EventsPartition == Spec => []EventPartitionsEndpoints
<1>1. DivergenceInv => EventPartitionsEndpoints
  <2>1. event = NoEvent => ~event.found
    BY DEF NoEvent
  <2> QED BY <2>1 DEF DivergenceInv, EventInv, EventPartitionsEndpoints
<1> QED BY <1>1, DivergenceInvariance, PTL

(***************************************************************************)
(* The majority of an event is the hash with strictly most endpoints or,   *)
(* when there is none, no hash; the minority is who answered otherwise, as *)
(* far as the comment and the code agree on it.                            *)
(***************************************************************************)
THEOREM MajoritiesAreStrict == Spec => []MajorityIsStrict
<1>1. DivergenceInv => MajorityIsStrict
  <2>1. event = NoEvent => ~event.found
    BY DEF NoEvent
  <2> QED BY <2>1 DEF DivergenceInv, EventInv, MajorityIsStrict
<1> QED BY <1>1, DivergenceInvariance, PTL

\* An event whose majority is strict accuses who has no strict majority
\* behind its hash, and there is always somebody to accuse.
LEMMA MinorityDeviates ==
  ASSUME DivergenceInv, event.found, NEW e \in Endpoint
  PROVE  /\ e \in event.minority <=>
              /\ Answered(obs[e])
              /\ \E g \in Cast \ {obs[e].hash} :
                   Cardinality(Voters(g)) >= Cardinality(Voters(obs[e].hash))
         /\ event.minority # {}
<1>1. event # NoEvent
  BY DEF NoEvent
<1>2. /\ obs \in [Endpoint -> Observation]
      /\ \A h \in Cast : event.majority = h <=>
           \A g \in Cast \ {h} : Cardinality(Voters(h)) > Cardinality(Voters(g))
      /\ event.minority =
           {f \in Endpoint : Answered(obs[f]) /\ obs[f].hash # event.majority}
      /\ Cardinality(Cast) >= 2
  BY <1>1 DEF DivergenceInv, LoopInv, EventInv, MajorityIsStrict, MinorityIsTheRest,
                EventPartitionsEndpoints
<1>3. \A f \in Endpoint : Answered(obs[f]) => obs[f].hash \in Cast
  BY <1>2, Answers DEF Cast, Answered
<1>4. \A h \in Cast : \E f \in Endpoint : Answered(obs[f]) /\ obs[f].hash = h
  BY <1>2, Answers DEF Cast, Answered
<1>5. \A h : Cardinality(Voters(h)) \in Nat
  <2>1. IsFiniteSet(Endpoint)
    BY FS_Interval, DivergenceAssumption DEF Endpoint
  <2>2. \A h : Voters(h) \in SUBSET Endpoint
    BY DEF Voters
  <2>3. \A h : IsFiniteSet(Voters(h))
    BY <2>1, <2>2, FS_Subset
  <2> QED BY <2>3, FS_CardinalityType
<1>6. \E h \in Cast : h # event.majority
  <2> SUFFICES ASSUME \A h \in Cast : h = event.majority PROVE FALSE
    OBVIOUS
  <2>1. Cast \in SUBSET {event.majority}
    OBVIOUS
  <2>2. IsFiniteSet({event.majority}) /\ Cardinality({event.majority}) = 1
    BY FS_Singleton
  <2>3. Cardinality(Cast) <= 1 /\ Cardinality(Cast) \in Nat
    BY <2>1, <2>2, FS_Subset, FS_CardinalityType
  <2> QED BY <1>2, <2>3
<1>7. event.minority # {}
  BY <1>2, <1>4, <1>6
<1>8. ASSUME Answered(obs[e])
      PROVE  obs[e].hash # event.majority <=>
               \E g \in Cast \ {obs[e].hash} :
                 Cardinality(Voters(g)) >= Cardinality(Voters(obs[e].hash))
  <2> DEFINE h == obs[e].hash
  <2>1. h \in Cast
    BY <1>3, <1>8
  <2>2. event.majority = h <=>
          \A g \in Cast \ {h} : Cardinality(Voters(h)) > Cardinality(Voters(g))
    BY <1>2, <2>1
  <2>3. \A g : Cardinality(Voters(g)) >= Cardinality(Voters(h))
                 <=> ~(Cardinality(Voters(h)) > Cardinality(Voters(g)))
    BY <1>5
  <2> HIDE DEF h
  <2> QED BY <2>2, <2>3 DEF h
<1> QED BY <1>2, <1>7, <1>8

\* The cluster an endpoint that answered is found in is that of its hash.
LEMMA ServedHash ==
  ASSUME DivergenceInv, event.found, NEW e \in Endpoint, Answered(obs[e])
  PROVE  event.hashes[ClusterOf(event, e)] = obs[e].hash
<1>1. event # NoEvent
  BY DEF NoEvent
<1>2. /\ obs[e] \in Observation
      /\ {event.hashes[i] : i \in DOMAIN event.hashes} = Cast
      /\ \A i \in DOMAIN event.hashes : event.clusters[i] = Voters(event.hashes[i])
      /\ DOMAIN event.clusters = DOMAIN event.hashes
  BY <1>1 DEF DivergenceInv, LoopInv, EventInv, EventPartitionsEndpoints
<1>3. obs[e].hash \in Cast
  BY <1>2, Answers DEF Cast, Answered
<1>4. \E i \in DOMAIN event.clusters : e \in event.clusters[i]
  BY <1>2, <1>3 DEF Voters
<1>5. ClusterOf(event, e) \in DOMAIN event.clusters /\ e \in event.clusters[ClusterOf(event, e)]
  BY <1>4 DEF ClusterOf
<1> QED BY <1>2, <1>5 DEF Voters

(***************************************************************************)
(* The incident table accuses exactly the endpoints without a strict       *)
(* majority behind their hash, each with the hash it served.               *)
(***************************************************************************)
THEOREM RowsAccuseDeviants == Spec => []RowsShowDeviants
<1>1. DivergenceInv => RowsShowDeviants
  <2> SUFFICES ASSUME DivergenceInv, event.found PROVE RowsShowDeviants
    BY DEF RowsShowDeviants
  <2> DEFINE D == {f \in Endpoint :
                     /\ Answered(obs[f])
                     /\ \E g \in Cast \ {obs[f].hash} :
                          Cardinality(Voters(g)) >= Cardinality(Voters(obs[f].hash))}
             row(e, served) == [endpoint |-> e, distinct |-> Cardinality(Cast),
                                majority |-> event.majority, served |-> served]
  <2>1. event # NoEvent
    BY DEF NoEvent
  <2>2. /\ Len(event.clusters) = Cardinality(Cast)
        /\ event.minority \subseteq Endpoint
    BY <2>1 DEF DivergenceInv, EventInv, EventPartitionsEndpoints, MinorityIsTheRest
  <2>3. 1 \in Endpoint
    BY DivergenceAssumption DEF Endpoint
  <2>4. event.minority = D /\ event.minority # {}
    BY <2>2, <2>3, MinorityDeviates
  <2>5. Targets(event) = D
    BY <2>4 DEF Targets
  <2>6. \A e \in D : event.hashes[ClusterOf(event, e)] = obs[e].hash
    BY ServedHash
  <2> HIDE DEF D
  <2>7. DivergenceIncidents(event) = {row(e, event.hashes[ClusterOf(event, e)]) : e \in D}
    BY <2>2, <2>5 DEF DivergenceIncidents
  <2>8. DivergenceIncidents(event) = {row(e, obs[e].hash) : e \in D}
    BY <2>6, <2>7
  <2> QED BY <2>8 DEF RowsShowDeviants, D
<1> QED BY <1>1, DivergenceInvariance, PTL

=============================================================================
