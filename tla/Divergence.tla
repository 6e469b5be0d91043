---------------------------- MODULE Divergence ----------------------------
(***************************************************************************)
(* Clustering of the endpoints' answers to "what is the block hash at this *)
(* height" (DetectDivergence in internal/analysis/divergence.go): one loop *)
(* over the observations in configuration order, then a sort of the        *)
(* clusters, from which the majority and the minority are read.            *)
(*                                                                         *)
(* A hash is a number (its order is the order of the lower-case strings)   *)
(* and a spelling; spellings of one number differ by letter case only.     *)
(***************************************************************************)
EXTENDS Integers, FiniteSets, Sequences, GoMap

CONSTANTS N,         \* number of endpoints of the chain
          Hash,      \* lower-case hashes, a set of positive numbers
          Spelling   \* letter cases a provider may use

ASSUME DivergenceAssumption ==
  /\ N \in Nat \ {0}
  /\ Hash \subseteq Nat \ {0}

VARIABLES obs,         \* the observations, by endpoint
          next,        \* endpoint whose observation is looked at next
          byHash,      \* hash -> endpoints of its cluster
          order,       \* hashes in the order of their first observation
          unanswered,  \* endpoints that could not be compared
          event        \* what is returned: NoEvent until then, and if none

vars == <<obs, next, byHash, order, unanswered, event>>

Endpoint == 1 .. N
NoAnswer == [hash |-> 0, spelling |-> 0]
Observation == {NoAnswer} \cup [hash : Hash, spelling : Spelling]
NoHash == 0
NoEvent == [found |-> FALSE]

Answered(o) == o # NoAnswer

-----------------------------------------------------------------------------
Init ==
  /\ obs \in [Endpoint -> Observation]
  /\ next = 1
  /\ byHash = EmptyMap
  /\ order = <<>>
  /\ unanswered = {}
  /\ event = NoEvent

\* The body of the loop over the observations.
Cluster ==
  /\ next \in Endpoint
  /\ LET o == obs[next]
         h == o.hash                         \* strings.ToLower
     IN  IF ~Answered(o)
         THEN unanswered' = unanswered \cup {next} /\ UNCHANGED <<byHash, order>>
         ELSE /\ byHash' = Put(byHash, h,
                   {next} \cup IF h \in DOMAIN byHash THEN byHash[h] ELSE {})
              /\ order' = IF h \in DOMAIN byHash THEN order ELSE Append(order, h)
              /\ UNCHANGED unanswered
  /\ next' = next + 1
  /\ UNCHANGED <<obs, event>>

\* Largest cluster first, ties broken by hash.
Larger(g, h) ==
  \/ Cardinality(byHash[g]) > Cardinality(byHash[h])
  \/ Cardinality(byHash[g]) = Cardinality(byHash[h]) /\ g < h

\* sort.SliceStable: an arrangement in which each cluster is larger than those
\* after it.  Larger is a strict total order, so there is one.
Clusters ==
  CHOOSE hashes \in [DOMAIN order -> DOMAIN byHash] :
    \A i, j \in DOMAIN order : i < j => Larger(hashes[i], hashes[j])

\* The majority hash of the sorted clusters, unless the first two tie.
MajorityAlways(hashes) == hashes[1]
Majority(hashes) ==
  IF Cardinality(byHash[hashes[1]]) > Cardinality(byHash[hashes[2]])
  THEN hashes[1]
  ELSE NoHash

\* Everything after the loop: the early return, or the event.
ReturnAnyAnswer ==
  /\ next = N + 1
  /\ ~event.found
  /\ Len(order) >= 1
  /\ LET majority == IF Len(order) = 1 THEN order[1] ELSE Majority(Clusters)
     IN  event' = [found      |-> TRUE,
                   clusters   |-> [i \in DOMAIN Clusters |-> byHash[Clusters[i]]],
                   hashes     |-> Clusters,
                   majority   |-> majority,
                   minority   |-> UNION {byHash[h] : h \in DOMAIN byHash \ {majority}},
                   unanswered |-> unanswered]
  /\ UNCHANGED <<obs, next, byHash, order, unanswered>>

ReturnWithMajority ==
  /\ next = N + 1
  /\ ~event.found
  /\ Len(order) >= 2
  /\ Majority(Clusters) # NoHash
  /\ event' = [found      |-> TRUE,
               clusters   |-> [i \in DOMAIN Clusters |-> byHash[Clusters[i]]],
               hashes     |-> Clusters,
               majority   |-> Majority(Clusters),
               minority   |-> UNION {byHash[h] : h \in DOMAIN byHash \ {Majority(Clusters)}},
               unanswered |-> unanswered]
  /\ UNCHANGED <<obs, next, byHash, order, unanswered>>

Return ==
  /\ next = N + 1
  /\ ~event.found
  /\ Len(order) >= 2    \* at least two hashes, hence at least two answers
  /\ LET majority == Majority(Clusters)
     IN  event' = [found      |-> TRUE,
                   clusters   |-> [i \in DOMAIN Clusters |-> byHash[Clusters[i]]],
                   hashes     |-> Clusters,
                   majority   |-> majority,
                   minority   |-> UNION {byHash[h] : h \in DOMAIN byHash \ {majority}},
                   unanswered |-> unanswered]
  /\ UNCHANGED <<obs, next, byHash, order, unanswered>>

-----------------------------------------------------------------------------
(* The rows of an event in the incident table (DivergenceIncidents in      *)
(* internal/analysis/incident.go), in no order: Analyse sorts the table.   *)

\* The cluster endpoint e of the event is in.
ClusterOf(ev, e) == CHOOSE i \in DOMAIN ev.clusters : e \in ev.clusters[i]

TargetsOfMajority(ev) == IF ev.majority = NoHash THEN {} ELSE ev.minority
Targets(ev) ==
  IF ev.minority # {} THEN ev.minority
  ELSE UNION {ev.clusters[i] : i \in DOMAIN ev.clusters}

DivergenceIncidents(ev) ==
  {[endpoint |-> e,
    distinct |-> Len(ev.clusters),
    majority |-> ev.majority,
    served   |-> ev.hashes[ClusterOf(ev, e)]] : e \in Targets(ev)}

Next == Cluster \/ Return

Spec == Init /\ [][Next]_vars /\ WF_vars(Next)

-----------------------------------------------------------------------------
(* The reference: what an event is about, said of the observations alone.  *)
Voters(h) == {e \in Endpoint : obs[e].hash = h}
Cast == {obs[e].hash : e \in Endpoint} \ {NoHash}

(***************************************************************************)
(* An event names each endpoint exactly once, in the cluster of the hash   *)
(* it answered or among the unanswered, and is about a disagreement: a     *)
(* missing answer, or another spelling of the same hash, makes none.       *)
(* Clusters are listed by decreasing size and then by hash, so that the    *)
(* event is a function of the set of answers.                              *)
(***************************************************************************)
EventPartitionsEndpoints ==
  event.found =>
    /\ Cardinality(Cast) >= 2
    /\ {event.hashes[i] : i \in DOMAIN event.hashes} = Cast
    /\ Len(event.hashes) = Cardinality(Cast)
    /\ \A i \in DOMAIN event.hashes : event.clusters[i] = Voters(event.hashes[i])
    /\ event.unanswered = {e \in Endpoint : obs[e] = NoAnswer}
    /\ \A i, j \in DOMAIN event.hashes : i < j =>
         LET g == event.hashes[i]
             h == event.hashes[j]
         IN  \/ Cardinality(Voters(g)) > Cardinality(Voters(h))
             \/ Cardinality(Voters(g)) = Cardinality(Voters(h)) /\ g < h

(***************************************************************************)
(* The majority is the hash with more endpoints than any other, or no hash *)
(* when two are tied for most, and does not depend on the configuration    *)
(* order.  The minority is everyone who answered anything but the majority *)
(* hash; without a majority it is some of those who answered, everyone     *)
(* beyond the first cluster included.  It is left open whether the first   *)
(* cluster of an even split is in the minority: divergence.go:48-50 says   *)
(* it is not, divergence_test.go:77 and report.go:220 say it is.           *)
(* RowsShowDeviants states what the code does.                             *)
(***************************************************************************)
MajorityIsStrict ==
  event.found =>
    LET answered == {e \in Endpoint : Answered(obs[e])}
    IN  /\ event.majority \in Cast \cup {NoHash}
        /\ \A h \in Cast :
             event.majority = h <=>
               \A g \in Cast \ {h} : Cardinality(Voters(h)) > Cardinality(Voters(g))
        /\ event.minority \subseteq answered
        /\ event.majority # NoHash =>
             event.minority = {e \in answered : obs[e].hash # event.majority}
        /\ event.majority = NoHash =>
             {e \in answered : obs[e].hash # event.hashes[1]} \subseteq event.minority

(***************************************************************************)
(* The incident table accuses every endpoint whose hash does not have more *)
(* endpoints behind it than each other hash, with the hash it served, and  *)
(* nobody else; on a tie at the top that is everyone who answered.         *)
(***************************************************************************)
RowsShowDeviants ==
  event.found =>
    DivergenceIncidents(event) =
      {[endpoint |-> e,
        distinct |-> Cardinality(Cast),
        majority |-> event.majority,
        served   |-> obs[e].hash] :
          e \in {f \in Endpoint :
                  /\ Answered(obs[f])
                  /\ \E g \in Cast \ {obs[f].hash} :
                       Cardinality(Voters(g)) >= Cardinality(Voters(obs[f].hash))}}

(***************************************************************************)
(* Every disagreement is reported.                                         *)
(***************************************************************************)
DisagreementReported == Cardinality(Cast) >= 2 ~> event.found

=============================================================================
