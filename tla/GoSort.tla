------------------------------- MODULE GoSort -------------------------------
(***************************************************************************)
(* What the functions of Go's package sort return, said by counting: the   *)
(* i-th element is the one that i - 1 others come before.                  *)
(***************************************************************************)
EXTENDS Integers, FiniteSets

\* The elements of DOMAIN before in order, before[x] being those before x.
Arranged(before) ==
  LET rank == [x \in DOMAIN before |-> Cardinality(before[x])]
  IN  [i \in 1 .. Cardinality(DOMAIN before) |->
         CHOOSE x \in DOMAIN before : rank[x] = i - 1]

\* sort.SliceStable over numbered elements: those of less[x] come before x,
\* and of two that neither does the one with the lower number.
Stable(less) ==
  [x \in DOMAIN less |-> less[x] \cup {y \in DOMAIN less : y < x /\ x \notin less[y]}]

StableOrder(less) == Arranged(Stable(less))

\* The sequence s sorted by Less.
StableSort(s, Less(_, _)) ==
  LET order == StableOrder([i \in DOMAIN s |-> {k \in DOMAIN s : Less(s[k], s[i])}])
  IN  [i \in DOMAIN s |-> s[order[i]]]

=============================================================================
