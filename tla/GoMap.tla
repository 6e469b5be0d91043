------------------------------- MODULE GoMap -------------------------------
(***************************************************************************)
(* Go maps, as partial functions: a key that was never assigned, or was    *)
(* deleted, is outside the domain ("v, ok := m[k]" has ok = FALSE).        *)
(***************************************************************************)

EmptyMap == [k \in {} |-> k]

\* The maps whose keys are in K and whose values are in V.
IsMap(m, K, V) == DOMAIN m \subseteq K /\ m \in [DOMAIN m -> V]

\* m[k] = v
Put(m, k, v) == [x \in DOMAIN m \cup {k} |-> IF x = k THEN v ELSE m[x]]

\* delete(m, k)
Del(m, k) == [x \in DOMAIN m \ {k} |-> m[x]]

=============================================================================
