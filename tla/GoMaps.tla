------------------------------- MODULE GoMaps -------------------------------
(***************************************************************************)
(* Go's built-in maps: partial functions whose key set grows by assigning  *)
(* to a key.  `m[k] = v` is Put(m, k, v), `_, ok := m[k]` is k in DOMAIN m *)
(* and `map[K]V{}` is EmptyMap.                                            *)
(***************************************************************************)

IsMap(m, K, V) == DOMAIN m \subseteq K /\ m \in [DOMAIN m -> V]

EmptyMap == [k \in {} |-> k]

Put(m, k, v) == [x \in DOMAIN m \cup {k} |-> IF x = k THEN v ELSE m[x]]

=============================================================================
