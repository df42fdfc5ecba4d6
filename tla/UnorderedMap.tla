---------------------------- MODULE UnorderedMap ----------------------------
(***************************************************************************)
(* The two operations of std::unordered_map that the file tracker uses. A  *)
(* map is a function whose domain is the set of keys present.              *)
(***************************************************************************)

EmptyMap == [k \in {} |-> k]

\* unordered_map::insert: a key that is already present keeps its old value.
Insert(map, k, v) ==
  IF k \in DOMAIN map
  THEN map
  ELSE [x \in DOMAIN map \cup {k} |-> IF x = k THEN v ELSE map[x]]

\* unordered_map::erase.
Erase(map, k) == [x \in DOMAIN map \ {k} |-> map[x]]

IsMap(map, K, V) == /\ DOMAIN map \subseteq K
                    /\ map \in [DOMAIN map -> V]
=============================================================================
