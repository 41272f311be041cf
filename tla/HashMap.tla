------------------------------ MODULE HashMap -------------------------------
(***************************************************************************)
(* The std::unordered_map operations the tracker's managers are written    *)
(* with.  A map is a function whose domain is the set of its keys, so that *)
(* "the key is absent" and "the key holds an empty value" stay distinct.   *)
(***************************************************************************)

EmptyMap == [k \in {} |-> {}]

\* m[k] = v: inserts the key when it is absent, overwrites it when it is there.
Put(m, k, v) == [x \in DOMAIN m \cup {k} |-> IF x = k THEN v ELSE m[x]]

\* m.erase(k)
Drop(m, k) == [x \in DOMAIN m \ {k} |-> m[x]]

\* What m[k] reads: operator[] default-constructs the value of an absent key.
Get(m, k, default) == IF k \in DOMAIN m THEN m[k] ELSE default

\* m maps some of the keys in K to values in V.
IsMap(m, K, V) == DOMAIN m \subseteq K /\ m \in [DOMAIN m -> V]
=============================================================================
