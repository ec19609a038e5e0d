-------------------------------- MODULE Maps ---------------------------------
(* Finite maps, as functions whose domain is the set of their keys. *)

\* The map with one more key, or another value for a key it has.
With(map, key, value) ==
  [k \in DOMAIN map \cup {key} |-> IF k = key THEN value ELSE map[k]]

\* The map without one key.
Without(map, key) == [k \in DOMAIN map \ {key} |-> map[k]]

\* Two maps as one; the first wins where both have a key.
Joined(f, g) ==
  [k \in DOMAIN f \cup DOMAIN g |-> IF k \in DOMAIN f THEN f[k] ELSE g[k]]
=============================================================================
