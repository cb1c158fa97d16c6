-------------------------------- MODULE Maps -------------------------------
(* Maps as functions.                                                      *)

(* map.insert(k, v): a new entry, or a new value for an old key.           *)
Put(f, k, v) == [x \in DOMAIN f \union {k} |-> IF x = k THEN v ELSE f[x]]
============================================================================
