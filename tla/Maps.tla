-------------------------------- MODULE Maps --------------------------------
(********************************************************************)
(* Finite maps, as functions on the keys they hold: what the code's *)
(* std::map and OpenHashMap keep.  A record is one, of its fields.  *)
(********************************************************************)

(* m[key] = value, whether the key is there or not. *)
Put(m, key, value) == [k \in DOMAIN m \cup {key} |-> IF k = key THEN value ELSE m[k]]

(* What m and more hold, more where both have the key. *)
Extended(m, more) == [k \in DOMAIN m \cup DOMAIN more |-> IF k \in DOMAIN more THEN more[k] ELSE m[k]]

(* m.erase(key). *)
Without(m, key) == [k \in DOMAIN m \ {key} |-> m[k]]
=============================================================================
