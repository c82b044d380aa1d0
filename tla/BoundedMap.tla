---------------------------- MODULE BoundedMap ----------------------------
(***************************************************************************)
(* What OpenHashMap promises the books and the routing index: a map from   *)
(* order references to values that takes a limited number of keys and says *)
(* so when it will not take another.  OpenHash implements this module.     *)
(***************************************************************************)
EXTENDS Naturals, FiniteSets, Maps

CONSTANTS Keys,       \* order reference numbers
          Values,
          Limit,      \* how many keys it takes, a number
          kEmpty      \* no key

VARIABLES entries,    \* the value of each key that is in the map
          refused     \* the key whose insertion was the last operation and failed, or kEmpty

vars == <<entries, refused>>

(* An update of a key that is present is never refused. *)
Room(m, key) == key \in DOMAIN m \/ Cardinality(DOMAIN m) < Limit

With(m, key, value) == IF Room(m, key) THEN Put(m, key, value) ELSE m

Init == entries = << >> /\ refused = kEmpty

Insert(key, value) == /\ entries' = With(entries, key, value)
                      /\ refused' = IF Room(entries, key) THEN kEmpty ELSE key

Erase(key) == entries' = Without(entries, key) /\ refused' = kEmpty

Clear == entries' = << >> /\ refused' = kEmpty

Next == \/ \E key \in Keys : Erase(key) \/ \E value \in Values : Insert(key, value)
        \/ Clear

Spec == Init /\ [][Next]_vars
=============================================================================
