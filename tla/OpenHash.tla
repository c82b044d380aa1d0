------------------------------ MODULE OpenHash ------------------------------
(**************************************************************************)
(* include/hotpath/core/open_hash.hpp: a table of slots that never grows, *)
(* probed linearly from a key's home slot, with deletion by shifting the  *)
(* entries behind the gap back into it.                                   *)
(*                                                                        *)
(* The hash is any function from keys to home slots, chosen once; what an *)
(* empty slot's value field still holds is never read and not kept.       *)
(**************************************************************************)
EXTENDS Integers, FiniteSets, FiniteSetsExt

CONSTANTS TableSize,  \* capacity_pow2
          Keys,       \* order reference numbers, of which none is 0
          Values,
          Homes       \* the home slots the hash gives (a bound)

kEmpty == 0
Blank == [key |-> kEmpty, value |-> kEmpty]
Index == 0..(TableSize - 1)

(* The constructor throws for a capacity that is not a power of two. *)
ASSUME TableAssumption == /\ TableSize \in Nat \ {0} /\ \E k \in 0..TableSize : TableSize = 2^k
                          /\ Keys \subseteq Nat \ {kEmpty} /\ Homes \subseteq Index

VARIABLES home,       \* hash(key) & mask_
          slots, size,
          refused     \* the key the last operation was asked to insert and did not

tableVars == <<home, slots, size, refused>>

(* Keys can be renamed, so hashes that order their homes differently need not *)
(* be told apart.                                                             *)
TableInit ==
    /\ home \in {f \in [Keys -> Homes] : \A k, l \in Keys : k < l => f[k] <= f[l]}
    /\ slots = [i \in Index |-> Blank]
    /\ size = 0 /\ refused = kEmpty

(* Where the loops of find, insert and erase stop: the first slot from the *)
(* key's home on, around the end, that holds the key or nothing.           *)
After(i, n) == (i + n) % TableSize
Probe(key) ==
    After(home[key], Min({n \in Index : slots[After(home[key], n)].key \in {key, kEmpty}}))

Has(key) == slots[Probe(key)].key = key

Find(key) == slots[Probe(key)].value

(* Seeded fault: the limit is checked on entry, as it once was. *)
RoomOnEntry(key) == size + 1 <= (TableSize * 7) \div 10

(* The limit applies to occupying a new slot. *)
Room(key) == Has(key) \/ size + 1 <= (TableSize * 7) \div 10

Insert(key, value) ==
    /\ slots' = IF Room(key) THEN [slots EXCEPT ![Probe(key)] = [key |-> key, value |-> value]]
                ELSE slots
    /\ size' = IF Room(key) /\ ~Has(key) THEN size + 1 ELSE size
    /\ refused' = IF Room(key) THEN kEmpty ELSE key
    /\ UNCHANGED home

(* Seeded fault: the interval is never taken to wrap around the end. *)
StaysUnwrapped(gap, ideal, j) == gap < ideal /\ ideal <= j

(* The entry at j stays when its ideal slot is cyclically inside (gap, j]. *)
Stays(gap, ideal, j) == IF gap <= j THEN gap < ideal /\ ideal <= j
                        ELSE gap < ideal \/ ideal <= j

(* erase's second loop: from the slot of the erased key on, up to an empty one,    *)
(* every entry that may not stay moves into the gap and leaves its own.  One turn: *)
Shift(before, j) ==
    LET entry == before.slots[j] IN
    IF before.done \/ entry.key = kEmpty THEN [before EXCEPT !.done = TRUE]
    ELSE IF Stays(before.gap, home[entry.key], j) THEN before
    ELSE [before EXCEPT !.slots[before.gap] = entry, !.gap = j]

Closed(start) ==
    LET walk[n \in 0..TableSize] ==
          IF n = 0 THEN [slots |-> slots, gap |-> start, done |-> FALSE]
          ELSE Shift(walk[n - 1], After(start, n))
    IN [walk[TableSize].slots EXCEPT ![walk[TableSize].gap] = Blank]

Erase(key) == /\ slots' = IF Has(key) THEN Closed(Probe(key)) ELSE slots
              /\ size' = IF Has(key) THEN size - 1 ELSE size
              /\ refused' = kEmpty
              /\ UNCHANGED home

Clear == /\ slots' = [i \in Index |-> Blank] /\ size' = 0 /\ refused' = kEmpty
         /\ UNCHANGED home

TableNext ==
    \/ \E key \in Keys, value \in Values : Insert(key, value)
    \/ \E key \in Keys : Erase(key)
    \/ Clear

TableSpec == TableInit /\ [][TableNext]_tableVars

-----------------------------------------------------------------------------
(* Probe loops end: the table never fills, because size counts its entries    *)
(* exactly and is held to the load limit.  And they end where they should: no *)
(* deletion strands a key behind an empty slot on the way from its home.      *)
ProbesEnd == /\ size = Cardinality({i \in Index : slots[i].key # kEmpty})
             /\ \E i \in Index : slots[i].key = kEmpty
             /\ size <= (TableSize * 7) \div 10
             /\ \A i \in Index : slots[i].key # kEmpty => Probe(slots[i].key) = i

(* Whatever collides, the table is the bounded map: find agrees with it, an *)
(* insert of a new key is refused exactly at the limit, an update never.    *)
Map == INSTANCE BoundedMap
       WITH Limit <- (TableSize * 7) \div 10,
            entries <- [key \in {k \in Keys : Has(k)} |-> Find(key)]
ImplementsMap == Map!Spec
=============================================================================
