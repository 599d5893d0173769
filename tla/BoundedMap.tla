----------------------------- MODULE BoundedMap -----------------------------
(***************************************************************************)
(* A JavaScript Map used as a bounded memory: a key that is set again      *)
(* moves to the end of the insertion order, and past the cap the first key *)
(* of that order goes.  The alerter's cooldown clocks, the first-seen      *)
(* tracker and the diagnosis cache are three of them.  Such a map is the   *)
(* sequence of its entries in insertion order.                             *)
(***************************************************************************)
EXTENDS Naturals, SequencesExt

Empty == <<>>

Holds(map, key) == \E i \in DOMAIN map : map[i].key = key

Position(map, key) == CHOOSE i \in DOMAIN map : map[i].key = key

(* The time stored for a key the map holds.                                *)
At(map, key) == map[Position(map, key)].at

Without(map, key) ==
  IF Holds(map, key) THEN RemoveAt(map, Position(map, key)) ELSE map

(* The entries whose keys are in keys, the others deleted.                 *)
Retain(map, keys) ==
  LET kept   == {i \in DOMAIN map : map[i].key \in keys}
      Nth(n) == CHOOSE i \in kept : Cardinality({j \in kept : j < i}) = n - 1
  IN  [n \in 1 .. Cardinality(kept) |-> map[Nth(n)]]

(* set() after delete(), then the eviction loop: it has at most one turn,  *)
(* since the map was within its cap.                                       *)
Put(map, key, at, cap) ==
  LET grown == Append(Without(map, key), [key |-> key, at |-> at])
  IN  IF Len(grown) > cap THEN Tail(grown) ELSE grown

=============================================================================
