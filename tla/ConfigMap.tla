----------------------------- MODULE ConfigMap -----------------------------
(***************************************************************************)
(* Configuration maps: case-insensitive keys (src/keys.go) and lookups     *)
(* along a path (src/configuration.go).                                    *)
(*                                                                         *)
(* A key is what it folds to and a casing.  It folds to the sequence of    *)
(* segments its dots separate: <<"a">> for "a" and "A", <<"a", "b">> for a *)
(* key with a literal dot in it, <<"">> for the empty string.  A map is a  *)
(* function from keys to values, a value is a leaf, a map or a list of     *)
(* values.                                                                 *)
(*                                                                         *)
(* The object a schema declares as a default is ONE map, assigned wherever *)
(* the default applies: such a map has an id, and all maps of a tree with  *)
(* one id are the same map.                                                *)
(*                                                                         *)
(* Go iterates over a map in random order, so an operation whose outcome   *)
(* may depend on the order is the SET of its possible outcomes.            *)
(***************************************************************************)
EXTENDS Naturals, Sequences, FiniteSets

Leaf(x) == [tag |-> "leaf", leaf |-> x]
Node(m) == [tag |-> "map", map |-> m, id |-> << >>]
List(s) == [tag |-> "list", list |-> s]
Missing == [tag |-> "missing"]
IsNode(v) == v.tag = "map"
IsList(v) == v.tag = "list"

\* The map of v after a change in place.
With(v, m) == [v EXCEPT !.map = m]

EmptyMap == [k \in {} |-> Missing]
Put(m, k, v) == [x \in DOMAIN m \cup {k} |-> IF x = k THEN v ELSE m[x]]
Without(m, k) == [x \in DOMAIN m \ {k} |-> m[x]]

\* The empty string has one casing.
Nameless == [fold |-> <<"">>, casing |-> "none"]
Key(segs, casing) == IF segs = Nameless.fold THEN Nameless ELSE [fold |-> segs, casing |-> casing]

\* Bug variant: the keys of a map are looked up with their case.
FindKeyExact(m, key) == {key} \cap DOMAIN m

\* findKeyFold: the keys of m it may return.  It returns "" when there is none, and
\* its callers take a key that is the empty string for none, too.
FindKeyFold(m, key) ==
    IF key.fold = Nameless.fold THEN {}
    ELSE IF key \in DOMAIN m THEN {key}
    ELSE {k \in DOMAIN m : k.fold = key.fold}

\* No two keys of m differ in case only; the empty string has no other casing.
FoldUniqueHere(m) == \A j, k \in DOMAIN m : j.fold = k.fold => j = k \/ k.fold = Nameless.fold

\* What a step of a lookup may find under a key of v: a value, or nothing.
Found(v, key) ==
    LET found == IF IsNode(v) THEN FindKeyFold(v.map, key) ELSE {} IN
    IF found = {} THEN {Missing} ELSE {v.map[k] : k \in found}

FoundIn(vs, key) == UNION {Found(v, key) : v \in vs}

\* lookupPath, for the segments of a path: one map after the other is looked into.
Along(m, keys) ==
    LET reached[n \in 0..Len(keys)] ==
            IF n = 0 THEN {Node(m)} ELSE FoundIn(reached[n - 1], keys[n])
    IN  reached[Len(keys)]
=============================================================================
