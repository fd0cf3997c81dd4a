----------------------------- MODULE ConfigTree -----------------------------
(***************************************************************************)
(* The operations on configuration maps: case-insensitive keys             *)
(* (src/keys.go), lookups by dotted path and in the elements of arrays     *)
(* (src/configuration.go), Set, Delete, Walk and the changes of elements   *)
(* (src/configurable.go), deepMerge (src/synthra.go) and the defaults of a *)
(* JSON Schema (src/schema.go).                                            *)
(***************************************************************************)
EXTENDS ConfigMap

First(path) == Key(<<Head(path.segs)>>, path.casing)
Rest(path) == [path EXCEPT !.segs = Tail(@)]

\* Every value in the tree.
RECURSIVE ValuesIn(_)
ValuesIn(v) == {v} \cup IF IsNode(v) THEN UNION {ValuesIn(v.map[k]) : k \in DOMAIN v.map}
                      ELSE IF IsList(v) THEN UNION {ValuesIn(v.list[i]) : i \in DOMAIN v.list}
                      ELSE {}
Within(m) == UNION {ValuesIn(m[k]) : k \in DOMAIN m}

\* new is a change of the tree old in one place; the change of a map with an id is
\* made wherever that map is.
RECURSIVE Refreshed(_, _)
Refreshed(v, changed) ==
    LET now == IF IsNode(v) /\ \E c \in changed : c.id = v.id
               THEN CHOOSE c \in changed : c.id = v.id ELSE v
    IN  IF IsNode(now) THEN With(now, [k \in DOMAIN now.map |-> Refreshed(now.map[k], changed)])
        ELSE IF IsList(now) THEN List([i \in DOMAIN now.list |-> Refreshed(now.list[i], changed)])
        ELSE now
SharedIn(m) == {v \in Within(m) : IsNode(v) /\ v.id # << >>}
Agree(old, new) ==
    LET changed == {v \in SharedIn(new) \ SharedIn(old) : \E o \in SharedIn(old) : o.id = v.id}
    IN  IF changed = {} THEN new ELSE [k \in DOMAIN new |-> Refreshed(new[k], changed)]

\* No map of the tree has two keys that differ in case only.
FoldUnique(m) == FoldUniqueHere(m) /\ \A v \in Within(m) : IsNode(v) => FoldUniqueHere(v.map)

-----------------------------------------------------------------------------
(* lookupPath: a literal top-level key is tried before the segments.       *)

KeysOf(path) == [i \in 1..Len(path.segs) |-> Key(<<path.segs[i]>>, path.casing)]

Descend(m, path) == Along(m, KeysOf(path))

Lookup(m, path) ==
    LET literal == FindKeyFold(m, Key(path.segs, path.casing)) IN
    IF literal # {} THEN {m[k] : k \in literal} ELSE Descend(m, path)

\* The sequences of keys along which a lookup of path may find something.
RECURSIVE SegmentRoutes(_, _)
SegmentRoutes(m, path) ==
    LET found == FindKeyFold(m, First(path)) IN
    IF Len(path.segs) = 1 THEN {<<k>> : k \in found}
    ELSE UNION {{<<k>> \o r : r \in SegmentRoutes(m[k].map, Rest(path))}
                  : k \in {k \in found : IsNode(m[k])}}

Routes(m, path) ==
    LET literal == FindKeyFold(m, Key(path.segs, path.casing)) IN
    IF literal # {} THEN {<<k>> : k \in literal} ELSE SegmentRoutes(m, path)

RECURSIVE ValueAt(_, _)
ValueAt(m, route) == IF Len(route) = 1 THEN m[route[1]] ELSE ValueAt(m[route[1]].map, Tail(route))

RECURSIVE PutAt(_, _, _)
PutAt(m, route, v) ==
    Put(m, route[1], IF Len(route) = 1 THEN v
                     ELSE With(m[route[1]], PutAt(m[route[1]].map, Tail(route), v)))

-----------------------------------------------------------------------------
(* Configurable.Set and Delete walk the segments only.  They never try the *)
(* literal key.                                                            *)

RECURSIVE SetAt(_, _, _)
SetAt(m, path, v) ==
    LET found == FindKeyFold(m, First(path))
        targets == IF found = {} THEN {First(path)} ELSE found
    IN  IF Len(path.segs) = 1
        THEN {[ok |-> TRUE, map |-> Put(m, k, v)] : k \in targets}
        ELSE IF found = {}
        THEN {[ok |-> r.ok, map |-> Put(m, First(path), Node(r.map))]
                : r \in SetAt(EmptyMap, Rest(path), v)}
        ELSE UNION {IF IsNode(m[k])
                    THEN {[ok |-> r.ok, map |-> Put(m, k, With(m[k], r.map))]
                            : r \in SetAt(m[k].map, Rest(path), v)}
                    ELSE {[ok |-> FALSE, map |-> m]}
                    : k \in found}

RECURSIVE DeleteAt(_, _)
DeleteAt(m, path) ==
    LET found == FindKeyFold(m, First(path)) IN
    IF found = {} THEN {[ok |-> FALSE, map |-> m]}
    ELSE IF Len(path.segs) = 1 THEN {[ok |-> TRUE, map |-> Without(m, k)] : k \in found}
    ELSE UNION {IF IsNode(m[k])
                THEN {[ok |-> r.ok, map |-> Put(m, k, With(m[k], r.map))]
                        : r \in DeleteAt(m[k].map, Rest(path))}
                ELSE {[ok |-> FALSE, map |-> m]}
                : k \in found}

-----------------------------------------------------------------------------
(* The elements of an array: EachMap and Find skip those that are no maps; *)
(* what they yield shares the map of the element.                          *)

SliceLen(v) == IF IsList(v) THEN Len(v.list) ELSE 0

EachMap(v) == {i \in 1..SliceLen(v) : IsNode(v.list[i])}

\* The first of the elements that the predicate accepts, or none.
FindFunc(v, accepted) ==
    LET hits == EachMap(v) \cap accepted IN {i \in hits : \A j \in hits : i <= j}

RECURSIVE SetElements(_, _, _, _, _)

\* Bug variant: the elements are copies.
SetElementsOfCopy(m, route, elems, path, v) == {m}

\* Set(path, v) on some elements, in order, of the list at the end of a route.
\* Bug variant: the wrapper of an element holds the parent's map.
SetElementsOfRoot(m, route, elems, path, v) == {r.map : r \in SetAt(m, path, v)}

SetElements(m, route, elems, path, v) ==
    IF elems = {} THEN {m}
    ELSE LET i == CHOOSE e \in elems : \A j \in elems : e <= j
             list == ValueAt(m, route).list
         IN  UNION {SetElements(Agree(m, PutAt(m, route, List([list EXCEPT ![i] = With(@, r.map)]))),
                                route, elems \ {i}, path, v)
                      : r \in SetAt(list[i].map, path, v)}

\* Walk: the callback f is a function from the values it replaces, a map being any
\* map, to the replacements.  It goes on in what it put there, and ends unless that
\* is replaced for ever.
Kind(v) == IF IsNode(v) THEN [tag |-> "map"] ELSE IF IsList(v) THEN [tag |-> "list"] ELSE v

RECURSIVE WalkValue(_, _)
WalkMap(m, f) == [k \in DOMAIN m |-> WalkValue(m[k], f)]

\* Bug variant: it goes on in the value that was there.
WalkValueOld(v, f) ==
    IF Kind(v) \in DOMAIN f THEN f[Kind(v)]
    ELSE IF IsNode(v) THEN With(v, WalkMap(v.map, f))
    ELSE IF IsList(v) THEN List([i \in DOMAIN v.list |-> WalkValue(v.list[i], f)])
    ELSE v

WalkValue(v, f) ==
    LET now == IF Kind(v) \in DOMAIN f THEN f[Kind(v)] ELSE v IN
    IF IsNode(now) THEN With(now, WalkMap(now.map, f))
    ELSE IF IsList(now) THEN List([i \in DOMAIN now.list |-> WalkValue(now.list[i], f)])
    ELSE now

-----------------------------------------------------------------------------
(* deepMerge, one key of src after the other in any order                  *)

RECURSIVE MergeFrom(_, _, _)

DeepMerge(dst, src) == MergeFrom(dst, src, DOMAIN src)

\* Bug variant: the key is looked up with its case.
MergeKeyExact(dst, k, v) ==
    IF k \in DOMAIN dst /\ IsNode(v) /\ IsNode(dst[k])
    THEN {Put(dst, k, Node(n)) : n \in DeepMerge(dst[k].map, v.map)}
    ELSE {Put(dst, k, v)}

MergeKey(dst, k, v) ==
    LET found == FindKeyFold(dst, k) IN
    IF found = {}
    THEN IF IsNode(v) THEN {Put(dst, k, Node(n)) : n \in DeepMerge(EmptyMap, v.map)}
                      ELSE {Put(dst, k, v)}
    ELSE UNION {IF IsNode(v) /\ IsNode(dst[d])
                THEN {Put(dst, d, Node(n)) : n \in DeepMerge(dst[d].map, v.map)}
                ELSE {Put(dst, d, v)}
                : d \in found}

MergeFrom(dst, src, keys) ==
    IF keys = {} THEN {dst}
    ELSE UNION {UNION {MergeFrom(d, src, keys \ {k}) : d \in MergeKey(dst, k, src[k])}
                : k \in keys}

-----------------------------------------------------------------------------
(* schemaStep: a schema has properties, each with a default (or Missing)   *)
(* and a schema of its own, and perhaps a schema for the keys that match   *)
(* the pattern of its patternProperties, and one for the items of an       *)
(* array.  No two of its keys differ in case only.                         *)

\* pattern, items: at most one schema
NoSchema == [props |-> EmptyMap, pattern |-> << >>, items |-> << >>]

\* compileJSONSchema: every run of the step makes its own objects of the defaults;
\* their place in the schema is the rest of their ids.
RECURSIVE Compiled(_, _)
Compiled(schema, at) ==
    LET Below(key) == Append(at, key)
        Word(w) == Key(<<w>>, "lower")
        Identified(v, id) == IF IsNode(v) THEN [v EXCEPT !.id = id] ELSE v
    IN  [props |-> [c \in DOMAIN schema.props |->
                      [default |-> Identified(schema.props[c].default, Below(c)),
                       schema |-> Compiled(schema.props[c].schema, Below(c))]],
         pattern |-> [i \in DOMAIN schema.pattern |->
                      Compiled(schema.pattern[i], Below(Word("patternProperties")))],
         items |-> [i \in DOMAIN schema.items |->
                      Compiled(schema.items[i], Below(Word("items")))]]

\* The list v with new contents in its maps.
MapElements(v, maps) ==
    List([i \in DOMAIN v.list |-> IF i \in EachMap(v) THEN With(v.list[i], maps[i]) ELSE v.list[i]])

RECURSIVE CanonicalizeFrom(_, _, _)

\* Keys take the casing of "properties"; patternProperties are not entered.
Canonicalize(m, schema) == CanonicalizeFrom(m, schema, DOMAIN schema.props)

CanonicalizeValue(v, schema) ==
    IF IsNode(v) THEN With(v, Canonicalize(v.map, schema))
    ELSE IF IsList(v) /\ schema.items # << >>
    THEN MapElements(v, [i \in EachMap(v) |-> Canonicalize(v.list[i].map, schema.items[1])])
    ELSE v

CanonicalizeKey(m, schema, c) ==
    LET found == FindKeyFold(m, c)
        a == CHOOSE k \in found : TRUE
    IN  IF found = {} THEN m
        ELSE Put(Without(m, a), c, CanonicalizeValue(m[a], schema.props[c].schema))

CanonicalizeFrom(m, schema, keys) ==
    IF keys = {} THEN m
    ELSE LET c == CHOOSE k \in keys : TRUE
         IN  CanonicalizeFrom(CanonicalizeKey(m, schema, c), schema, keys \ {c})

RECURSIVE ApplyDefaults(_, _)

\* A missing key gets its default; then the object its own properties build, if
\* that has any key.
DefaultFor(prop) ==
    LET nested == ApplyDefaults(EmptyMap, prop.schema) IN
    IF DOMAIN prop.schema.props # {} /\ DOMAIN nested # {} THEN Node(nested)
    ELSE prop.default

\* applySchemaDefaults or applyItemDefaults, for a value that is there.
ApplyToValue(v, schema) ==
    IF IsNode(v) THEN With(v, ApplyDefaults(v.map, schema))
    ELSE IF IsList(v) /\ schema.items # << >>
    THEN MapElements(v, [i \in EachMap(v) |-> ApplyDefaults(v.list[i].map, schema.items[1])])
    ELSE v

\* Bug variant: a scalar gives way to the default too.
ApplyPropertyOverrides(m, c, prop) ==
    IF c \in DOMAIN m /\ IsNode(m[c])
    THEN Put(m, c, ApplyToValue(m[c], prop.schema))
    ELSE IF DefaultFor(prop) # Missing THEN Put(m, c, DefaultFor(prop)) ELSE m

\* Bug variant: a map that is there is not entered.
ApplyPropertyShallow(m, c, prop) ==
    IF c \in DOMAIN m \/ DefaultFor(prop) = Missing THEN m
    ELSE Put(m, c, DefaultFor(prop))

ApplyProperty(m, c, prop) ==
    IF c \notin DOMAIN m
    THEN IF DefaultFor(prop) = Missing THEN m ELSE Put(m, c, DefaultFor(prop))
    ELSE Put(m, c, ApplyToValue(m[c], prop.schema))

ApplyProperties(m, schema) ==
    [k \in DOMAIN m \cup {c \in DOMAIN schema.props :
                            c \in DOMAIN ApplyProperty(m, c, schema.props[c])} |->
        IF k \in DOMAIN schema.props THEN ApplyProperty(m, k, schema.props[k])[k]
                                     ELSE m[k]]

\* The pattern matches every key; a value that is no map is replaced by one.
ApplyPattern(m, schema) ==
    IF schema.pattern = << >> THEN m
    ELSE [k \in DOMAIN m |-> ApplyToValue(IF IsNode(m[k]) THEN m[k] ELSE Node(EmptyMap),
                                          schema.pattern[1])]

ApplyDefaults(m, schema) == ApplyPattern(ApplyProperties(m, schema), schema)
=============================================================================
