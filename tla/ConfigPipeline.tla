--------------------------- MODULE ConfigPipeline ---------------------------
(***************************************************************************)
(* The map of one Load on its way through the pipeline: the sources are    *)
(* merged one after the other (src/synthra.go:213-231), then schema steps  *)
(* and transforms, which call Set and Delete, change it.  Readers look it  *)
(* up.  The steps of the merge are in MapSteps.                            *)
(***************************************************************************)
EXTENDS EnvVarSource

CONSTANTS
    SourceTrees(_),    \* what source i may return
    Environments,      \* sets of variables the environment source may find
    Schemas,           \* schemas a schema step may use
    Paths,             \* paths the transforms and the readers use
    ElementPaths,      \* paths at which they look for arrays
    Fields,            \* paths they use in the elements of arrays
    Callbacks,         \* what the transforms give to Walk
    MaxElements,       \* bound on the indices of the elements readers look at
    ClassOf(_),        \* the class of a leaf: "null", or another
    MaxSources,        \* bound on the number of sources
    MaxOps             \* bound on the number of sources and steps together

ASSUME BoundsAssumption == MaxSources \in Nat /\ MaxOps \in Nat /\ MaxElements \in Nat
ASSUME SourcesFoldUnique ==
    \A i \in 1..MaxSources : \A s \in SourceTrees(i) : FoldUnique(s)
ASSUME NamesAssumption == \A names \in Environments : \A n \in names : IsName(n)

VARIABLES
    values,   \* newValues
    merged,   \* number of sources merged
    steps,    \* number of steps run
    last      \* history: the last operation and its input

vars == <<values, merged, steps, last>>

SetValue == Leaf(<<"set">>)

Op(name, input) == [op |-> name, input |-> input]
NoOp == Op("none", << >>)

Init ==
    /\ values = EmptyMap
    /\ merged = 0
    /\ steps = 0
    /\ last = NoOp

MoreSources == steps = 0 /\ merged < MaxSources /\ merged < MaxOps

\* The next source returns tree s, which is merged.
Merge(s, name, input) ==
    /\ values' \in DeepMerge(values, s)
    /\ last' = Op(name, input)
    /\ merged' = merged + 1
    /\ UNCHANGED steps

MergeSource == MoreSources /\ \E s \in SourceTrees(merged + 1) : Merge(s, "merge", s)

MergeEnvironment == MoreSources /\ \E names \in Environments : Merge(Decode(names), "env", names)

StepsMayRun == merged > 0 /\ merged + steps < MaxOps

\* The schema's own validation only accepts or rejects the result.
SchemaStep ==
    /\ StepsMayRun
    /\ \E schema \in Schemas :
        /\ values' = Agree(values, ApplyDefaults(Canonicalize(values, schema),
                                                Compiled(schema, <<steps>>)))
        /\ last' = Op("schema", schema)
    /\ steps' = steps + 1
    /\ UNCHANGED merged

SetStep ==
    /\ StepsMayRun
    /\ \E p \in Paths : \E r \in SetAt(values, p, SetValue) :
        /\ values' = Agree(values, r.map)
        /\ last' = Op("set", p)
    /\ steps' = steps + 1
    /\ UNCHANGED merged

DeleteStep ==
    /\ StepsMayRun
    /\ \E p \in Paths : \E r \in DeleteAt(values, p) :
        /\ values' = Agree(values, r.map)
        /\ last' = Op("delete", p)
    /\ steps' = steps + 1
    /\ UNCHANGED merged

\* What StringOr(field, "") may return.
StringAt(m, field) ==
    {IF v.tag = "leaf" /\ ClassOf(v.leaf) # "null" THEN v.leaf ELSE << >> : v \in Lookup(m, field)}

\* The element whose string at the field is match; "" is that of an element without it.
Find(v, field, match) ==
    FindFunc(v, {i \in EachMap(v) : match \in StringAt(v.list[i].map, field)})

\* A transform calls Set(field, ...) on every map EachMap yields, or on the one Find
\* returns for a string the field may have.
ElementStep ==
    /\ StepsMayRun
    /\ \E p \in ElementPaths, field \in Fields : \E route \in Routes(values, p) :
        LET v == ValueAt(values, route)
            matches == UNION {StringAt(v.list[i].map, field) : i \in EachMap(v)}
        IN  \E elems \in {EachMap(v)} \cup {Find(v, field, match) : match \in matches} :
                /\ elems # {}
                /\ values' \in SetElements(values, route, elems, field, SetValue)
                /\ last' = Op("elements", [path |-> p, field |-> field, elems |-> elems])
    /\ steps' = steps + 1
    /\ UNCHANGED merged

WalkStep ==
    /\ StepsMayRun
    /\ \E f \in Callbacks :
        /\ values' = Agree(values, WalkMap(values, f))
        /\ last' = Op("walk", f)
    /\ steps' = steps + 1
    /\ UNCHANGED merged

\* The Load is over; the next one starts from an empty map.
Restart ==
    /\ merged > 0
    /\ values' = EmptyMap
    /\ merged' = 0
    /\ steps' = 0
    /\ last' = NoOp

Next == \/ MergeSource \/ MergeEnvironment
        \/ SchemaStep \/ SetStep \/ DeleteStep \/ ElementStep \/ WalkStep
        \/ Restart

Spec == Init /\ [][Next]_vars

-----------------------------------------------------------------------------
(* What a reader sees at a path: a leaf, some map, a list of those, or     *)
(* nothing; and at a path of an element.                                   *)

Seen(v) == IF IsList(v) THEN List([i \in DOMAIN v.list |-> Kind(v.list[i])]) ELSE Kind(v)
SeenAt(m, p) == {Seen(v) : v \in Lookup(m, p)}
Proper(p) == {[p EXCEPT !.segs = SubSeq(@, 1, n)] : n \in 1..(Len(p.segs) - 1)}

\* elem: an index, and field the path in the element; or 0.
Readings == {[path |-> p, elem |-> 0, field |-> p] : p \in Paths} \cup
            [path : ElementPaths, elem : 1..MaxElements, field : Fields]
Read(m, r) ==
    IF r.elem = 0 THEN SeenAt(m, r.path)
    ELSE UNION {IF r.elem \in EachMap(v) THEN SeenAt(v.list[r.elem].map, r.field) ELSE {Missing}
                  : v \in Lookup(m, r.path)}

\* A literal key of the map is spelled like the nested path: Get prefers it, while
\* Set, Delete and the merge of nested maps never look at it.
Hidden(m, p) == Len(p.segs) > 1 /\ FindKeyFold(m, Key(p.segs, p.casing)) # {}

Merged == merged' > merged
Stepped(op) == steps' > steps /\ last'.op = op

\* A schema with a pattern puts an object in the place of the entry v.
Replaced(v, schema) == schema.pattern # << >> /\ ~IsNode(v)

\* The entry v has a key in another casing than the pattern's, which is not
\* canonicalized there.
CasingsClash(v, schema) ==
    /\ schema.pattern # << >> /\ IsNode(v)
    /\ \E k \in DOMAIN v.map, c \in DOMAIN schema.pattern[1].props : k.fold = c.fold /\ k # c

\* No operation makes two keys of one map that differ in case only, as long as no
\* source has such a pair: each finds the key that is there, whatever its casing
\* (src/keys.go:22-32), so that lookups do not depend on the order of iteration.
\* The defaults under patternProperties are the exception (src/schema.go:101).
KeysStayFoldUnique ==
    [][FoldUnique(values) =>
        \/ FoldUnique(values')
        \/ Stepped("schema") /\ \E k \in DOMAIN values : CasingsClash(values[k], last'.input)]_vars

Anyhow(path) == {[segs |-> path, casing |-> c] : c \in {p.casing : p \in Paths}}

\* Every variable of the environment overrides the earlier sources at its path, in
\* whatever casing they have it and whatever they have on the way; it is lost
\* only to a variable with the same path, inside it, or around it
\* (src/codec/env.go:47-78, src/synthra.go:184-205).
EveryVariableIsFound ==
    [][Merged /\ last'.op = "env" =>
        \A n \in last'.input :
            LET path == PathOf(n)
                rivals == {m \in last'.input \ {n} :
                             PathOf(m) = path \/ Inside(path, PathOf(m)) \/ Inside(PathOf(m), path)}
            IN  path # << >> /\ rivals = {} =>
                   \A p \in Anyhow(path) : Hidden(values, p) \/ Lookup(values', p) = {Leaf(n)}]_vars

\* Upper-case names with single underscores between their parts.
Usual(n) == \A i \in 1..Len(n) : IF i % 2 = 0 THEN n[i] = "_" ELSE n[i] \in {"A", "B"}

\* Among usual names, nested keys overwrite scalars, whatever the order of the
\* environment (src/codec/env.go:38-40).
NestedKeysWin ==
    [][Merged /\ last'.op = "env" /\ (\A n \in last'.input : Usual(n)) =>
        \A m, n \in last'.input : Inside(PathOf(n), PathOf(m)) =>
            \A p \in Anyhow(PathOf(n)) :
                Hidden(values, p) \/ SeenAt(values', p) = {[tag |-> "map"]}]_vars

\* Set fails: a segment on the way to p is there and is no map.
Blocked(m, p) == \E q \in Proper(p) : \E v \in Descend(m, q) : v.tag \in {"leaf", "list"}

\* What EachMap and Find yield are the elements of the parent: after a Set on each of
\* them a reader of the parent finds the value in these elements, and the array has
\* as many elements, and as many maps, as before (src/configurable.go:157-203).
ElementsReachTheParent ==
    [][Stepped("elements") =>
        LET in == last'.input IN
        \A new \in Lookup(values', in.path) : \A old \in Lookup(values, in.path) :
            FoldUnique(values) =>
                /\ SliceLen(new) = SliceLen(old) /\ EachMap(new) = EachMap(old)
                /\ \A i \in in.elems :
                     LET m == old.list[i].map IN
                     \/ Blocked(m, in.field) \/ Hidden(m, in.field)
                     \/ Lookup(new.list[i].map, in.field) = {SetValue}]_vars

\* The ids of the maps on the way to p, and to what a reader reads.
IdsOn(m, p) ==
    {v.id : v \in {ValueAt(m, route) : route \in UNION {SegmentRoutes(m, q) : q \in Proper(p) \cup {p}}}
              \cap SharedIn(m)}
Ids(m, r) ==
    IdsOn(m, r.path) \cup
    UNION {IF r.elem \in EachMap(v) THEN IdsOn(v.list[r.elem].map, r.field) ELSE {} : v \in Lookup(m, r.path)}

Related(p, q) == LET n == IF Len(p.segs) < Len(q.segs) THEN Len(p.segs) ELSE Len(q.segs)
                 IN  SubSeq(p.segs, 1, n) = SubSeq(q.segs, 1, n)

\* The readings at which the last step wrote.
WrittenAt(r) ==
    IF last'.op = "elements"
    THEN LET in == last'.input IN
         /\ r.path.segs = in.path.segs /\ r.elem \in in.elems /\ Related(r.field, in.field)
    ELSE Related(r.path, last'.input)

\* Set, Delete and the changes of elements change what is read at their place and
\* nowhere else, but for one case: the schema step put ONE map, its default, at both
\* places (src/schema.go:48), and then they stay the same for ever.
ChangesStayLocal ==
    [][last'.op \in {"set", "delete", "elements"} /\ steps' > steps /\ FoldUnique(values) =>
        \A r \in Readings :
            \/ WrittenAt(r)
            \/ Read(values', r) = Read(values, r)
            \/ \E w \in Readings : WrittenAt(w) /\ Ids(values, w) \cap Ids(values, r) # {}]_vars

\* Walk leaves nothing its callback replaces, in maps and in arrays, at any depth, and
\* in what the callback itself put there; and a leaf the callback does not
\* replace is still read at its path (src/configurable.go:113-155).
WalkIsComplete ==
    [][Stepped("walk") =>
        LET f == last'.input IN
        /\ \A v \in Within(values') : Kind(v) \notin DOMAIN f
        /\ FoldUnique(values) /\ [tag |-> "map"] \notin DOMAIN f =>
            \A r \in Readings : \A v \in Read(values, r) :
                v.tag = "leaf" /\ v \notin DOMAIN f => Read(values', r) = {v}]_vars

\* The entry of the root map through which a lookup of p goes.
Entry(m, p) == FindKeyFold(m, IF Hidden(m, p) THEN Key(p.segs, p.casing) ELSE First(p))

\* The same reading in any casing.
AnyCasing(r) ==
    {x \in Readings : x.path.segs = r.path.segs /\ x.elem = r.elem /\ x.field.segs = r.field.segs}

\* The defaults of a schema fill gaps: whatever a source or a step wrote is still
\* read at its path after the schema step (src/schema.go:26-105).  Under a pattern
\* there are two exceptions: an entry that is no object is replaced by one (:97), and
\* where an object spells a key as the pattern does not, the value is still read in
\* its own casing, but no longer in every one (:101).
DefaultsKeepValues ==
    [][Stepped("schema") /\ FoldUnique(values) =>
        \A r \in Readings :
            \/ Read(values, r) \in {{Missing}, Read(values', r)}
            \/ \E k \in Entry(values, r.path) :
                \/ Replaced(values[k], last'.input)
                \/ /\ CasingsClash(values[k], last'.input)
                   /\ \E x \in AnyCasing(r) : Read(values, r) \subseteq Read(values', x)]_vars

\* Everything a default says is in v.
Says(v, default) ==
    IF IsNode(default) /\ IsNode(v)
    THEN \A k \in DOMAIN default.map : k \in DOMAIN v.map /\ v.map[k] = default.map[k]
    ELSE v = default

\* m has a value for every property of schema with a default.
Filled(m, schema) ==
    \A d \in DOMAIN schema.props : schema.props[d].default # Missing => d \in DOMAIN m

\* The gaps are filled, with everything the defaults say and at every level:
\* after the schema step a property that was absent has its default, and each
\* object that is there has every property with a default, also those a pattern
\* speaks of and the elements of an array (src/schema.go:26-120, options.go:512-522).  A default for an object
\* whose properties have defaults too is the exception: it is replaced by theirs.
DefaultsFillGaps ==
    [][Stepped("schema") /\ FoldUnique(values) =>
        LET schema == last'.input IN
        /\ \A c \in DOMAIN schema.props :
            LET prop == schema.props[c] IN
            /\ prop.default # Missing /\ FindKeyFold(values, c) = {} =>
                c \in DOMAIN values'
                /\ (DOMAIN prop.schema.props = {} => Says(values'[c], prop.default))
            /\ c \in DOMAIN values' /\ IsNode(values'[c]) => Filled(values'[c].map, prop.schema)
            /\ c \in DOMAIN values' /\ prop.schema.items # << >> =>
                \A i \in EachMap(values'[c]) : Filled(values'[c].list[i].map, prop.schema.items[1])
        /\ schema.pattern # << >> =>
            \A k \in DOMAIN values' : IsNode(values'[k]) /\ Filled(values'[k].map, schema.pattern[1])]_vars
=============================================================================
