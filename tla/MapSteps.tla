----------------------------- MODULE MapSteps -----------------------------
(***************************************************************************)
(* What a Load does to its map, step by step: deepMerge merges the map of  *)
(* each source into it (src/synthra.go:180-205), one key after the other   *)
(* in any order, a map under a key in a call of its own; then transforms   *)
(* call Set and Delete, which walk along the segments of a path            *)
(* (src/configurable.go:51-115).  Maps may be nested to any depth.         *)
(*                                                                         *)
(* The map a step works on is in the frame on top of a stack, and is put   *)
(* back into that of the frame below when nothing is left to do in it:     *)
(* nobody looks in between.                                                *)
(***************************************************************************)
EXTENDS ConfigMap, Accessors

CONSTANTS
    SourceTrees(_),   \* the maps source i may return
    NumSources,       \* len(c.sources)
    Paths,            \* paths readers look at, as sequences of keys
    EditPaths,        \* those the transforms use
    NewValues,        \* what the transforms set
    MaxSteps,         \* bound on the number of calls of Set and Delete
    MaxDepth,         \* how many levels of maps the properties look at
    ClassOf(_)        \* the class of a leaf, for the accessors

ASSUME NumSourcesAssumption == NumSources \in Nat
ASSUME MaxStepsAssumption == MaxSteps \in Nat
ASSUME EditPathsAssumption == EditPaths \subseteq Paths
ASSUME NewValuesAssumption == Missing \notin NewValues
ASSUME MaxDepthAssumption == MaxDepth \in Nat \ {0}
ASSUME PathsAssumption == \A p \in Paths : p \in Seq({p[i] : i \in DOMAIN p}) /\ Len(p) \in 1..MaxDepth

VARIABLES
    values,   \* newValues, between two of the operations
    stack,    \* the maps an operation has on the way
    merged,   \* number of sources merged
    steps,    \* number of calls of Set and Delete
    edit      \* the running call of Set or Delete

vars == <<values, stack, merged, steps, edit>>

\* A frame: the map dst, and the key it has in that of the frame below.  A call of
\* deepMerge has the map src too, the keys of it that are not finished, and the key
\* it was called for.
Call(dst, src, key, at) == [dst |-> dst, src |-> src, todo |-> DOMAIN src, key |-> key, at |-> at]

\* phase: "down" on the way along path, then "done" or "failed".
Edit(op, path, value) == [op |-> op, path |-> path, value |-> value, phase |-> "down"]
NoEdit == [Edit("none", << >>, Missing) EXCEPT !.phase = "none"]
Merging == edit.phase = "none"

Init ==
    /\ values = EmptyMap
    /\ stack = << >>
    /\ merged = 0
    /\ steps = 0
    /\ edit = NoEdit

\* The next source returns s, and deepMerge is called.
BeginMerge ==
    /\ stack = << >> /\ steps = 0
    /\ merged < NumSources
    /\ \E s \in SourceTrees(merged + 1) : stack' = <<Call(values, s, Nameless, Nameless)>>
    /\ UNCHANGED <<values, merged, steps, edit>>

Top == stack[Len(stack)]
Running == stack # << >>

\* Call f sets key at of dst to v, and is finished with key k of src.
Assign(f, at, v, k) == [f EXCEPT !.dst = Put(@, at, v), !.todo = @ \ {k}]

Assigns(at, k) ==
    /\ stack' = [stack EXCEPT ![Len(stack)] = Assign(@, at, Top.src[k], k)]
    /\ UNCHANGED <<values, merged, steps, edit>>

Calls(call) ==
    /\ stack' = Append(stack, call)
    /\ UNCHANGED <<values, merged, steps, edit>>

IsNew(k) == FindKeyFold(Top.dst, k) = {}
BothMaps(d, k) == IsNode(Top.dst[d]) /\ IsNode(Top.src[k])

\* The key is new, and a map under it is merged into an empty one.
InsertMap(k) == IsNew(k) /\ IsNode(Top.src[k]) /\ Calls(Call(EmptyMap, Top.src[k].map, k, k))

InsertValue(k) == IsNew(k) /\ ~IsNode(Top.src[k]) /\ Assigns(k, k)

\* Bug variant: the map is built afresh.
MergeMapsAfresh(k) ==
    \E d \in FindKeyFold(Top.dst, k) :
        BothMaps(d, k) /\ Calls(Call(EmptyMap, Top.src[k].map, k, d))

\* Both have a map.
MergeMaps(k) ==
    \E d \in FindKeyFold(Top.dst, k) :
        BothMaps(d, k) /\ Calls(Call(Top.dst[d].map, Top.src[k].map, k, d))

\* Bug variant: a value that is there stays.
ReplaceValueKeeps(k) ==
    \E d \in FindKeyFold(Top.dst, k) :
        /\ ~BothMaps(d, k)
        /\ stack' = [stack EXCEPT ![Len(stack)].todo = @ \ {k}]
        /\ UNCHANGED <<values, merged, steps, edit>>

\* Anything else is replaced under the key it has in dst.
ReplaceValue(k) == \E d \in FindKeyFold(Top.dst, k) : ~BothMaps(d, k) /\ Assigns(d, k)

Visit ==
    /\ Running /\ Merging
    /\ \E k \in Top.todo : InsertMap(k) \/ InsertValue(k) \/ MergeMaps(k) \/ ReplaceValue(k)

Pop == SubSeq(stack, 1, Len(stack) - 1)

\* Bug variant: the map is put under the key it was looked up with.
ReturnMapToSrcKey ==
    /\ Len(stack) > 1 /\ Top.todo = {} /\ edit.phase # "down"
    /\ stack' = [Pop EXCEPT ![Len(stack) - 1] = Assign(@, Top.key, Node(Top.dst), Top.key)]
    /\ UNCHANGED <<values, merged, steps, edit>>

\* Nothing is left to do in a nested map; a calling deepMerge is finished with the key.
ReturnMap ==
    /\ Len(stack) > 1 /\ Top.todo = {} /\ edit.phase # "down"
    /\ stack' = [Pop EXCEPT ![Len(stack) - 1] = Assign(@, Top.at, Node(Top.dst), Top.key)]
    /\ UNCHANGED <<values, merged, steps, edit>>

\* The source is merged.
EndMerge ==
    /\ Len(stack) = 1 /\ Top.todo = {} /\ Merging
    /\ stack' = << >>
    /\ values' = Top.dst
    /\ merged' = merged + 1
    /\ UNCHANGED <<steps, edit>>

\* A transform calls Set or Delete.
BeginEdit ==
    /\ ~Running /\ merged > 0 /\ steps < MaxSteps
    /\ \E p \in EditPaths :
        \/ \E v \in NewValues : edit' = Edit("set", p, v)
        \/ edit' = Edit("delete", p, Missing)
    /\ stack' = <<Call(values, EmptyMap, Nameless, Nameless)>>
    /\ UNCHANGED <<values, merged, steps>>

\* The segment to look up in the map on top, and the keys it is found under.
Segment == edit.path[Len(stack)]
SegmentKeys == FindKeyFold(Top.dst, Segment)

OnTheWay == edit.phase = "down" /\ Len(stack) < Len(edit.path)
AtTheEnd == edit.phase = "down" /\ Len(stack) = Len(edit.path)

GoesOn(phase) ==
    /\ edit' = [edit EXCEPT !.phase = phase]
    /\ UNCHANGED <<values, merged, steps>>

\* Bug variant: Set begins with an empty map.
EnterMapAfresh ==
    /\ OnTheWay
    /\ \E d \in SegmentKeys :
        IsNode(Top.dst[d]) /\ Calls(Call(EmptyMap, EmptyMap, Segment, d))

EnterMap ==
    /\ OnTheWay
    /\ \E d \in SegmentKeys :
        IsNode(Top.dst[d]) /\ Calls(Call(Top.dst[d].map, EmptyMap, Segment, d))

\* Bug variant: a value that is no map gives way to one.
CreateMapAnyhow ==
    /\ OnTheWay /\ edit.op = "set" /\ \A d \in SegmentKeys : ~IsNode(Top.dst[d])
    /\ Calls(Call(EmptyMap, EmptyMap, Segment, Segment))

\* Set makes the maps that are missing.
CreateMap ==
    /\ OnTheWay /\ edit.op = "set" /\ SegmentKeys = {}
    /\ Calls(Call(EmptyMap, EmptyMap, Segment, Segment))

\* Set fails at a value that is no map, Delete when nothing is there, too.
GiveUp ==
    /\ \/ OnTheWay /\ \E d \in SegmentKeys : ~IsNode(Top.dst[d])
       \/ (OnTheWay \/ AtTheEnd) /\ edit.op = "delete" /\ SegmentKeys = {}
    /\ GoesOn("failed")
    /\ UNCHANGED stack

\* The call on top goes on with the map m.
Becomes(m) == stack' = [stack EXCEPT ![Len(stack)] = [@ EXCEPT !.dst = m]]

\* Bug variant: the key is spelled as in the path.
SetHereExactly ==
    /\ AtTheEnd /\ edit.op = "set"
    /\ Becomes(Put(Top.dst, Segment, edit.value))
    /\ GoesOn("done")

SetHere ==
    /\ AtTheEnd /\ edit.op = "set"
    /\ \E d \in IF SegmentKeys = {} THEN {Segment} ELSE SegmentKeys :
        Becomes(Put(Top.dst, d, edit.value))
    /\ GoesOn("done")

\* Bug variant: a map is emptied and stays.
DeleteHereEmpties ==
    /\ AtTheEnd /\ edit.op = "delete"
    /\ \E d \in SegmentKeys :
        Becomes(IF IsNode(Top.dst[d]) THEN Put(Top.dst, d, Node(EmptyMap)) ELSE Without(Top.dst, d))
    /\ GoesOn("done")

DeleteHere ==
    /\ AtTheEnd /\ edit.op = "delete"
    /\ \E d \in SegmentKeys : Becomes(Without(Top.dst, d))
    /\ GoesOn("done")

\* Set or Delete returns.
EndEdit ==
    /\ Len(stack) = 1 /\ edit.phase \in {"done", "failed"}
    /\ stack' = << >>
    /\ values' = Top.dst
    /\ steps' = steps + 1
    /\ edit' = NoEdit
    /\ UNCHANGED merged

\* The Load is over or has failed; the next one starts from an empty map.
Restart ==
    /\ ~Running /\ merged > 0
    /\ values' = EmptyMap
    /\ merged' = 0
    /\ steps' = 0
    /\ UNCHANGED <<stack, edit>>

Next ==
    \/ BeginMerge \/ Visit \/ ReturnMap \/ EndMerge
    \/ BeginEdit \/ EnterMap \/ CreateMap \/ GiveUp \/ SetHere \/ DeleteHere \/ EndEdit
    \/ Restart

Spec == Init /\ [][Next]_vars

-----------------------------------------------------------------------------

\* What a reader finds along a path: some map, another value, or nothing.
SeenAs(v) == IF IsNode(v) THEN [tag |-> "map"] ELSE v
Reading(m, p) == {SeenAs(v) : v \in Along(m, p)}

\* The pairs of maps under the same key of x and y that a lookup can find.
Common(x, y) ==
    {<<x[k].map, y[k].map>> :
        k \in {j \in DOMAIN x \cap DOMAIN y : j.fold # Nameless.fold /\ IsNode(x[j]) /\ IsNode(y[j])}}

CommonIn(pairs) == UNION {Common(w[1], w[2]) : w \in pairs}

\* The pairs of maps in the same place, n levels inside x and y.
PairsAt(x, y, n) ==
    LET level[i \in 0..n] == IF i = 0 THEN {<<x, y>>} ELSE CommonIn(level[i - 1])
    IN  level[n]

\* In the maps of the first n levels no two keys differ in case only, and every key
\* has a value.
FoldUniqueTo(m, n) ==
    \A i \in 0..(n - 1) : \A w \in PairsAt(m, m, i) :
        FoldUniqueHere(w[1]) /\ \A k \in DOMAIN w[1] : w[1][k] # Missing

\* Every key of the maps of the first n levels of x is in the map in its place in y.
KeysKept(x, y, n) == \A i \in 0..(n - 1) : \A w \in PairsAt(x, y, i) : DOMAIN w[1] \subseteq DOMAIN w[2]

\* The map of the source that is merged.
Source == stack[1].src
Merged == merged' > merged
Edited(op) == steps' > steps /\ edit.op = op

\* A merge finishes keys of its own src only, only the sources there are are merged,
\* and Set and Delete do not go further than their path (src/synthra.go:185, 214,
\* src/configurable.go:62-79).
TypeOK ==
    /\ merged \in 0..NumSources /\ steps \in 0..MaxSteps
    /\ \A i \in DOMAIN stack : stack[i].todo \subseteq DOMAIN stack[i].src
    /\ Running => IF Merging THEN merged < NumSources ELSE steps < MaxSteps /\ Len(stack) <= Len(edit.path)

\* A value that is not a map is on the way along p.
Blocked(m, p) ==
    \E n \in 1..(Len(p) - 1) : \E v \in Reading(m, SubSeq(p, 1, n)) : v # Missing /\ ~IsNode(v)

\* What a reader should find along p once source s is merged over m.
Overlay(m, s, p) ==
    IF Reading(s, p) # {Missing} THEN Reading(s, p)
    ELSE IF Blocked(s, p) THEN {Missing}
    ELSE Reading(m, p)

\* What is merged or set has no keys that differ in case only.
InputUnique ==
    /\ Merged => FoldUniqueTo(Source, MaxDepth)
    /\ Edited("set") /\ IsNode(edit.value) => FoldUniqueTo(edit.value.map, MaxDepth)

\* No operation makes two keys that differ in case only, at any level, if neither the
\* map nor what is put into it has such keys: it finds the key that is there, whatever
\* its casing (src/synthra.go:186, src/configurable.go:54-77, src/keys.go:22-32).
KeysStayFoldUnique ==
    [][FoldUniqueTo(values, MaxDepth) /\ InputUnique => FoldUniqueTo(values', MaxDepth)]_vars

\* A later source overrides an earlier one path by path: what it says of a path is
\* read there, and what it does not mention keeps its value, whatever the casing
\* either uses; a map and anything else replace each other whole
\* (src/synthra.go:184-205 and 241).
MergeIsOverlay ==
    [][Merged /\ FoldUniqueTo(values, MaxDepth) /\ FoldUniqueTo(Source, MaxDepth) =>
          \A p \in Paths : Reading(values', p) = Overlay(values, Source, p)]_vars

\* A merge keeps the casing the first writer of a key used, and every key of maps
\* it merges, at every level; the map of a source that replaces something else
\* takes its place with its own (src/synthra.go:180-183).
FirstCasingIsKept ==
    [][Merged /\ FoldUniqueTo(Source, MaxDepth) => KeysKept(values, values', MaxDepth)]_vars

\* Set fails exactly when something on the way is there and is no map; else a lookup
\* finds the value, unless a segment is the empty string, which is never found
\* (src/configurable.go:51-82, src/keys.go:31).
SetMeetsGet ==
    [][Edited("set") /\ FoldUniqueTo(values, MaxDepth) =>
        IF Blocked(values, edit.path) THEN edit.phase = "failed"
        ELSE /\ edit.phase = "done"
             /\ Along(values', edit.path) =
                    {IF \E i \in DOMAIN edit.path : edit.path[i].fold = Nameless.fold THEN Missing ELSE edit.value}]_vars

\* Delete reports whether there was something at the path, and then there is nothing
\* (src/configurable.go:84-115).
DeleteMeetsGet ==
    [][Edited("delete") /\ FoldUniqueTo(values, MaxDepth) =>
        /\ edit.phase = "done" <=> Along(values, edit.path) # {Missing}
        /\ Along(values', edit.path) = {Missing}]_vars

\* p and q part before one of them ends.
Apart(p, q) == \E n \in 1..Len(p) : n <= Len(q) /\ p[n].fold # q[n].fold

\* Set and Delete change what is read on the way to their path and inside it, and
\* nowhere else; when they fail they change nothing (src/configurable.go:51-115).
EditsStayLocal ==
    [][steps' > steps /\ FoldUniqueTo(values, MaxDepth) =>
        \A p \in Paths : edit.phase = "failed" \/ Apart(p, edit.path) => Reading(values', p) = Reading(values, p)]_vars

\* What Set and Delete promise: Get finds what they did, at their path and elsewhere.
EditsMeetGet == SetMeetsGet /\ DeleteMeetsGet /\ EditsStayLocal

RawOf(v) == IF v = Missing THEN "missing" ELSE IF v.tag # "leaf" THEN v.tag ELSE ClassOf(v.leaf)

\* What the accessors for a type return for a raw value, the families side by side.
Answers(raw, t) ==
    [strict |-> Strict(raw, t), get |-> Get(raw, t), or |-> Or(raw, t), getOr |-> GetOr(raw, t)]

NoKey == [strict |-> Error("ErrKeyNotFound"), get |-> Error("ErrKeyNotFound"), or |-> Default, getOr |-> Default]
AllReturn(raw) == [strict |-> Value(raw), get |-> Value(raw), or |-> Value(raw), getOr |-> Value(raw)]
OnlyStrictErrs == [strict |-> Error("cast"), get |-> Zero, or |-> Zero, getOr |-> Zero]

\* What the accessors answer for a path where the sources said raw, and found is
\* there.  A null takes the value of an earlier source away: no accessor finds the key
\* any more, though Has does.  A value that converts is what all families return.  The
\* rest is an exception to what is documented: where a value does not convert, the
\* strict accessor errs and all others return a zero, while README.md:871 and
\* get.go:27-28 and 61-62 speak of the default and an error; these they give for types
\* that package cast does not know.
AnswersFor(raw, found) ==
    /\ Has(found) <=> raw # "missing"
    /\ \A t \in Typed :
          Answers(found, t) = IF raw \in {"missing", "null"} THEN NoKey
                              ELSE IF Convertible(raw, t) THEN AllReturn(raw)
                              ELSE OnlyStrictErrs
    /\ Get(found, "struct").is = "error" /\ GetOr(found, "struct") = Default

\* What the accessors answer after a merge is decided by what the new source says of
\* the path or, when it is silent, by what the earlier ones said, in any casing and
\* order of keys; null and unconvertible values as in AnswersFor
\* (src/synthra.go:184-205, src/get.go:41-421, src/configuration.go:73-104).
AccessorsFollowSources ==
    [][Merged /\ FoldUniqueTo(values, MaxDepth) /\ FoldUniqueTo(Source, MaxDepth) =>
        \A p \in Paths : \A v \in Along(values', p) :
            \E said \in Overlay(values, Source, p) : AnswersFor(RawOf(said), RawOf(v))]_vars
=============================================================================
