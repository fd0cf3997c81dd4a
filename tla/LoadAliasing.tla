---------------------------- MODULE LoadAliasing ----------------------------
(***************************************************************************)
(* Which maps and slices the Loads of one Synthra share with its sources,  *)
(* with each other and with the configurations they published.             *)
(*                                                                         *)
(* deepMerge (src/synthra.go:184-205) builds the map of a Load out of what *)
(* the sources return.  It copies a map it inserts under a new key, but    *)
(* assigns everything else as it is: a slice, and a map that replaces a    *)
(* value of another type, stay the SOURCE's objects.  A later source is    *)
(* merged into them in place, a transform sets their keys and WithEnvSubst *)
(* expands them in place.  All of this runs outside loadMu.                *)
(*                                                                         *)
(* One top-level key is modelled.  Its value in a map is a slot: nothing,  *)
(* a scalar, or a reference to a map or slice object on the heap, whose    *)
(* own entries (the keys or indices in Inner) are strings.                 *)
(***************************************************************************)
EXTENDS Naturals, Sequences

CONSTANTS
    Loaders,      \* goroutines that call Load
    NumSources,   \* len(c.sources)
    Shapes,       \* kinds of value the sources have under the key
    Steps,        \* the steps: "set" a key inside, or "subst" the placeholders
    Inner,        \* entries of a nested map or slice
    MaxLoads      \* bound on the number of Loads

ASSUME NumSourcesAssumption == NumSources \in 1..4   \* as many names as Literal has
ASSUME ShapesAssumption == Shapes \subseteq {"none", "scalar", "map", "slice"}
ASSUME StepsAssumption == Steps \in Seq({"set", "subst"})

Sources == 1..NumSources

\* Strings: a source's own value, a placeholder ${VAR}, what the variable is set
\* to, what a transform sets, or no entry at all.
Literal == [i \in Sources |-> <<"s1", "s2", "s3", "s4">>[i]]
EnvValues == {"e1", "e2"}
Absent == "absent"
Placeholder == "${VAR}"
SetValue == "set"

\* A deep value: what a reader finds under the key.
NoInner == [k \in Inner |-> Absent]
Nothing == [kind |-> "none", val |-> Absent, inner |-> NoInner]

Written(i) == {Literal[i], Placeholder}
DeepValues(i) ==
    {v \in [kind : Shapes, val : Written(i) \cup {Absent},
            inner : [Inner -> Written(i) \cup {Absent}]] :
        /\ (v.val # Absent) = (v.kind = "scalar")
        /\ v.inner = NoInner \/ v.kind \in {"map", "slice"}}

VARIABLES
    heap,       \* the nested objects, by address
    shared,     \* sources that return the same map every time (source.Map)
    orig,       \* what every source was given: its file, its map
    slotOf,     \* the slot of every shared source
    env,        \* the environment variable
    pc, idx,    \* of the Load of each goroutine
    acc,        \* the slot in its newValues
    expect,     \* history: what newValues holds if nothing is shared
    published,  \* history: every published configuration, as it was then
    loads       \* number of Loads begun

vars == <<heap, shared, orig, slotOf, env, pc, idx, acc, expect, published, loads>>

EmptySlot == [kind |-> "none", val |-> Absent, ref |-> 0]

\* What a reader of slot s finds now.
Deep(s) == [kind |-> s.kind, val |-> s.val,
            inner |-> IF s.ref = 0 THEN NoInner ELSE heap[s.ref]]

IsObject(v) == v.kind \in {"map", "slice"}

\* The slot of a deep value whose object, if it has one, is put at address a.
SlotAt(v, a) == [kind |-> v.kind, val |-> v.val,
                 ref |-> IF IsObject(v) THEN a ELSE 0]

\* Only a source with an object has something to share.
Init ==
    /\ orig \in {f \in [Sources -> UNION {DeepValues(i) : i \in Sources}] :
                    \A i \in Sources : f[i] \in DeepValues(i)}
    /\ shared \in SUBSET {i \in Sources : IsObject(orig[i])}
    /\ heap = [i \in Sources |-> orig[i].inner]
    /\ slotOf = [i \in Sources |-> SlotAt(orig[i], i)]
    /\ env \in EnvValues
    /\ pc = [p \in Loaders |-> "idle"]
    /\ idx = [p \in Loaders |-> 1]
    /\ acc = [p \in Loaders |-> EmptySlot]
    /\ expect = [p \in Loaders |-> Nothing]
    /\ published = << >>
    /\ loads = 0

EnvChange ==
    /\ env' \in EnvValues \ {env}
    /\ UNCHANGED <<heap, shared, orig, slotOf, pc, idx, acc, expect, published, loads>>

Goto(p, label, i) == /\ pc' = [pc EXCEPT ![p] = label]
                     /\ idx' = [idx EXCEPT ![p] = i]

BeginWith(p, slot) ==
    /\ pc[p] = "idle"
    /\ loads < MaxLoads
    /\ loads' = loads + 1
    /\ Goto(p, "merge", 1)
    /\ acc' = [acc EXCEPT ![p] = slot]
    /\ UNCHANGED <<heap, shared, orig, slotOf, env, expect, published>>

\* Bug variant: the new Load starts from the published map.
BeginIncremental(p) ==
    BeginWith(p, IF published = << >> THEN EmptySlot ELSE published[Len(published)].slot)

Begin(p) == BeginWith(p, EmptySlot)

\* The entries of map m over those of map d.
Override(d, m) == [k \in Inner |-> IF m[k] = Absent THEN d[k] ELSE m[k]]

\* Bug variant: a map under a new key is assigned instead of copied.
MergeSlotAliases(d, s, h) ==
    CASE s.kind = "none" -> [slot |-> d, heap |-> h]
      [] s.kind = "map" /\ d.kind = "map" ->
            [slot |-> d, heap |-> [h EXCEPT ![d.ref] = Override(@, h[s.ref])]]
      [] OTHER -> [slot |-> s, heap |-> h]

\* Bug variant: the first writer of an entry wins.
MergeSlotKeepsFirst(d, s, h) ==
    CASE s.kind = "none" -> [slot |-> d, heap |-> h]
      [] s.kind = "map" /\ d.kind = "none" ->
            [slot |-> [s EXCEPT !.ref = Len(h) + 1], heap |-> Append(h, h[s.ref])]
      [] s.kind = "map" /\ d.kind = "map" ->
            [slot |-> d, heap |-> [h EXCEPT ![d.ref] = Override(h[s.ref], @)]]
      [] OTHER -> [slot |-> s, heap |-> h]

\* deepMerge of slot s into slot d, with heap h: the new slot and the new heap.
MergeSlot(d, s, h) ==
    CASE s.kind = "none" -> [slot |-> d, heap |-> h]
      [] s.kind = "map" /\ d.kind = "none" ->
            [slot |-> [s EXCEPT !.ref = Len(h) + 1], heap |-> Append(h, h[s.ref])]
      [] s.kind = "map" /\ d.kind = "map" ->
            [slot |-> d, heap |-> [h EXCEPT ![d.ref] = Override(@, h[s.ref])]]
      [] OTHER -> [slot |-> s, heap |-> h]

\* deepMerge on values.
MergeDeep(d, s) ==
    CASE s.kind = "none" -> d
      [] s.kind = "map" /\ d.kind = "map" -> [d EXCEPT !.inner = Override(@, s.inner)]
      [] OTHER -> s

AfterStep(k) == IF k < Len(Steps) THEN "step" ELSE "publish"

NextSource(p) == IF idx[p] < NumSources THEN Goto(p, "merge", idx[p] + 1)
                                        ELSE Goto(p, AfterStep(0), 1)

\* One source is loaded and merged.  A shared source returns its own objects,
\* any other decodes new ones.
MergeSource(p) ==
    /\ pc[p] = "merge"
    /\ LET i == idx[p]
           fresh == IsObject(orig[i]) /\ i \notin shared
           h == IF fresh THEN Append(heap, orig[i].inner) ELSE heap
           s == IF i \in shared THEN slotOf[i] ELSE SlotAt(orig[i], Len(h))
           m == MergeSlot(acc[p], s, h)
       IN  /\ acc' = [acc EXCEPT ![p] = m.slot]
           /\ heap' = m.heap
           /\ expect' = [expect EXCEPT ![p] = MergeDeep(@, orig[i])]
    /\ NextSource(p)
    /\ UNCHANGED <<shared, orig, slotOf, env, published, loads>>

Expanded(v) == IF v = Placeholder THEN env ELSE v
ExpandInner(m) == [k \in Inner |-> Expanded(m[k])]
SetInner(m) == [k \in Inner |-> SetValue]

AtStep(p, kind) == pc[p] = "step" /\ Steps[idx[p]] = kind

\* envsubstMap and envsubstSlice assign every string where it is.
Subst(p) ==
    /\ AtStep(p, "subst")
    /\ acc' = [acc EXCEPT ![p].val = Expanded(@)]
    /\ heap' = IF acc[p].ref = 0 THEN heap ELSE [heap EXCEPT ![acc[p].ref] = ExpandInner(@)]
    /\ expect' = [expect EXCEPT ![p].val = Expanded(@), ![p].inner = ExpandInner(@)]
    /\ Goto(p, AfterStep(idx[p]), idx[p] + 1)
    /\ UNCHANGED <<shared, orig, slotOf, env, published, loads>>

\* A transform calls Set on the keys inside: it makes the map when there is none
\* and writes the one that is there.  On any other value Set fails, see Fail.
Set(p) ==
    /\ AtStep(p, "set")
    /\ acc[p].kind \in {"none", "map"}
    /\ IF acc[p].kind = "map"
       THEN heap' = [heap EXCEPT ![acc[p].ref] = SetInner(@)] /\ UNCHANGED acc
       ELSE /\ heap' = Append(heap, SetInner(NoInner))
            /\ acc' = [acc EXCEPT ![p].kind = "map", ![p].ref = Len(heap) + 1]
    /\ expect' = [expect EXCEPT ![p].kind = "map", ![p].inner = SetInner(@)]
    /\ Goto(p, AfterStep(idx[p]), idx[p] + 1)
    /\ UNCHANGED <<shared, orig, slotOf, env, published, loads>>

Leave(p) ==
    /\ Goto(p, "idle", 1)
    /\ acc' = [acc EXCEPT ![p] = EmptySlot]
    /\ expect' = [expect EXCEPT ![p] = Nothing]
    /\ UNCHANGED <<heap, shared, orig, slotOf, env, loads>>

Publish(p) ==
    /\ pc[p] = "publish"
    /\ published' = Append(published, [slot |-> acc[p], seen |-> Deep(acc[p])])
    /\ Leave(p)

\* A source, a step or the binding fails: the map is dropped.
Fail(p) ==
    /\ pc[p] # "idle"
    /\ Leave(p)
    /\ UNCHANGED published

Next ==
    \/ EnvChange
    \/ \E p \in Loaders :
        Begin(p) \/ MergeSource(p) \/ Subst(p) \/ Set(p) \/ Publish(p) \/ Fail(p)

Spec == Init /\ [][Next]_vars

-----------------------------------------------------------------------------
(* The accesses to nested objects a Load is about to make.  No lock orders *)
(* them: two that meet, one of them a write, are a data race.              *)

\* What the source a Load is at returns, when it is its own object.
Returned(p) == IF idx[p] \in shared THEN slotOf[idx[p]] ELSE EmptySlot
MergesMaps(p) == pc[p] = "merge" /\ orig[idx[p]].kind = "map" /\ acc[p].kind = "map"

\* A slice is assigned unread, a map that is copied or merged is read.
Reads(p) ==
    IF pc[p] = "merge" /\ Returned(p).kind = "map" /\ acc[p].kind \in {"none", "map"}
    THEN {Returned(p).ref} ELSE {}

\* WithEnvSubst writes every string, also one without a placeholder.
Writes(p) ==
    {a \in {acc[p].ref} \ {0} :
        \/ MergesMaps(p)
        \/ AtStep(p, "set") /\ acc[p].kind = "map"
        \/ AtStep(p, "subst") /\ heap[a] # NoInner}

\* What readers may look at, at any time: the nested objects of the published
\* configurations and those of the maps that sources were given.
Public == {published[n].slot.ref : n \in DOMAIN published} \cup {slotOf[i].ref : i \in shared}

-----------------------------------------------------------------------------

\* The value of the first n sources merged.
MergedUpTo[n \in 0..NumSources] ==
    IF n = 0 THEN Nothing ELSE MergeDeep(MergedUpTo[n - 1], orig[n])

\* A shared map never replaces a scalar or a slice: it is copied or merged.
MapsAreCopied ==
    \A i \in shared : orig[i].kind = "map" => MergedUpTo[i - 1].kind \in {"none", "map"}

Substitutes == \E k \in DOMAIN Steps : Steps[k] = "subst"

\* No source's own object is changed by a step: shared slices have nothing to
\* expand.
AliasFree ==
    /\ MapsAreCopied
    /\ \A i \in shared : orig[i].kind = "slice" /\ Substitutes =>
          \A k \in Inner : orig[i].inner[k] # Placeholder

\* No source's own object is written by a step: shared slices hold no strings.
Isolated ==
    /\ MapsAreCopied
    /\ \A i \in shared : orig[i].kind = "slice" /\ Substitutes => orig[i].inner = NoInner

\* Without such objects no later Load, not even one that fails, changes what the
\* holder of a published Configuration reads (src/synthra.go:169, 184-205).
SnapshotsStay ==
    AliasFree => \A n \in 1..Len(published) : Deep(published[n].slot) = published[n].seen

\* Without such objects a Load leaves the maps its sources hold as they were:
\* source.Map returns the same map every time and forbids its callers to change
\* it (src/source/map.go:21-42).
SourcesAreUntouched == AliasFree => \A i \in shared : Deep(slotOf[i]) = orig[i]

\* Without such objects a Load computes, at every step and whatever other Loads
\* run, the merge of the sources as they were given, later over earlier, then set
\* and expanded with the variable as it is NOW: it depends neither on earlier
\* Loads nor on concurrent ones (src/synthra.go:184-205, src/options.go:855-902,
\* src/resolver.go:54).
LoadsDoNotInterfere ==
    AliasFree => \A p \in Loaders : pc[p] # "idle" => Deep(acc[p]) = expect[p]

\* When no shared slice holds a string either, concurrent Loads and the readers
\* of configurations never access one nested object at the same time, one of
\* them writing: Load needs no lock around its sources and steps ("Load is safe
\* to call concurrently", src/synthra.go:238, and readers need none, 164-166).
NoDataRaces ==
    Isolated => \A p \in Loaders :
        Writes(p) \cap (Public \cup UNION {Reads(q) \cup Writes(q) : q \in Loaders \ {p}}) = {}

\* src/synthra.go:57 calls every published Configuration an immutable
\* point-in-time view.
SnapshotsAreImmutable ==
    \A n \in 1..Len(published) : Deep(published[n].slot) = published[n].seen
=============================================================================
