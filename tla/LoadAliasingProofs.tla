------------------------- MODULE LoadAliasingProofs -------------------------
(***************************************************************************)
(* Theorems about LoadAliasing, for every number of Loads, sources, steps  *)
(* and entries of the nested objects.                                      *)
(***************************************************************************)
EXTENDS LoadAliasing, SequenceTheorems, WellFoundedInduction, TLAPS

-----------------------------------------------------------------------------
(* Induction over the natural numbers, and functions defined by recursion  *)
(* over them, for sets and functions                                       *)

\* A set with 0 and with the successor of each of its numbers has all numbers:
\* there is no smallest one outside.
LEMMA NatSetInduction ==
    ASSUME NEW S, 0 \in S, \A n \in Nat : n \in S => n + 1 \in S
    PROVE  Nat \subseteq S
  <1> DEFINE T == Nat \ S
             R == {ss \in Nat \X Nat : ss[1] < ss[2]}
  <1> SUFFICES ASSUME T # {} PROVE FALSE
    OBVIOUS
  <1>1. IsWellFoundedOn(R, Nat)
    BY NatLessThanWellFounded, Zenon DEF OpToRel
  <1>2. PICK x \in T : \A y \in T : ~(<<y, x>> \in R)
    <2>1. T \subseteq Nat
      OBVIOUS
    <2> HIDE DEF T, R
    <2> QED BY <1>1, <2>1, WFMin
  <1>3. \A y \in Nat : y < x => y \notin T
    BY <1>2
  <1>4. x # 0 /\ x - 1 \in Nat /\ x - 1 < x
    OBVIOUS
  <1> QED BY <1>3, <1>4

\* g starts with a value and goes on by a step from each value to the next.
FollowsSteps(g, N, first, step) ==
    \A n \in 0..N : g[n] = IF n = 0 THEN first ELSE step[<<g[n - 1], n>>]

\* A value for 0 and a step from each value to the next define a function on
\* 0..N.
LEMMA RecursiveFunctionExists ==
    ASSUME NEW N \in Nat, NEW D, NEW first \in D, NEW step \in [D \X Nat -> D]
    PROVE  \E g \in [0..N -> D] : FollowsSteps(g, N, first, step)
  <1> DEFINE Good(g, k) == \A n \in 0..k : g[n] = IF n = 0 THEN first ELSE step[<<g[n - 1], n>>]
             S == {k \in Nat : \E g \in [0..k -> D] : Good(g, k)}
  <1>1. 0 \in S
    <2>1. Good([n \in 0..0 |-> first], 0) /\ [n \in 0..0 |-> first] \in [0..0 -> D]
      OBVIOUS
    <2> QED BY <2>1
  <1>2. ASSUME NEW k \in Nat, k \in S PROVE k + 1 \in S
    <2>1. PICK g \in [0..k -> D] : Good(g, k)
      BY <1>2
    <2> DEFINE h == [n \in 0..k + 1 |-> IF n = k + 1 THEN step[<<g[k], k + 1>>] ELSE g[n]]
    <2>2. step[<<g[k], k + 1>>] \in D
      OBVIOUS
    <2>3. h \in [0..k + 1 -> D]
      BY <2>2
    <2>4. \A n \in 0..k : h[n] = g[n]
      OBVIOUS
    <2>5. h[k + 1] = step[<<g[k], k + 1>>]
      OBVIOUS
    <2> HIDE DEF h
    <2>6. ASSUME NEW n \in 0..k + 1
          PROVE  h[n] = IF n = 0 THEN first ELSE step[<<h[n - 1], n>>]
      <3>1. CASE n = k + 1
        <4>1. n - 1 = k /\ n # 0 /\ k \in 0..k
          BY <3>1
        <4>2. h[n - 1] = g[k]
          BY <2>4, <4>1
        <4> QED BY <2>5, <3>1, <4>1, <4>2
      <3>2. CASE n \in 0..k
        <4>1. n # 0 => n - 1 \in 0..k
          BY <3>2
        <4>2. g[n] = IF n = 0 THEN first ELSE step[<<g[n - 1], n>>]
          BY <2>1, <3>2
        <4> QED BY <2>4, <3>2, <4>1, <4>2
      <3> QED BY <3>1, <3>2
    <2>7. Good(h, k + 1)
      BY <2>6
    <2> HIDE DEF Good
    <2> QED BY <2>3, <2>7
  <1>3. N \in S
    <2> HIDE DEF S
    <2> QED BY <1>1, <1>2, NatSetInduction
  <1>4. PICK g \in [0..N -> D] : Good(g, N)
    BY <1>3
  <1> WITNESS g \in [0..N -> D]
  <1> QED BY <1>4 DEF FollowsSteps

-----------------------------------------------------------------------------
(* Types                                                                   *)

Strings == {Literal[i] : i \in Sources} \cup EnvValues \cup {Absent, Placeholder, SetValue}
Objects == [Inner -> Strings]
Kinds == {"none", "scalar", "map", "slice"}
Deeps == [kind : Kinds, val : Strings, inner : Objects]
Slots == [kind : Kinds, val : Strings, ref : Nat]
PCs == {"idle", "merge", "step", "publish"}

\* What the sources were given, and what of it they share.
GivenInv ==
    /\ shared \subseteq Sources
    /\ orig \in [Sources -> Deeps]
    /\ \A i \in Sources : orig[i] \in DeepValues(i)
    /\ slotOf = [i \in Sources |-> SlotAt(orig[i], i)]

TypeInv ==
    /\ heap \in Seq(Objects)
    /\ env \in EnvValues
    /\ pc \in [Loaders -> PCs]
    /\ idx \in [Loaders -> Nat]
    /\ acc \in [Loaders -> Slots]
    /\ expect \in [Loaders -> Deeps]
    /\ published \in Seq([slot : Slots, seen : Deeps])
    /\ \A p \in Loaders : /\ pc[p] = "merge" => idx[p] \in Sources
                          /\ pc[p] = "step" => idx[p] \in 1..Len(Steps)

-----------------------------------------------------------------------------
(* The invariant                                                           *)

\* An object a Load made: the first ones are those of the sources.
Made(a) == a \in NumSources + 1..Len(heap)

\* A slice of a shared source, which Loads pass on as it is.
SharedSlice(a) == a \in shared /\ orig[a].kind = "slice"

\* A slot has an object if its kind has one; unless that is the slice of a shared
\* source, a Load made it.
SlotOK(s) ==
    /\ IsObject(s) <=> s.ref # 0
    /\ s.ref # 0 => Made(s.ref) \/ (SharedSlice(s.ref) /\ s.kind = "slice")

\* The object of p's map is p's alone, unless it is the slice of a shared source.
Private(p) ==
    Made(acc[p].ref) =>
        /\ \A q \in Loaders \ {p} : acc[q].ref # acc[p].ref
        /\ \A n \in 1..Len(published) : published[n].slot.ref # acc[p].ref

HeapOK ==
    /\ Len(heap) >= NumSources
    /\ \A p \in Loaders : SlotOK(acc[p]) /\ Private(p)
    /\ \A p \in Loaders : pc[p] = "idle" => acc[p] = EmptySlot /\ expect[p] = Nothing
    /\ \A n \in 1..Len(published) : SlotOK(published[n].slot)

\* What a Load has so far is what it would have alone.
ProgressOK ==
    \A p \in Loaders :
        /\ Deep(acc[p]) = expect[p]
        /\ pc[p] = "merge" => expect[p] = MergedUpTo[idx[p] - 1]

\* The objects of the sources, and what was published, are as they were.
KeptOK ==
    /\ \A i \in shared : heap[i] = orig[i].inner
    /\ \A n \in 1..Len(published) : Deep(published[n].slot) = published[n].seen

CleanInv == TypeInv /\ HeapOK /\ ProgressOK /\ KeptOK

ShareInv == GivenInv /\ (AliasFree => CleanInv)

-----------------------------------------------------------------------------
(* The operators on values                                                 *)

\* The constants of the model are strings, objects, values and slots.
LEMMA ConstantsTyped ==
    /\ \A i \in Sources : Literal[i] \in Strings
    /\ {Absent, Placeholder, SetValue} \subseteq Strings /\ EnvValues \subseteq Strings
    /\ NoInner \in Objects
    /\ Nothing \in Deeps
    /\ EmptySlot \in Slots
  BY DEF Strings, NoInner, Objects, Nothing, Deeps, EmptySlot, Slots, Kinds

\* The entries of one map over another's make a map.
LEMMA OverrideTyped ==
    ASSUME NEW d \in Objects, NEW m \in Objects
    PROVE  Override(d, m) \in Objects
  BY DEF Override, Objects

\* What deepMerge makes of two values: by the kinds of the two.
LEMMA MergeDeepIs ==
    ASSUME NEW d \in Deeps, NEW s \in Deeps
    PROVE  /\ MergeDeep(d, s) \in Deeps
           /\ s.kind = "none" => MergeDeep(d, s) = d
           /\ s.kind = "map" /\ d.kind = "map" =>
                 MergeDeep(d, s) = [kind |-> d.kind, val |-> d.val, inner |-> Override(d.inner, s.inner)]
           /\ s.kind # "none" /\ ~(s.kind = "map" /\ d.kind = "map") => MergeDeep(d, s) = s
  <1>1. s.kind = "none" => MergeDeep(d, s) = d
    BY DEF MergeDeep
  <1>2. CASE s.kind = "map" /\ d.kind = "map"
    <2>1. MergeDeep(d, s) = [d EXCEPT !.inner = Override(@, s.inner)]
      BY <1>2 DEF MergeDeep
    <2>2. MergeDeep(d, s) = [kind |-> d.kind, val |-> d.val, inner |-> Override(d.inner, s.inner)]
      BY <2>1 DEF Deeps
    <2>3. Override(d.inner, s.inner) \in Objects
      BY OverrideTyped DEF Deeps
    <2> QED BY <1>2, <2>2, <2>3 DEF Deeps
  <1>3. s.kind # "none" /\ ~(s.kind = "map" /\ d.kind = "map") => MergeDeep(d, s) = s
    BY DEF MergeDeep
  <1> QED BY <1>1, <1>2, <1>3

\* Expanded and set strings are strings.
LEMMA ExpandTyped ==
    ASSUME env \in EnvValues
    PROVE  /\ \A v \in Strings : Expanded(v) \in Strings
           /\ \A m \in Objects : ExpandInner(m) \in Objects /\ SetInner(m) \in Objects
  <1>1. \A v \in Strings : Expanded(v) \in Strings
    BY ConstantsTyped DEF Expanded
  <1>2. \A m \in Objects : SetInner(m) \in Objects
    BY ConstantsTyped DEF SetInner, Objects
  <1>3. \A m \in Objects : ExpandInner(m) \in Objects
    BY <1>1 DEF ExpandInner, Objects
  <1> QED BY <1>1, <1>2, <1>3

\* The recursion of MergedUpTo.
LEMMA MergedUpToIs ==
    ASSUME orig \in [Sources -> Deeps]
    PROVE  /\ MergedUpTo \in [0..NumSources -> Deeps]
           /\ MergedUpTo[0] = Nothing
           /\ \A i \in Sources : MergedUpTo[i] = MergeDeep(MergedUpTo[i - 1], orig[i])
  <1> DEFINE step == [x \in Deeps \X Nat |-> IF x[2] \in Sources THEN MergeDeep(x[1], orig[x[2]]) ELSE Nothing]
             Rec(g) == g = [n \in 0..NumSources |->
                               IF n = 0 THEN Nothing ELSE MergeDeep(g[n - 1], orig[n])]
  <1>1. step \in [Deeps \X Nat -> Deeps]
    BY MergeDeepIs, ConstantsTyped
  <1>2. NumSources \in Nat
    BY NumSourcesAssumption
  <1>3. PICK g \in [0..NumSources -> Deeps] : FollowsSteps(g, NumSources, Nothing, step)
    <2>1. Nothing \in Deeps
      BY ConstantsTyped
    <2> HIDE DEF step
    <2> QED BY <1>1, <1>2, <2>1, RecursiveFunctionExists
  <1>4. Rec(g)
    <2>1. ASSUME NEW n \in 0..NumSources, n # 0
          PROVE  step[<<g[n - 1], n>>] = MergeDeep(g[n - 1], orig[n])
      <3>1. n \in Sources /\ n - 1 \in 0..NumSources /\ n \in Nat
        BY <1>2, <2>1 DEF Sources
      <3> QED BY <3>1
    <2> HIDE DEF step
    <2> QED BY <1>3, <2>1 DEF FollowsSteps
  <1>5. Rec(MergedUpTo)
    <2>1. MergedUpTo = CHOOSE h : Rec(h)
      BY Zenon DEF MergedUpTo
    <2> HIDE DEF Rec
    <2> QED BY <1>4, <2>1
  <1>6. \A i \in Sources : i \in 0..NumSources /\ i # 0 /\ i - 1 \in 0..NumSources
    BY <1>2 DEF Sources
  <1>7. MergedUpTo \in [0..NumSources -> Deeps]
    <2>1. DOMAIN MergedUpTo = 0..NumSources
      BY <1>5
    <2> DEFINE S == {n \in Nat : n \in 0..NumSources => MergedUpTo[n] \in Deeps}
    <2>2. 0 \in S
      BY <1>2, <1>5, ConstantsTyped
    <2>3. ASSUME NEW n \in Nat, n \in S PROVE n + 1 \in S
      <3> SUFFICES ASSUME n + 1 \in 0..NumSources PROVE MergedUpTo[n + 1] \in Deeps
        OBVIOUS
      <3>1. n \in 0..NumSources /\ n + 1 \in Sources /\ n + 1 # 0 /\ (n + 1) - 1 = n
        BY <1>2 DEF Sources
      <3>2. MergedUpTo[n + 1] = MergeDeep(MergedUpTo[n], orig[n + 1])
        BY <1>5, <3>1
      <3> QED BY <2>3, <3>1, <3>2, MergeDeepIs
    <2>4. Nat \subseteq S
      <3> HIDE DEF S
      <3> QED BY <2>2, <2>3, NatSetInduction
    <2>5. \A n \in 0..NumSources : MergedUpTo[n] \in Deeps
      BY <1>2, <2>4
    <2> QED BY <1>5, <2>1, <2>5
  <1> QED BY <1>2, <1>5, <1>6, <1>7

\* It depends on what the sources were given alone.
LEMMA MergedUpToStays == orig' = orig => MergedUpTo' = MergedUpTo
  BY DEF MergedUpTo, MergeDeep, Nothing, Override, NoInner

\* Whether a shared object can be passed on as it is depends on the sources alone.
LEMMA AliasFreeStays ==
    ASSUME orig' = orig, shared' = shared
    PROVE  AliasFree' = AliasFree
  BY MergedUpToStays DEF AliasFree, MapsAreCopied

-----------------------------------------------------------------------------
(* Initial states                                                          *)

\* A value of a source is a value, with entries only if it is an object.
LEMMA DeepValuesTyped ==
    ASSUME NEW i \in Sources, NEW v \in DeepValues(i)
    PROVE  /\ v \in Deeps
           /\ v.inner = NoInner \/ IsObject(v)
           /\ v.val # Absent <=> v.kind = "scalar"
  <1>1. v \in [kind : Shapes, val : Written(i) \cup {Absent}, inner : [Inner -> Written(i) \cup {Absent}]]
    BY DEF DeepValues
  <1>2. Written(i) \cup {Absent} \subseteq Strings
    BY ConstantsTyped DEF Written
  <1>3. v \in Deeps
    BY <1>1, <1>2, ShapesAssumption DEF Deeps, Kinds, Objects
  <1>4. (v.val # Absent) = (v.kind = "scalar")
    BY DEF DeepValues
  <1>5. v.inner = NoInner \/ v.kind \in {"map", "slice"}
    BY DEF DeepValues
  <1> QED BY <1>3, <1>4, <1>5 DEF IsObject

\* The sources' own objects are the whole heap at first.
LEMMA InitShareInv == Init => ShareInv
  <1> SUFFICES ASSUME Init PROVE ShareInv
    OBVIOUS
  <1> USE DEF Init
  <1>1. \A i \in Sources : orig[i] \in DeepValues(i) /\ orig[i] \in Deeps
    BY DeepValuesTyped
  <1>2. orig \in [Sources -> Deeps]
    <2>1. orig \in [Sources -> UNION {DeepValues(i) : i \in Sources}]
      OBVIOUS
    <2>2. DOMAIN orig = Sources /\ orig = [i \in Sources |-> orig[i]]
      BY <2>1
    <2> QED BY <1>1, <2>2
  <1>3. GivenInv
    BY <1>1, <1>2 DEF GivenInv
  <1>4. NumSources \in Nat /\ Sources = 1..NumSources
    BY NumSourcesAssumption DEF Sources
  <1>5. heap \in Seq(Objects) /\ Len(heap) = NumSources
    <2>1. heap \in [1..NumSources -> Objects]
      BY <1>1, <1>4 DEF Deeps
    <2> QED BY <1>4, <2>1, IsASeq, LenProperties
  <1>6. published \in Seq([slot : Slots, seen : Deeps]) /\ Len(published) = 0
    BY EmptySeq
  <1>7. TypeInv
    BY <1>5, <1>6, ConstantsTyped DEF TypeInv, PCs
  <1>8. HeapOK
    BY <1>4, <1>5, <1>6 DEF HeapOK, SlotOK, Private, IsObject, Made, EmptySlot
  <1>9. ProgressOK
    BY DEF ProgressOK, Deep, EmptySlot, Nothing
  <1>10. KeptOK
    BY <1>6 DEF KeptOK
  <1> QED BY <1>3, <1>7, <1>8, <1>9, <1>10 DEF ShareInv, CleanInv

-----------------------------------------------------------------------------
(* A step of one Load                                                      *)

\* p writes no object but its own: it may make new ones.
WritesItsOwn(p) ==
    /\ heap' \in Seq(Objects)
    /\ Len(heap') >= Len(heap)
    /\ \A a \in 1..Len(heap) : heap'[a] = heap[a] \/ (a = acc[p].ref /\ Made(a))

\* Of the objects there were, p has after its step none but the one it had.
ComesToOwn(p) == Made(acc'[p].ref) => acc'[p].ref = acc[p].ref

OthersKept(p) ==
    \A q \in Loaders \ {p} :
        pc'[q] = pc[q] /\ idx'[q] = idx[q] /\ acc'[q] = acc[q] /\ expect'[q] = expect[q]

\* What is published is a slot and a value.
LEMMA PublishedTyped ==
    ASSUME GivenInv, CleanInv, NEW n \in 1..Len(published)
    PROVE  published[n].slot \in Slots /\ published[n].seen \in Deeps /\ SlotOK(published[n].slot)
  <1>1. published[n] \in [slot : Slots, seen : Deeps]
    BY ElementOfSeq DEF CleanInv, TypeInv
  <1> QED BY <1>1 DEF CleanInv, HeapOK

\* Such a step changes nothing that another Load, a reader of a configuration or
\* the owner of a source finds.
LEMMA NobodyElseNotices ==
    ASSUME GivenInv, CleanInv, NEW p \in Loaders, WritesItsOwn(p), OthersKept(p), published' = published
    PROVE  /\ \A i \in shared : heap'[i] = heap[i]
           /\ \A q \in Loaders \ {p} : Deep(acc[q])' = Deep(acc[q])
           /\ \A n \in 1..Len(published) : Deep(published[n].slot)' = Deep(published[n].slot)
  <1> USE DEF CleanInv
  <1>1. Len(heap) \in Nat /\ NumSources \in Nat /\ Sources = 1..NumSources
    BY NumSourcesAssumption, LenProperties DEF TypeInv, Sources
  <1>2. shared \subseteq 1..Len(heap) /\ \A i \in shared : ~Made(i)
    BY <1>1 DEF GivenInv, HeapOK, Made
  <1>3. \A i \in shared : heap'[i] = heap[i]
    BY <1>2 DEF WritesItsOwn
  <1>4. ASSUME NEW a \in Nat, a # 0, Made(a) \/ SharedSlice(a), a # acc[p].ref \/ ~Made(a)
        PROVE  heap'[a] = heap[a]
    BY <1>1, <1>2, <1>4 DEF WritesItsOwn, Made, SharedSlice
  <1>5. ASSUME NEW q \in Loaders \ {p} PROVE Deep(acc[q])' = Deep(acc[q])
    <2>1. acc[q] \in Slots /\ SlotOK(acc[q]) /\ Private(p)
      BY DEF TypeInv, HeapOK
    <2>2. acc[q].ref # 0 => heap'[acc[q].ref] = heap[acc[q].ref]
      BY <1>4, <2>1 DEF SlotOK, Private, Slots
    <2> QED BY <2>2 DEF Deep, OthersKept
  <1>6. ASSUME NEW n \in 1..Len(published)
        PROVE  Deep(published[n].slot)' = Deep(published[n].slot)
    <2>1. published[n].slot \in Slots /\ SlotOK(published[n].slot) /\ Private(p)
      BY PublishedTyped DEF HeapOK
    <2>2. published[n].slot.ref # 0 => heap'[published[n].slot.ref] = heap[published[n].slot.ref]
      BY <1>4, <2>1 DEF SlotOK, Private, Slots
    <2> QED BY <2>2 DEF Deep
  <1> QED BY <1>3, <1>5, <1>6

\* It is therefore enough to look at the Load whose step it is.
LEMMA OwnStep ==
    ASSUME GivenInv, CleanInv, NEW p \in Loaders,
           UNCHANGED <<shared, orig, slotOf, env, published>>,
           WritesItsOwn(p), ComesToOwn(p), OthersKept(p), TypeInv', pc'[p] # "idle",
           SlotOK(acc[p])', Deep(acc[p])' = expect'[p],
           pc'[p] = "merge" => expect'[p] = MergedUpTo[idx'[p] - 1]
    PROVE  CleanInv'
  <1> USE DEF CleanInv
  <1>1. Len(heap) \in Nat /\ Len(heap') \in Nat /\ NumSources \in Nat /\ Len(heap') >= Len(heap)
    BY NumSourcesAssumption, LenProperties DEF TypeInv, WritesItsOwn
  <1>2. \A a \in Nat : /\ Made(a) => Made(a)'
                       /\ Made(a)' /\ ~Made(a) => a \notin 1..Len(heap)
                       /\ SharedSlice(a)' = SharedSlice(a)
    BY <1>1 DEF Made, SharedSlice, HeapOK
  <1>3. \A q \in Loaders : acc[q] \in Slots /\ acc'[q] \in Slots /\ SlotOK(acc[q])
    BY DEF TypeInv, HeapOK
  <1>4. shared \subseteq 1..Len(heap)
    BY <1>1 DEF GivenInv, HeapOK, Sources
  <1>5. ASSUME NEW s \in Slots, SlotOK(s)
        PROVE  SlotOK(s)' /\ (s.ref # 0 => s.ref \in 1..Len(heap))
    <2>1. s.ref \in Nat
      BY DEF Slots
    <2> QED BY <1>1, <1>2, <1>4, <1>5, <2>1 DEF SlotOK, Made, SharedSlice
  <1>6. ASSUME NEW q \in Loaders PROVE SlotOK(acc[q])' /\ Private(q)'
    <2>1. \A n \in 1..Len(published) : /\ published[n].slot \in Slots
                                       /\ published[n].slot.ref # 0 => published[n].slot.ref \in 1..Len(heap)
      BY <1>5, PublishedTyped
    <2>2. CASE q = p
      <3>1. ASSUME Made(acc[p].ref)'
            PROVE  /\ \A r \in Loaders \ {p} : acc'[r].ref # acc'[p].ref
                   /\ \A n \in 1..Len(published) : published[n].slot.ref # acc'[p].ref
        <4>1. acc'[p].ref \in Nat /\ acc'[p].ref # 0
          BY <1>1, <1>3, <3>1 DEF Slots, Made
        <4>2. CASE Made(acc'[p].ref)
          <5>1. acc'[p].ref = acc[p].ref /\ Made(acc[p].ref)
            BY <4>2 DEF ComesToOwn
          <5>2. Private(p)
            BY DEF HeapOK
          <5> QED BY <5>1, <5>2 DEF Private, OthersKept
        <4>3. CASE ~Made(acc'[p].ref)
          <5>1. acc'[p].ref \notin 1..Len(heap)
            BY <1>2, <3>1, <4>1, <4>3
          <5>2. \A r \in Loaders \ {p} : acc'[r].ref # 0 => acc'[r].ref \in 1..Len(heap)
            BY <1>3, <1>5 DEF OthersKept
          <5> QED BY <2>1, <4>1, <5>1, <5>2
        <4> QED BY <4>2, <4>3
      <3> QED BY <2>2, <3>1 DEF Private
    <2>3. CASE q # p
      <3>1. SlotOK(acc[q])'
        <4>1. acc'[q] = acc[q]
          BY <2>3 DEF OthersKept
        <4> QED BY <1>3, <1>5, <4>1 DEF SlotOK
      <3>2. ASSUME Made(acc[q].ref)'
            PROVE  /\ \A r \in Loaders \ {q} : acc'[r].ref # acc'[q].ref
                   /\ \A n \in 1..Len(published) : published[n].slot.ref # acc'[q].ref
        <4>1. acc'[q] = acc[q] /\ acc[q].ref \in Nat
          BY <1>3, <2>3 DEF OthersKept, Slots
        <4>2. acc[q].ref # 0
          BY <1>1, <3>2, <4>1 DEF Made
        <4>3. acc[q].ref \in 1..Len(heap)
          BY <1>3, <1>5, <4>2
        <4>4. Made(acc[q].ref)
          <5>1. acc[q].ref \in NumSources + 1..Len(heap')
            BY <3>2, <4>1 DEF Made
          <5> QED BY <1>1, <4>3, <5>1 DEF Made
        <4>5. /\ \A r \in Loaders \ {q} : acc[r].ref # acc[q].ref
              /\ \A n \in 1..Len(published) : published[n].slot.ref # acc[q].ref
          <5>1. Private(q)
            BY DEF HeapOK
          <5> QED BY <4>4, <5>1 DEF Private
        <4>6. acc'[p].ref # acc[q].ref
          BY <2>3, <4>4, <4>5 DEF ComesToOwn
        <4> QED BY <4>1, <4>5, <4>6 DEF OthersKept
      <3> QED BY <3>1, <3>2 DEF Private
        <2> QED BY <2>2, <2>3
  <1>7. HeapOK'
    <2>1. \A n \in 1..Len(published) : SlotOK(published[n].slot)'
      BY <1>5, PublishedTyped
    <2>2. \A q \in Loaders : pc'[q] = "idle" => acc'[q] = EmptySlot /\ expect'[q] = Nothing
      BY DEF HeapOK, OthersKept
    <2> QED BY <1>1, <1>6, <2>1, <2>2 DEF HeapOK
  <1>8. ProgressOK'
    <2> SUFFICES ASSUME NEW q \in Loaders
                 PROVE  /\ Deep(acc[q])' = expect'[q]
                        /\ pc'[q] = "merge" => expect'[q] = MergedUpTo'[idx'[q] - 1]
      BY DEF ProgressOK
    <2>1. MergedUpTo' = MergedUpTo
      BY MergedUpToStays
    <2>2. CASE q = p
      BY <2>1, <2>2
    <2>3. CASE q # p
      BY <2>1, <2>3, NobodyElseNotices DEF OthersKept, ProgressOK
    <2> QED BY <2>2, <2>3
  <1>9. KeptOK'
    <2>1. \A i \in shared : heap'[i] = orig'[i].inner
      BY NobodyElseNotices DEF KeptOK
    <2>2. \A n \in 1..Len(published) : Deep(published[n].slot)' = published[n].seen
      BY NobodyElseNotices DEF KeptOK
    <2> QED BY <2>1, <2>2 DEF KeptOK
  <1> QED BY <1>7, <1>8, <1>9

-----------------------------------------------------------------------------
(* A source is merged                                                      *)

\* What a reader of slot s finds in heap h.
DeepIn(s, h) == [kind |-> s.kind, val |-> s.val,
                 inner |-> IF s.ref = 0 THEN NoInner ELSE h[s.ref]]

\* A slot of heap h: it refers to an object of h just if its kind has one.
SlotIn(s, h) == s \in Slots /\ s.ref \in 0..Len(h) /\ (IsObject(s) <=> s.ref # 0)

\* deepMerge on slots does to what a reader finds what deepMerge on values does; it
\* writes no object but a map of the destination, and the slot it leaves has the
\* destination's object, a new one, or that of a source it did not copy.
LEMMA MergeSlotIs ==
    ASSUME NEW h \in Seq(Objects), NEW d, NEW s, SlotIn(d, h), SlotIn(s, h),
           NEW m, m = MergeSlot(d, s, h)
    PROVE  /\ m.heap \in Seq(Objects) /\ Len(m.heap) >= Len(h)
           /\ SlotIn(m.slot, m.heap)
           /\ \A a \in 1..Len(h) : m.heap[a] = h[a] \/ (a = d.ref /\ d.kind = "map")
           /\ \/ m.slot = d
              \/ m.slot.ref = Len(h) + 1
              \/ m.slot = s /\ ~(s.kind = "map" /\ d.kind \in {"none", "map"})
           /\ DeepIn(m.slot, m.heap) = MergeDeep(DeepIn(d, h), DeepIn(s, h))
  <1> USE DEF SlotIn
  <1>1. Len(h) \in Nat /\ DOMAIN h = 1..Len(h) /\ \A a \in 1..Len(h) : h[a] \in Objects
    BY LenProperties, ElementOfSeq
  <1>2. d.ref \in Nat /\ s.ref \in Nat /\ d.kind \in Kinds /\ s.kind \in Kinds
    BY DEF Slots
  <1> DEFINE dd == DeepIn(d, h)
             ds == DeepIn(s, h)
  <1>3. dd \in Deeps /\ ds \in Deeps
    BY <1>1, <1>2, ConstantsTyped DEF DeepIn, Deeps, Slots
  <1>4. dd.kind = d.kind /\ ds.kind = s.kind
    BY DEF DeepIn
  <1>5. CASE s.kind = "none"
    <2>1. m.slot = d /\ m.heap = h
      BY <1>5 DEF MergeSlot
    <2>2. MergeDeep(dd, ds) = dd
      BY <1>3, <1>4, <1>5, MergeDeepIs
    <2> QED BY <2>1, <2>2, <1>1
  <1>6. CASE s.kind = "map" /\ d.kind = "none"
    <2>1. s.ref \in 1..Len(h)
      BY <1>1, <1>2, <1>6 DEF IsObject
    <2>2. m.slot = [s EXCEPT !.ref = Len(h) + 1] /\ m.heap = Append(h, h[s.ref])
      BY <1>6 DEF MergeSlot
    <2>3. m.slot = [kind |-> s.kind, val |-> s.val, ref |-> Len(h) + 1]
      BY <2>2 DEF Slots
    <2>4. /\ m.heap \in Seq(Objects) /\ Len(m.heap) = Len(h) + 1
          /\ \A a \in 1..Len(h) : m.heap[a] = h[a]
          /\ m.heap[Len(h) + 1] = h[s.ref]
      BY <1>1, <2>1, <2>2, AppendProperties
    <2>5. SlotIn(m.slot, m.heap)
      BY <1>1, <1>6, <2>3, <2>4 DEF Slots, IsObject
    <2>6. MergeDeep(dd, ds) = ds
      BY <1>3, <1>4, <1>6, MergeDeepIs
    <2>7. DeepIn(m.slot, m.heap) = ds
      BY <1>1, <2>1, <2>3, <2>4 DEF DeepIn
    <2> QED BY <1>1, <2>3, <2>4, <2>5, <2>6, <2>7
  <1>7. CASE s.kind = "map" /\ d.kind = "map"
    <2>1. s.ref \in 1..Len(h) /\ d.ref \in 1..Len(h)
      BY <1>1, <1>2, <1>7 DEF IsObject
    <2> DEFINE o == Override(h[d.ref], h[s.ref])
    <2>2. m.slot = d /\ m.heap = [h EXCEPT ![d.ref] = o]
      BY <1>7 DEF MergeSlot
    <2>3. o \in Objects
      BY <1>1, <2>1, OverrideTyped
    <2>4. MergeDeep(dd, ds) = [kind |-> d.kind, val |-> d.val, inner |-> o]
      <3>1. dd.val = d.val /\ dd.inner = h[d.ref] /\ ds.inner = h[s.ref]
        BY <1>1, <2>1 DEF DeepIn
      <3> QED BY <1>3, <1>4, <1>7, <3>1, MergeDeepIs
    <2> HIDE DEF o
    <2>5. /\ m.heap \in Seq(Objects) /\ Len(m.heap) = Len(h)
          /\ \A a \in 1..Len(h) : m.heap[a] = IF a = d.ref THEN o ELSE h[a]
      BY <1>1, <2>1, <2>2, <2>3, ExceptSeq
    <2>6. DeepIn(m.slot, m.heap) = [kind |-> d.kind, val |-> d.val, inner |-> o]
      BY <1>1, <2>1, <2>2, <2>5 DEF DeepIn
    <2> QED BY <1>1, <1>7, <2>2, <2>4, <2>5, <2>6
  <1>8. CASE s.kind # "none" /\ ~(s.kind = "map" /\ d.kind \in {"none", "map"})
    <2>1. m.slot = s /\ m.heap = h
      BY <1>8 DEF MergeSlot
    <2>2. MergeDeep(dd, ds) = ds
      BY <1>3, <1>4, <1>8, MergeDeepIs
    <2> QED BY <1>1, <1>8, <2>1, <2>2
  <1> QED BY <1>5, <1>6, <1>7, <1>8

\* A Load goes on: no other Load moves.
LEMMA GotoTyped ==
    ASSUME TypeInv, NEW p \in Loaders, NEW label \in PCs, NEW i \in Nat, Goto(p, label, i),
           label = "merge" => i \in Sources, label = "step" => i \in 1..Len(Steps)
    PROVE  /\ pc' \in [Loaders -> PCs] /\ idx' \in [Loaders -> Nat]
           /\ pc'[p] = label /\ idx'[p] = i
           /\ \A q \in Loaders \ {p} : pc'[q] = pc[q] /\ idx'[q] = idx[q]
           /\ \A q \in Loaders : /\ pc'[q] = "merge" => idx'[q] \in Sources
                                 /\ pc'[q] = "step" => idx'[q] \in 1..Len(Steps)
  <1>1. /\ pc' \in [Loaders -> PCs] /\ idx' \in [Loaders -> Nat]
        /\ pc'[p] = label /\ idx'[p] = i
        /\ \A q \in Loaders \ {p} : pc'[q] = pc[q] /\ idx'[q] = idx[q]
    BY DEF Goto, TypeInv
  <1>2. ASSUME NEW q \in Loaders
        PROVE  /\ pc'[q] = "merge" => idx'[q] \in Sources
               /\ pc'[q] = "step" => idx'[q] \in 1..Len(Steps)
    BY <1>1 DEF TypeInv
  <1> QED BY <1>1, <1>2

\* There is a number of steps.
LEMMA StepsCounted == Len(Steps) \in Nat
  BY StepsAssumption, LenProperties

\* The steps come after the last source, the publication after the last step.
LEMMA NextSourceTyped ==
    ASSUME TypeInv, NEW p \in Loaders, pc[p] = "merge", NextSource(p)
    PROVE  /\ pc' \in [Loaders -> PCs] /\ idx' \in [Loaders -> Nat] /\ pc'[p] # "idle"
           /\ pc'[p] = "merge" => idx'[p] = idx[p] + 1
           /\ \A q \in Loaders \ {p} : pc'[q] = pc[q] /\ idx'[q] = idx[q]
           /\ \A q \in Loaders : /\ pc'[q] = "merge" => idx'[q] \in Sources
                                 /\ pc'[q] = "step" => idx'[q] \in 1..Len(Steps)
  <1>1. idx[p] \in 1..NumSources /\ NumSources \in Nat
    BY NumSourcesAssumption DEF TypeInv, Sources
  <1>2. CASE idx[p] < NumSources
    <2>1. Goto(p, "merge", idx[p] + 1) /\ idx[p] + 1 \in Sources /\ idx[p] + 1 \in Nat
      BY <1>1, <1>2 DEF NextSource, Sources
    <2>2. "merge" \in PCs
      BY DEF PCs
    <2> QED BY <2>1, <2>2, GotoTyped
  <1>3. CASE ~(idx[p] < NumSources)
    <2>1. Goto(p, AfterStep(0), 1)
      BY <1>3 DEF NextSource
    <2>2. AfterStep(0) \in {"step", "publish"} /\ (AfterStep(0) = "step" => 1 \in 1..Len(Steps))
      BY StepsCounted DEF AfterStep
    <2>3. AfterStep(0) \in PCs /\ AfterStep(0) # "merge" /\ AfterStep(0) # "idle"
      BY <2>2 DEF PCs
    <2> HIDE DEF PCs
    <2> QED BY <2>1, <2>2, <2>3, GotoTyped
  <1> QED BY <1>2, <1>3

\* A step is followed by the next one, the last by the publication.
LEMMA NextStepTyped ==
    ASSUME TypeInv, NEW p \in Loaders, pc[p] = "step", Goto(p, AfterStep(idx[p]), idx[p] + 1)
    PROVE  /\ pc' \in [Loaders -> PCs] /\ idx' \in [Loaders -> Nat]
           /\ pc'[p] \in {"step", "publish"}
           /\ \A q \in Loaders \ {p} : pc'[q] = pc[q] /\ idx'[q] = idx[q]
           /\ \A q \in Loaders : /\ pc'[q] = "merge" => idx'[q] \in Sources
                                 /\ pc'[q] = "step" => idx'[q] \in 1..Len(Steps)
  <1>1. idx[p] \in 1..Len(Steps) /\ idx[p] + 1 \in Nat
    BY StepsCounted DEF TypeInv
  <1>2. /\ AfterStep(idx[p]) \in {"step", "publish"}
        /\ AfterStep(idx[p]) = "step" => idx[p] + 1 \in 1..Len(Steps)
    BY <1>1, StepsCounted DEF AfterStep
  <1>3. AfterStep(idx[p]) \in PCs /\ AfterStep(idx[p]) # "merge"
    BY <1>2 DEF PCs
  <1> QED BY <1>1, <1>2, <1>3, GotoTyped

\* The heap after source i has returned, and the slot it returns.
SourceHeap(i) == IF IsObject(orig[i]) /\ i \notin shared THEN Append(heap, orig[i].inner) ELSE heap
SourceSlot(i) == IF i \in shared THEN slotOf[i] ELSE SlotAt(orig[i], Len(SourceHeap(i)))

\* What a source returns, decoded or shared, is what it was given.
LEMMA SourceObject ==
    ASSUME GivenInv, TypeInv, HeapOK, KeptOK, NEW i \in Sources,
           NEW h, h = SourceHeap(i), NEW s, s = SourceSlot(i)
    PROVE  /\ h \in Seq(Objects) /\ Len(h) >= Len(heap)
           /\ \A a \in 1..Len(heap) : h[a] = heap[a]
           /\ SlotIn(s, h) /\ s.kind = orig[i].kind
           /\ s.ref # 0 => s.ref \notin 1..Len(heap) \/ (s.ref = i /\ i \in shared)
           /\ DeepIn(s, h) = orig[i]
  <1>1. /\ Len(heap) \in Nat /\ NumSources \in Nat /\ i \in 1..NumSources
        /\ Len(heap) >= NumSources /\ heap \in Seq(Objects)
    BY NumSourcesAssumption, LenProperties DEF TypeInv, Sources, HeapOK
  <1>2. /\ orig[i] \in Deeps /\ orig[i].inner \in Objects
        /\ ~IsObject(orig[i]) => orig[i].inner = NoInner
    BY DeepValuesTyped DEF GivenInv, Deeps
  <1>3. orig[i] = [kind |-> orig[i].kind, val |-> orig[i].val, inner |-> orig[i].inner]
    BY <1>2 DEF Deeps
  <1>4. ASSUME NEW a \in Nat, s = SlotAt(orig[i], a)
        PROVE  /\ s = [kind |-> orig[i].kind, val |-> orig[i].val,
                       ref |-> IF IsObject(orig[i]) THEN a ELSE 0]
               /\ s \in Slots /\ (IsObject(s) <=> IsObject(orig[i]))
    BY <1>2, <1>4 DEF SlotAt, Slots, Deeps, IsObject
  <1>5. CASE IsObject(orig[i]) /\ i \notin shared
    <2>1. /\ h \in Seq(Objects) /\ Len(h) = Len(heap) + 1
          /\ \A a \in 1..Len(heap) : h[a] = heap[a]
          /\ h[Len(heap) + 1] = orig[i].inner
      BY <1>1, <1>2, <1>5, AppendProperties DEF SourceHeap
    <2>2. s = SlotAt(orig[i], Len(h)) /\ Len(h) \in Nat /\ IsObject(orig[i])
      BY <1>1, <1>5, <2>1 DEF SourceSlot
    <2>3. /\ s = [kind |-> orig[i].kind, val |-> orig[i].val, ref |-> Len(heap) + 1]
          /\ s \in Slots /\ IsObject(s)
      BY <1>4, <2>1, <2>2
    <2>4. DeepIn(s, h) = orig[i]
      BY <1>1, <1>3, <2>1, <2>3 DEF DeepIn
    <2> QED BY <1>1, <2>1, <2>3, <2>4 DEF SlotIn
  <1>6. CASE ~(IsObject(orig[i]) /\ i \notin shared)
    <2>1. h = heap
      BY <1>6 DEF SourceHeap
    <2>2. CASE i \in shared
      <3>1. s = SlotAt(orig[i], i) /\ i \in Nat
        BY <1>1, <2>2 DEF GivenInv, SourceSlot
      <3>2. heap[i] = orig[i].inner
        BY <2>2 DEF KeptOK
      <3>3. /\ s = [kind |-> orig[i].kind, val |-> orig[i].val,
                    ref |-> IF IsObject(orig[i]) THEN i ELSE 0]
            /\ s \in Slots /\ (IsObject(s) <=> IsObject(orig[i]))
        BY <1>4, <3>1
      <3>4. DeepIn(s, h) = orig[i]
        BY <1>1, <1>2, <1>3, <2>1, <3>2, <3>3 DEF DeepIn
      <3> QED BY <1>1, <2>1, <2>2, <3>3, <3>4 DEF SlotIn
    <2>3. CASE i \notin shared
      <3>1. ~IsObject(orig[i])
        BY <1>6, <2>3
      <3>2. s = SlotAt(orig[i], Len(heap))
        BY <2>1, <2>3 DEF SourceSlot
      <3>3. /\ s = [kind |-> orig[i].kind, val |-> orig[i].val, ref |-> 0]
            /\ s \in Slots /\ ~IsObject(s)
        BY <1>1, <1>4, <3>1, <3>2
      <3>4. DeepIn(s, h) = orig[i]
        BY <1>2, <1>3, <3>1, <3>3 DEF DeepIn
      <3> QED BY <1>1, <2>1, <3>3, <3>4 DEF SlotIn
    <2> QED BY <2>2, <2>3
  <1> QED BY <1>5, <1>6

\* A Load merges a source: into what is its own, and as if it were alone.
LEMMA MergeSourceClean ==
    ASSUME GivenInv, CleanInv, AliasFree, NEW p \in Loaders, MergeSource(p)
    PROVE  CleanInv'
  <1> USE DEF CleanInv
  <1> DEFINE i == idx[p]
             h == SourceHeap(i)
             s == SourceSlot(i)
             d == acc[p]
             m == MergeSlot(d, s, h)
  <1>1. /\ pc[p] = "merge" /\ NextSource(p)
        /\ acc' = [acc EXCEPT ![p] = m.slot] /\ heap' = m.heap
        /\ expect' = [expect EXCEPT ![p] = MergeDeep(@, orig[i])]
        /\ UNCHANGED <<shared, orig, slotOf, env, published, loads>>
    BY DEF MergeSource, SourceHeap, SourceSlot
  <1>2. i \in Sources /\ NumSources \in Nat /\ Sources = 1..NumSources /\ Len(heap) \in Nat
    BY <1>1, NumSourcesAssumption, LenProperties DEF TypeInv, Sources
  <1>3. /\ h \in Seq(Objects) /\ Len(h) >= Len(heap)
        /\ \A a \in 1..Len(heap) : h[a] = heap[a]
        /\ SlotIn(s, h) /\ s.kind = orig[i].kind
        /\ s.ref # 0 => s.ref \notin 1..Len(heap) \/ (s.ref = i /\ i \in shared)
        /\ DeepIn(s, h) = orig[i]
    BY <1>2, SourceObject
  <1>4. Len(h) \in Nat
    BY <1>3, LenProperties
  <1>5. /\ d \in Slots /\ SlotOK(d) /\ Deep(d) = expect[p] /\ expect[p] \in Deeps
        /\ expect[p] = MergedUpTo[i - 1]
    BY <1>1 DEF TypeInv, HeapOK, ProgressOK
  <1>6. d.ref # 0 => d.ref \in 1..Len(heap)
    BY <1>2, <1>5 DEF SlotOK, Slots, Made, SharedSlice, GivenInv, HeapOK
  <1>7. SlotIn(d, h) /\ DeepIn(d, h) = Deep(d)
    <2>1. DeepIn(d, h) = Deep(d)
      BY <1>3, <1>6 DEF DeepIn, Deep
    <2> QED BY <1>2, <1>3, <1>4, <1>5, <1>6, <2>1 DEF SlotIn, SlotOK, Slots
  <1> HIDE DEF s, h
  <1>8. /\ m.heap \in Seq(Objects) /\ Len(m.heap) >= Len(h)
        /\ SlotIn(m.slot, m.heap)
        /\ \A a \in 1..Len(h) : m.heap[a] = h[a] \/ (a = d.ref /\ d.kind = "map")
        /\ \/ m.slot = d
           \/ m.slot.ref = Len(h) + 1
           \/ m.slot = s /\ ~(s.kind = "map" /\ d.kind \in {"none", "map"})
        /\ DeepIn(m.slot, m.heap) = MergeDeep(DeepIn(d, h), DeepIn(s, h))
    BY <1>3, <1>7, MergeSlotIs
  <1> HIDE DEF m
  <1>9. /\ acc'[p] = m.slot /\ acc' \in [Loaders -> Slots]
        /\ \A q \in Loaders \ {p} : acc'[q] = acc[q]
    BY <1>1, <1>8 DEF SlotIn, TypeInv
  <1>10. MergeDeep(expect[p], orig[i]) \in Deeps
    BY <1>2, <1>5, MergeDeepIs DEF GivenInv
  <1>11. /\ expect'[p] = MergeDeep(expect[p], orig[i]) /\ expect' \in [Loaders -> Deeps]
         /\ \A q \in Loaders \ {p} : expect'[q] = expect[q]
    BY <1>1, <1>10 DEF TypeInv
  <1>12. /\ pc' \in [Loaders -> PCs] /\ idx' \in [Loaders -> Nat] /\ pc'[p] # "idle"
         /\ pc'[p] = "merge" => idx'[p] = idx[p] + 1
         /\ \A q \in Loaders \ {p} : pc'[q] = pc[q] /\ idx'[q] = idx[q]
         /\ \A q \in Loaders : /\ pc'[q] = "merge" => idx'[q] \in Sources
                               /\ pc'[q] = "step" => idx'[q] \in 1..Len(Steps)
    BY <1>1, NextSourceTyped
  <1>13. TypeInv'
    BY <1>1, <1>8, <1>9, <1>11, <1>12 DEF TypeInv
  <1>14. OthersKept(p)
    BY <1>9, <1>11, <1>12 DEF OthersKept
  <1>15. Len(heap') \in Nat /\ Len(heap') >= Len(heap)
    BY <1>1, <1>2, <1>3, <1>4, <1>8, LenProperties
  <1>16. WritesItsOwn(p)
    <2>1. ASSUME NEW a \in 1..Len(heap), heap'[a] # heap[a]
          PROVE  a = d.ref /\ Made(a)
      <3>1. a \in 1..Len(h) /\ h[a] = heap[a]
        BY <1>2, <1>3, <1>4
      <3>2. a = d.ref /\ d.kind = "map"
        BY <1>1, <1>8, <2>1, <3>1
      <3>3. a # 0
        BY <1>2
      <3> QED BY <1>5, <3>2, <3>3 DEF SlotOK
    <2> QED BY <1>1, <1>8, <1>15, <2>1 DEF WritesItsOwn
  <1>17. \/ m.slot = d
         \/ m.slot.ref \in Nat /\ m.slot.ref > Len(heap)
         \/ m.slot = s /\ s.ref = 0
         \/ m.slot = s /\ s.ref = i /\ i \in shared /\ orig[i].kind = "slice" /\ s.kind = "slice"
    <2>1. CASE m.slot = d
      BY <2>1
    <2>2. CASE m.slot.ref = Len(h) + 1
      BY <1>2, <1>3, <1>4, <2>2
    <2>3. CASE m.slot = s /\ ~(s.kind = "map" /\ d.kind \in {"none", "map"}) /\ s.ref # 0
      <3>1. s.ref \in Nat /\ IsObject(s)
        BY <1>3, <2>3 DEF SlotIn, Slots
      <3>2. CASE s.ref \notin 1..Len(heap)
        BY <1>2, <2>3, <3>1, <3>2
      <3>3. CASE s.ref = i /\ i \in shared
        <4>1. d.kind = MergedUpTo[i - 1].kind
          BY <1>5 DEF Deep
        <4>2. orig[i].kind = "map" => d.kind \in {"none", "map"}
          BY <3>3, <4>1 DEF AliasFree, MapsAreCopied
        <4> QED BY <1>3, <2>3, <3>1, <3>3, <4>2 DEF IsObject
      <3> QED BY <1>3, <2>3, <3>2, <3>3
    <2> QED BY <1>8, <2>1, <2>2, <2>3
  <1>18. ComesToOwn(p)
    BY <1>2, <1>9, <1>17 DEF ComesToOwn, Made
  <1>19. SlotOK(acc[p])'
    <2> DEFINE t == acc'[p]
    <2>1. t = m.slot /\ t.ref \in Nat /\ (IsObject(t) <=> t.ref # 0) /\ t.ref \in 0..Len(heap')
      BY <1>1, <1>8, <1>9 DEF SlotIn, Slots
    <2>2. t.ref # 0 => \/ t.ref \in NumSources + 1..Len(heap')
                       \/ t.ref \in shared /\ orig[t.ref].kind = "slice" /\ t.kind = "slice"
      <3>1. CASE m.slot = d
        BY <1>2, <1>5, <1>15, <2>1, <3>1 DEF SlotOK, Made, SharedSlice
      <3>2. CASE m.slot # d
        BY <1>2, <1>15, <1>17, <2>1, <3>2 DEF HeapOK
      <3> QED BY <3>1, <3>2
    <2> QED BY <1>1, <2>1, <2>2 DEF SlotOK, Made, SharedSlice, IsObject
  <1>20. Deep(acc[p])' = expect'[p]
    <2>1. Deep(acc[p])' = DeepIn(m.slot, m.heap)
      BY <1>1, <1>9 DEF Deep, DeepIn
    <2> QED BY <1>3, <1>5, <1>7, <1>8, <1>11, <2>1
  <1>21. pc'[p] = "merge" => expect'[p] = MergedUpTo[idx'[p] - 1]
    <2>1. (idx[p] + 1) - 1 = i
      BY <1>2
    <2>2. MergedUpTo[i] = MergeDeep(MergedUpTo[i - 1], orig[i])
      BY <1>2, MergedUpToIs DEF GivenInv
    <2> QED BY <1>5, <1>11, <1>12, <2>1, <2>2
  <1> QED BY <1>1, <1>12, <1>13, <1>14, <1>16, <1>18, <1>19, <1>20, <1>21, OwnStep

-----------------------------------------------------------------------------
(* The steps after the merge                                               *)

\* WithEnvSubst expands what is the Load's own; a shared slice it leaves as it is.
LEMMA SubstClean ==
    ASSUME GivenInv, CleanInv, AliasFree, NEW p \in Loaders, Subst(p)
    PROVE  CleanInv'
  <1> USE DEF CleanInv
  <1> DEFINE d == acc[p]
  <1>1. /\ pc[p] = "step" /\ Steps[idx[p]] = "subst" /\ idx[p] \in 1..Len(Steps)
        /\ Goto(p, AfterStep(idx[p]), idx[p] + 1)
        /\ heap' = IF d.ref = 0 THEN heap ELSE [heap EXCEPT ![d.ref] = ExpandInner(@)]
        /\ UNCHANGED <<shared, orig, slotOf, env, published, loads>>
    BY DEF Subst, AtStep, TypeInv
  <1>2. NumSources \in Nat /\ Sources = 1..NumSources /\ Len(heap) \in Nat /\ Len(heap) >= NumSources
    BY NumSourcesAssumption, LenProperties DEF TypeInv, Sources, HeapOK
  <1>3. /\ d \in Slots /\ SlotOK(d) /\ Deep(d) = expect[p] /\ expect[p] \in Deeps
    BY <1>1 DEF TypeInv, HeapOK, ProgressOK
  <1>4. d.ref # 0 => d.ref \in 1..Len(heap) /\ heap[d.ref] \in Objects
    <2>1. d.ref # 0 => d.ref \in 1..Len(heap)
      BY <1>2, <1>3 DEF SlotOK, Slots, Made, SharedSlice, GivenInv
    <2> QED BY <2>1, ElementOfSeq DEF TypeInv
  <1>5. /\ acc'[p] = [kind |-> d.kind, val |-> Expanded(d.val), ref |-> d.ref]
        /\ \A q \in Loaders \ {p} : acc'[q] = acc[q]
        /\ acc' \in [Loaders -> Slots]
    <2>1. Expanded(d.val) \in Strings
      BY <1>3, ExpandTyped DEF Slots, TypeInv
    <2>2. acc' = [acc EXCEPT ![p] = [kind |-> d.kind, val |-> Expanded(d.val), ref |-> d.ref]]
      <3>1. acc' = [acc EXCEPT ![p] = [d EXCEPT !.val = Expanded(d.val)]]
        BY DEF Subst
      <3>2. [d EXCEPT !.val = Expanded(d.val)] = [kind |-> d.kind, val |-> Expanded(d.val), ref |-> d.ref]
        BY <1>3 DEF Slots
      <3> QED BY <3>1, <3>2
    <2> QED BY <1>3, <2>1, <2>2 DEF TypeInv, Slots
  <1>6. /\ expect'[p] = [kind |-> expect[p].kind, val |-> Expanded(expect[p].val),
                         inner |-> ExpandInner(expect[p].inner)]
        /\ \A q \in Loaders \ {p} : expect'[q] = expect[q]
        /\ expect' \in [Loaders -> Deeps]
    <2> DEFINE e == [kind |-> expect[p].kind, val |-> Expanded(expect[p].val),
                     inner |-> ExpandInner(expect[p].inner)]
    <2>1. e \in Deeps
      BY <1>3, ExpandTyped DEF Deeps, TypeInv
    <2>2. expect' = [expect EXCEPT ![p].val = Expanded(@), ![p].inner = ExpandInner(@)]
      BY DEF Subst
    <2>3. expect'[p] = e /\ \A q \in Loaders \ {p} : expect'[q] = expect[q]
      BY <1>3, <2>2 DEF TypeInv, Deeps
    <2>4. expect' = [q \in Loaders |-> expect'[q]]
      BY <2>2 DEF TypeInv
    <2> HIDE DEF e
    <2>5. expect' \in [Loaders -> Deeps]
      BY <2>1, <2>3, <2>4 DEF TypeInv
    <2> QED BY <2>3, <2>5 DEF e
  <1>7. /\ pc' \in [Loaders -> PCs] /\ idx' \in [Loaders -> Nat] /\ pc'[p] \in {"step", "publish"}
        /\ \A q \in Loaders \ {p} : pc'[q] = pc[q] /\ idx'[q] = idx[q]
        /\ \A q \in Loaders : /\ pc'[q] = "merge" => idx'[q] \in Sources
                              /\ pc'[q] = "step" => idx'[q] \in 1..Len(Steps)
    BY <1>1, NextStepTyped
  <1>8. /\ heap' \in Seq(Objects) /\ Len(heap') = Len(heap)
        /\ \A a \in 1..Len(heap) : heap'[a] = IF a = d.ref THEN ExpandInner(heap[a]) ELSE heap[a]
    <2>1. CASE d.ref = 0
      BY <1>1, <1>2, <2>1 DEF TypeInv
    <2>2. CASE d.ref # 0
      <3>1. ExpandInner(heap[d.ref]) \in Objects
        BY <1>4, <2>2, ExpandTyped DEF TypeInv
      <3>2. heap' = [heap EXCEPT ![d.ref] = ExpandInner(heap[d.ref])]
        BY <1>1, <2>2
      <3> QED BY <1>4, <2>2, <3>1, <3>2, ExceptSeq DEF TypeInv
    <2> QED BY <2>1, <2>2
  <1>9. TypeInv'
    BY <1>1, <1>5, <1>6, <1>7, <1>8 DEF TypeInv
  <1>10. OthersKept(p)
    BY <1>5, <1>6, <1>7 DEF OthersKept
  <1>11. ASSUME SharedSlice(d.ref), d.ref # 0 PROVE ExpandInner(heap[d.ref]) = heap[d.ref]
    <2>1. Substitutes
      BY <1>1, StepsAssumption, LenProperties DEF Substitutes
    <2>2. \A k \in Inner : heap[d.ref][k] # Placeholder
      BY <1>11, <2>1 DEF AliasFree, SharedSlice, KeptOK
    <2> QED BY <1>4, <1>11, <2>2 DEF ExpandInner, Expanded, Objects
  <1>12. WritesItsOwn(p)
    <2>1. ASSUME NEW a \in 1..Len(heap), heap'[a] # heap[a]
          PROVE  a = d.ref /\ Made(a)
      BY <1>2, <1>3, <1>8, <1>11, <2>1 DEF SlotOK
    <2> QED BY <1>2, <1>8, <2>1 DEF WritesItsOwn
  <1>13. ComesToOwn(p)
    BY <1>5 DEF ComesToOwn
  <1>14. SlotOK(acc[p])'
    BY <1>1, <1>3, <1>5, <1>8 DEF SlotOK, Made, SharedSlice, IsObject
  <1>15. Deep(acc[p])' = expect'[p]
    <2>1. expect[p].kind = d.kind /\ expect[p].val = d.val
          /\ expect[p].inner = IF d.ref = 0 THEN NoInner ELSE heap[d.ref]
      BY <1>3 DEF Deep
    <2>2. Deep(acc[p])' = [kind |-> d.kind, val |-> Expanded(d.val),
                           inner |-> IF d.ref = 0 THEN NoInner ELSE heap'[d.ref]]
      BY <1>5 DEF Deep
    <2>3. ExpandInner(NoInner) = NoInner
      BY DEF ExpandInner, NoInner, Expanded, Absent, Placeholder
    <2>4. d.ref # 0 => heap'[d.ref] = ExpandInner(heap[d.ref])
      BY <1>4, <1>8
    <2> QED BY <1>6, <2>1, <2>2, <2>3, <2>4
  <1> QED BY <1>1, <1>7, <1>9, <1>10, <1>12, <1>13, <1>14, <1>15, OwnStep

\* A transform sets keys of a map that is the Load's own, or of a new one.
LEMMA SetClean ==
    ASSUME GivenInv, CleanInv, NEW p \in Loaders, Set(p)
    PROVE  CleanInv'
  <1> USE DEF CleanInv
  <1> DEFINE d == acc[p]
             o == SetInner(NoInner)
  <1>1. /\ pc[p] = "step" /\ d.kind \in {"none", "map"}
        /\ Goto(p, AfterStep(idx[p]), idx[p] + 1)
        /\ UNCHANGED <<shared, orig, slotOf, env, published, loads>>
    BY DEF Set, AtStep
  <1>2. NumSources \in Nat /\ Sources = 1..NumSources /\ Len(heap) \in Nat /\ Len(heap) >= NumSources
    BY NumSourcesAssumption, LenProperties DEF TypeInv, Sources, HeapOK
  <1>3. /\ d \in Slots /\ SlotOK(d) /\ Deep(d) = expect[p] /\ expect[p] \in Deeps
    BY <1>1 DEF TypeInv, HeapOK, ProgressOK
  <1>4. o \in Objects /\ \A x : SetInner(x) = o
    BY ConstantsTyped DEF SetInner, Objects
  <1> HIDE DEF o
  <1>5. /\ expect'[p] = [kind |-> "map", val |-> d.val, inner |-> o]
        /\ \A q \in Loaders \ {p} : expect'[q] = expect[q]
        /\ expect' \in [Loaders -> Deeps]
    <2> DEFINE e == [kind |-> "map", val |-> d.val, inner |-> o]
    <2>1. e \in Deeps
      BY <1>3, <1>4 DEF Deeps, Slots, Kinds
    <2>2. expect[p].val = d.val
      BY <1>3 DEF Deep
    <2>3. expect' = [expect EXCEPT ![p].kind = "map", ![p].inner = SetInner(@)]
      BY DEF Set
    <2>4. expect'[p] = e /\ \A q \in Loaders \ {p} : expect'[q] = expect[q]
      BY <1>3, <1>4, <2>2, <2>3 DEF TypeInv, Deeps
    <2>5. expect' = [q \in Loaders |-> expect'[q]]
      BY <2>3 DEF TypeInv
    <2> HIDE DEF e
    <2>6. expect' \in [Loaders -> Deeps]
      BY <2>1, <2>4, <2>5 DEF TypeInv
    <2> QED BY <2>4, <2>6 DEF e
  <1>6. /\ pc' \in [Loaders -> PCs] /\ idx' \in [Loaders -> Nat] /\ pc'[p] \in {"step", "publish"}
        /\ \A q \in Loaders \ {p} : pc'[q] = pc[q] /\ idx'[q] = idx[q]
        /\ \A q \in Loaders : /\ pc'[q] = "merge" => idx'[q] \in Sources
                              /\ pc'[q] = "step" => idx'[q] \in 1..Len(Steps)
    BY <1>1, NextStepTyped
  <1>7. /\ heap' \in Seq(Objects) /\ Len(heap') \in Nat /\ Len(heap') >= Len(heap)
        /\ acc'[p].ref \in 1..Len(heap') /\ heap'[acc'[p].ref] = o
        /\ acc'[p] = [kind |-> "map", val |-> d.val, ref |-> acc'[p].ref]
        /\ \A q \in Loaders \ {p} : acc'[q] = acc[q]
        /\ acc' \in [Loaders -> Slots]
        /\ \A a \in 1..Len(heap) : heap'[a] = heap[a] \/ (a = d.ref /\ Made(a))
        /\ Made(acc'[p].ref) => acc'[p].ref = d.ref
        /\ acc'[p].ref > NumSources
    <2>1. CASE d.kind = "map"
      <3>1. heap' = [heap EXCEPT ![d.ref] = o] /\ acc' = acc
        BY <1>4, <2>1 DEF Set
      <3>2. Made(d.ref)
        BY <1>3, <2>1 DEF SlotOK, IsObject
      <3>3. d.ref \in 1..Len(heap) /\ d.ref > NumSources
        BY <1>2, <3>2 DEF Made
      <3>4. /\ heap' \in Seq(Objects) /\ Len(heap') = Len(heap)
            /\ \A a \in 1..Len(heap) : heap'[a] = IF a = d.ref THEN o ELSE heap[a]
        BY <1>4, <3>1, <3>3, ExceptSeq DEF TypeInv
      <3> QED BY <1>2, <1>3, <2>1, <3>1, <3>2, <3>3, <3>4 DEF TypeInv, Slots
    <2>2. CASE d.kind = "none"
      <3>1. heap' = Append(heap, o)
            /\ acc' = [acc EXCEPT ![p].kind = "map", ![p].ref = Len(heap) + 1]
        BY <1>4, <2>2 DEF Set
      <3> DEFINE t == [kind |-> "map", val |-> d.val, ref |-> Len(heap) + 1]
      <3>2. t \in Slots
        BY <1>2, <1>3 DEF Slots, Kinds
      <3>3. /\ acc'[p] = t /\ acc' = [q \in Loaders |-> acc'[q]]
            /\ \A q \in Loaders \ {p} : acc'[q] = acc[q]
        BY <1>3, <3>1 DEF TypeInv, Slots
      <3>4. /\ t.ref = Len(heap) + 1 /\ t = [kind |-> "map", val |-> d.val, ref |-> t.ref]
        OBVIOUS
      <3> HIDE DEF t
      <3>5. /\ acc'[p] = t /\ acc' \in [Loaders -> Slots]
            /\ \A q \in Loaders \ {p} : acc'[q] = acc[q]
        BY <3>2, <3>3 DEF TypeInv
      <3>6. /\ heap' \in Seq(Objects) /\ Len(heap') = Len(heap) + 1
            /\ \A a \in 1..Len(heap) : heap'[a] = heap[a]
            /\ heap'[Len(heap) + 1] = o
        BY <1>4, <3>1, AppendProperties DEF TypeInv
      <3> QED BY <1>2, <3>4, <3>5, <3>6 DEF Made
    <2> QED BY <1>1, <2>1, <2>2
  <1>8. TypeInv'
    BY <1>1, <1>5, <1>6, <1>7 DEF TypeInv
  <1>9. OthersKept(p)
    BY <1>5, <1>6, <1>7 DEF OthersKept
  <1>10. WritesItsOwn(p) /\ ComesToOwn(p)
    BY <1>7 DEF WritesItsOwn, ComesToOwn
  <1>11. SlotOK(acc[p])'
    <2> DEFINE t == acc'[p]
    <2>1. t.kind = "map" /\ t.ref # 0 /\ t.ref \in NumSources + 1..Len(heap')
      BY <1>2, <1>7
    <2> QED BY <2>1 DEF SlotOK, Made, IsObject
  <1>12. Deep(acc[p])' = expect'[p]
    BY <1>2, <1>5, <1>7 DEF Deep
  <1> QED BY <1>1, <1>6, <1>8, <1>9, <1>10, <1>11, <1>12, OwnStep

-----------------------------------------------------------------------------
(* A Load begins and ends                                                  *)

\* A Load begins with an empty map.
LEMMA BeginClean ==
    ASSUME GivenInv, CleanInv, NEW p \in Loaders, Begin(p)
    PROVE  CleanInv'
  <1> USE DEF CleanInv
  <1>1. /\ pc[p] = "idle" /\ Goto(p, "merge", 1) /\ acc' = [acc EXCEPT ![p] = EmptySlot]
        /\ UNCHANGED <<heap, shared, orig, slotOf, env, expect, published>>
    BY DEF Begin, BeginWith
  <1>2. acc[p] = EmptySlot /\ expect[p] = Nothing /\ SlotOK(acc[p]) /\ Deep(acc[p]) = expect[p]
    BY <1>1 DEF HeapOK, ProgressOK
  <1>3. acc' = acc
    BY <1>1, <1>2 DEF TypeInv
  <1>4. /\ pc' \in [Loaders -> PCs] /\ idx' \in [Loaders -> Nat]
        /\ pc'[p] = "merge" /\ idx'[p] = 1
        /\ \A q \in Loaders \ {p} : pc'[q] = pc[q] /\ idx'[q] = idx[q]
        /\ \A q \in Loaders : /\ pc'[q] = "merge" => idx'[q] \in Sources
                              /\ pc'[q] = "step" => idx'[q] \in 1..Len(Steps)
    <2>1. 1 \in Sources /\ 1 \in Nat /\ "merge" \in PCs
      BY NumSourcesAssumption DEF Sources, PCs
    <2> QED BY <1>1, <2>1, GotoTyped
  <1>5. TypeInv'
    BY <1>1, <1>3, <1>4 DEF TypeInv
  <1>6. OthersKept(p) /\ WritesItsOwn(p) /\ ComesToOwn(p)
    <2>1. Len(heap) \in Nat
      BY LenProperties DEF TypeInv
    <2> QED BY <1>1, <1>3, <1>4, <2>1 DEF OthersKept, WritesItsOwn, ComesToOwn, TypeInv
  <1>7. SlotOK(acc[p])' /\ Deep(acc[p])' = expect'[p]
    BY <1>1, <1>2, <1>3 DEF SlotOK, Made, SharedSlice, Deep
  <1>8. expect'[p] = MergedUpTo[idx'[p] - 1]
    <2>1. idx'[p] - 1 = 0
      BY <1>4
    <2> QED BY <1>1, <1>2, <2>1, MergedUpToIs DEF GivenInv
  <1> QED BY <1>1, <1>4, <1>5, <1>6, <1>7, <1>8, OwnStep

\* A Load ends: it lets go of its map or publishes it.
LEMMA LeaveClean ==
    ASSUME GivenInv, CleanInv, NEW p \in Loaders, Leave(p),
           \/ published' = published
           \/ published' = Append(published, [slot |-> acc[p], seen |-> Deep(acc[p])])
    PROVE  CleanInv'
  <1> USE DEF CleanInv
  <1> DEFINE snap == [slot |-> acc[p], seen |-> Deep(acc[p])]
             N == Len(published)
  <1>1. /\ Goto(p, "idle", 1) /\ acc' = [acc EXCEPT ![p] = EmptySlot]
        /\ expect' = [expect EXCEPT ![p] = Nothing]
        /\ UNCHANGED <<heap, shared, orig, slotOf, env, loads>>
    BY DEF Leave
  <1>2. /\ pc' \in [Loaders -> PCs] /\ idx' \in [Loaders -> Nat]
        /\ pc'[p] = "idle" /\ idx'[p] = 1
        /\ \A q \in Loaders \ {p} : pc'[q] = pc[q] /\ idx'[q] = idx[q]
        /\ \A q \in Loaders : /\ pc'[q] = "merge" => idx'[q] \in Sources
                              /\ pc'[q] = "step" => idx'[q] \in 1..Len(Steps)
    <2>1. "idle" \in PCs /\ 1 \in Nat
      BY DEF PCs
    <2> QED BY <1>1, <2>1, GotoTyped
  <1>3. /\ acc' \in [Loaders -> Slots] /\ expect' \in [Loaders -> Deeps]
        /\ acc'[p] = EmptySlot /\ expect'[p] = Nothing
        /\ \A q \in Loaders \ {p} : acc'[q] = acc[q] /\ expect'[q] = expect[q]
    BY <1>1, ConstantsTyped DEF TypeInv
  <1>4. acc[p] \in Slots /\ SlotOK(acc[p]) /\ Deep(acc[p]) = expect[p] /\ expect[p] \in Deeps /\ Private(p)
    BY DEF TypeInv, HeapOK, ProgressOK
  <1>5. /\ published' \in Seq([slot : Slots, seen : Deeps])
        /\ N \in Nat /\ (Len(published') = N \/ Len(published') = N + 1)
        /\ \A n \in 1..N : published'[n] = published[n]
        /\ Len(published') = N + 1 => published'[N + 1] = snap
    <2>1. snap \in [slot : Slots, seen : Deeps]
      BY <1>4
    <2>2. published \in Seq([slot : Slots, seen : Deeps]) /\ N \in Nat
      BY LenProperties DEF TypeInv
    <2> HIDE DEF snap
    <2>3. CASE published' = published
      BY <2>2, <2>3
    <2>4. CASE published' = Append(published, snap)
      BY <2>1, <2>2, <2>4, AppendProperties
    <2> QED BY <2>3, <2>4 DEF snap
  <1>6. TypeInv'
    BY <1>1, <1>2, <1>3, <1>5 DEF TypeInv
  <1>7. \A s : SlotOK(s)' = SlotOK(s)
    BY <1>1 DEF SlotOK, Made, SharedSlice
  <1>8. ~Made(0)
    BY NumSourcesAssumption DEF Made
  <1>9. ASSUME NEW q \in Loaders PROVE SlotOK(acc[q])' /\ Private(q)'
    <2>1. CASE q = p
      <3>1. acc'[q].ref = 0 /\ SlotOK(acc[q])'
        BY <1>3, <2>1 DEF EmptySlot, SlotOK, IsObject
      <3>2. ~Made(acc[q].ref)'
        BY <3>1, NumSourcesAssumption DEF Made
      <3> QED BY <3>1, <3>2 DEF Private
    <2>2. CASE q # p
      <3>1. acc'[q] = acc[q] /\ SlotOK(acc[q]) /\ Private(q)
        BY <1>3, <2>2 DEF HeapOK
      <3>2. SlotOK(acc[q])'
        BY <1>1, <3>1 DEF SlotOK, Made, SharedSlice
      <3>3. ASSUME Made(acc[q].ref)
            PROVE  /\ \A r \in Loaders \ {q} : acc'[r].ref # acc[q].ref
                   /\ \A n \in 1..Len(published') : published'[n].slot.ref # acc[q].ref
        <4>1. acc[q].ref # 0
          BY <1>8, <3>3
        <4>2. acc'[p].ref = 0
          BY <1>3 DEF EmptySlot
        <4>3. \A r \in Loaders \ {q} : acc'[r].ref # acc[q].ref
          BY <1>3, <3>1, <3>3, <4>1, <4>2 DEF Private
        <4>4. acc[p].ref # acc[q].ref
          BY <2>2, <3>1, <3>3 DEF Private
        <4> QED BY <1>5, <3>1, <3>3, <4>3, <4>4 DEF Private
      <3>4. Made(acc[q].ref)' = Made(acc[q].ref)
        BY <1>1, <3>1 DEF Made
      <3> QED BY <3>1, <3>2, <3>3, <3>4 DEF Private
    <2> QED BY <2>1, <2>2
  <1>10. ASSUME NEW n \in 1..Len(published')
         PROVE  SlotOK(published[n].slot)' /\ Deep(published[n].slot)' = published'[n].seen
    <2>1. CASE n \in 1..N
      <3>1. published'[n] = published[n] /\ SlotOK(published[n].slot)
        BY <1>5, <2>1 DEF HeapOK
      <3> QED BY <1>1, <2>1, <3>1 DEF SlotOK, Made, SharedSlice, Deep, KeptOK
    <2>2. CASE n = N + 1 /\ Len(published') = N + 1
      <3>1. published'[n].slot = acc[p] /\ published'[n].seen = Deep(acc[p])
        BY <1>5, <2>2
      <3> QED BY <1>1, <1>4, <3>1 DEF SlotOK, Made, SharedSlice, Deep
    <2> QED BY <1>5, <2>1, <2>2
  <1>11. HeapOK'
    <2>1. \A q \in Loaders : pc'[q] = "idle" => acc'[q] = EmptySlot /\ expect'[q] = Nothing
      BY <1>2, <1>3 DEF HeapOK
    <2> QED BY <1>1, <1>9, <1>10, <2>1 DEF HeapOK
  <1>12. ProgressOK'
    <2> SUFFICES ASSUME NEW q \in Loaders
                 PROVE  /\ Deep(acc[q])' = expect'[q]
                        /\ pc'[q] = "merge" => expect'[q] = MergedUpTo'[idx'[q] - 1]
      BY DEF ProgressOK
    <2>1. CASE q = p
      BY <1>2, <1>3, <2>1 DEF Deep, EmptySlot, Nothing, NoInner
    <2>2. CASE q # p
      <3>1. MergedUpTo' = MergedUpTo
        BY <1>1, MergedUpToStays
      <3> QED BY <1>1, <1>2, <1>3, <2>2, <3>1 DEF Deep, ProgressOK
    <2> QED BY <2>1, <2>2
  <1>13. KeptOK'
    BY <1>1, <1>10 DEF KeptOK
  <1> QED BY <1>6, <1>11, <1>12, <1>13

-----------------------------------------------------------------------------
(* The invariant is inductive                                              *)

\* The environment changes, or nothing does.
LEMMA NothingSharedMoves ==
    ASSUME CleanInv, env' \in EnvValues,
           UNCHANGED <<heap, shared, orig, slotOf, pc, idx, acc, expect, published>>
    PROVE  CleanInv'
  <1>1. MergedUpTo' = MergedUpTo
    BY MergedUpToStays
  <1>2. TypeInv'
    BY DEF CleanInv, TypeInv
  <1>3. HeapOK'
    BY DEF CleanInv, HeapOK, SlotOK, Private, Made, SharedSlice
  <1>4. ProgressOK'
    BY <1>1 DEF CleanInv, ProgressOK, Deep
  <1>5. KeptOK'
    BY DEF CleanInv, KeptOK, Deep
  <1> QED BY <1>2, <1>3, <1>4, <1>5 DEF CleanInv

\* No step changes what the sources were given.
LEMMA GivenStays ==
    ASSUME [Next]_vars
    PROVE  UNCHANGED <<shared, orig, slotOf>>
  BY DEF Next, vars, EnvChange, Begin, BeginWith, MergeSource, Subst, Set, Publish, Fail, Leave

\* Every step of a clean state leads to a clean state.
LEMMA NextCleanInv ==
    ASSUME GivenInv, AliasFree, CleanInv, [Next]_vars
    PROVE  CleanInv'
  <1>1. CASE EnvChange
    BY <1>1, NothingSharedMoves DEF EnvChange
  <1>2. CASE \E p \in Loaders : Begin(p) \/ MergeSource(p) \/ Subst(p) \/ Set(p) \/ Publish(p) \/ Fail(p)
    <2> PICK p \in Loaders : Begin(p) \/ MergeSource(p) \/ Subst(p) \/ Set(p) \/ Publish(p) \/ Fail(p)
      BY <1>2
    <2>1. CASE Begin(p)
      BY <2>1, BeginClean
    <2>2. CASE MergeSource(p)
      BY <2>2, MergeSourceClean
    <2>3. CASE Subst(p)
      BY <2>3, SubstClean
    <2>4. CASE Set(p)
      BY <2>4, SetClean
    <2>5. CASE Publish(p)
      BY <2>5, LeaveClean DEF Publish
    <2>6. CASE Fail(p)
      BY <2>6, LeaveClean DEF Fail
    <2> QED BY <2>1, <2>2, <2>3, <2>4, <2>5, <2>6
  <1>3. CASE UNCHANGED vars
    <2>1. env \in EnvValues
      BY DEF CleanInv, TypeInv
    <2> QED BY <1>3, <2>1, NothingSharedMoves DEF vars
  <1> QED BY <1>1, <1>2, <1>3 DEF Next

\* Every step keeps the invariant.
LEMMA NextShareInv == ShareInv /\ [Next]_vars => ShareInv'
  <1> SUFFICES ASSUME ShareInv, [Next]_vars PROVE ShareInv'
    OBVIOUS
  <1>1. UNCHANGED <<shared, orig, slotOf>>
    BY GivenStays
  <1>2. GivenInv'
    BY <1>1 DEF ShareInv, GivenInv
  <1>3. AliasFree' = AliasFree
    BY <1>1, AliasFreeStays
  <1>4. AliasFree => CleanInv'
    BY NextCleanInv DEF ShareInv
  <1> QED BY <1>2, <1>3, <1>4 DEF ShareInv

\* It holds in every state.
LEMMA ShareInvHolds == Spec => []ShareInv
  BY InitShareInv, NextShareInv, PTL DEF Spec

-----------------------------------------------------------------------------
(* Theorems                                                                *)

\* The holder of a published Configuration reads what was published, whatever Loads
\* run later, when no shared object is passed on as it is (src/synthra.go:169).
THEOREM SnapshotsKept == Spec => []SnapshotsStay
  <1>1. ShareInv => SnapshotsStay
    BY DEF ShareInv, CleanInv, KeptOK, SnapshotsStay
  <1> QED BY <1>1, ShareInvHolds, PTL

\* A Load leaves the maps its sources hold as they were, under the same condition
\* (src/source/map.go:21-42).
THEOREM SourcesKept == Spec => []SourcesAreUntouched
  <1>1. ASSUME ShareInv, AliasFree, NEW i \in shared PROVE Deep(slotOf[i]) = orig[i]
    <2>1. i \in Sources /\ heap[i] = orig[i].inner
      BY <1>1 DEF ShareInv, CleanInv, GivenInv, KeptOK
    <2>2. slotOf[i] = SlotAt(orig[i], i) /\ orig[i] \in Deeps
      BY <1>1, <2>1 DEF ShareInv, GivenInv
    <2>3. i # 0 /\ (IsObject(orig[i]) \/ orig[i].inner = NoInner)
      BY <1>1, <2>1, NumSourcesAssumption, DeepValuesTyped DEF ShareInv, GivenInv, Sources
    <2> QED BY <2>1, <2>2, <2>3 DEF SlotAt, Deep, Deeps
  <1>2. ShareInv => SourcesAreUntouched
    BY <1>1 DEF SourcesAreUntouched
  <1> QED BY <1>2, ShareInvHolds, PTL

\* A Load computes what it would compute alone, under the same condition: later
\* sources over earlier ones, then set and expanded (src/synthra.go:184-205).
THEOREM LoadsAreAlone == Spec => []LoadsDoNotInterfere
  <1>1. ShareInv => LoadsDoNotInterfere
    BY DEF ShareInv, CleanInv, ProgressOK, LoadsDoNotInterfere
  <1> QED BY <1>1, ShareInvHolds, PTL

\* What a Load writes is its own: an object some Load made.
LEMMA WritesAreMade ==
    ASSUME ShareInv, Isolated, NEW p \in Loaders, NEW a \in Writes(p)
    PROVE  a = acc[p].ref /\ Made(a)
  <1>1. AliasFree
    BY DEF Isolated, AliasFree, NoInner, Absent, Placeholder
  <1>2. CleanInv /\ GivenInv
    BY <1>1 DEF ShareInv
  <1>3. a = acc[p].ref /\ a # 0
    BY DEF Writes
  <1>4. SUFFICES ASSUME SharedSlice(a), acc[p].kind = "slice" PROVE FALSE
    BY <1>2, <1>3 DEF CleanInv, HeapOK, SlotOK
  <1>5. AtStep(p, "subst") /\ heap[a] # NoInner
    BY <1>4 DEF Writes, MergesMaps
  <1>6. Substitutes
    BY <1>2, <1>5, StepsAssumption, LenProperties DEF Substitutes, AtStep, CleanInv, TypeInv
  <1>7. heap[a] = NoInner
    BY <1>2, <1>4, <1>6 DEF Isolated, SharedSlice, CleanInv, KeptOK
  <1> QED BY <1>5, <1>7

\* No other Load, and no reader, accesses an object that a Load writes.
LEMMA WritesAreAlone ==
    ASSUME ShareInv, Isolated, NEW p \in Loaders, NEW a \in Writes(p)
    PROVE  a \notin Public \cup UNION {Reads(q) \cup Writes(q) : q \in Loaders \ {p}}
  <1>1. a = acc[p].ref /\ Made(a)
    BY WritesAreMade
  <1>2. AliasFree
    BY DEF Isolated, AliasFree, NoInner, Absent, Placeholder
  <1>3. GivenInv /\ CleanInv /\ Private(p)
    BY <1>2 DEF ShareInv, CleanInv, HeapOK
  <1>4. ~Made(0) /\ \A i \in shared : ~Made(slotOf[i].ref)
    <2>1. NumSources \in Nat /\ Sources = 1..NumSources /\ Len(heap) \in Nat
      BY <1>3, NumSourcesAssumption, LenProperties DEF Sources, CleanInv, TypeInv
    <2>2. \A i \in 0..NumSources : ~Made(i)
      BY <2>1 DEF Made
    <2>3. \A i \in shared : slotOf[i].ref = i \/ slotOf[i].ref = 0
      BY <1>3 DEF GivenInv, SlotAt
    <2>4. 0 \in 0..NumSources /\ shared \subseteq 0..NumSources
      BY <1>3, <2>1 DEF GivenInv
    <2> QED BY <2>2, <2>3, <2>4
  <1>5. a \notin Public
    <2>1. DOMAIN published = 1..Len(published)
      BY <1>3, LenProperties DEF CleanInv, TypeInv
    <2> QED BY <1>1, <1>3, <1>4, <2>1 DEF Public, Private
  <1>6. ASSUME NEW q \in Loaders \ {p} PROVE a \notin Reads(q)
    BY <1>1, <1>4 DEF Reads, Returned, EmptySlot
  <1>7. ASSUME NEW q \in Loaders \ {p} PROVE a \notin Writes(q)
    BY <1>1, <1>3 DEF Writes, Private
  <1> QED BY <1>5, <1>6, <1>7

\* Loads and the readers of configurations never access one nested object at the
\* same time, one of them writing, when no shared object is written
\* (src/synthra.go:164-166, 238).
THEOREM RaceFree == Spec => []NoDataRaces
  <1>1. ShareInv => NoDataRaces
    BY WritesAreAlone DEF NoDataRaces
  <1> QED BY <1>1, ShareInvHolds, PTL
=============================================================================
