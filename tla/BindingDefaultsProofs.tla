------------------------ MODULE BindingDefaultsProofs ------------------------
(***************************************************************************)
(* Theorems about BindingDefaults, for every set of goroutines and struct  *)
(* types.                                                                  *)
(***************************************************************************)
EXTENDS BindingDefaults, SequenceTheorems, FiniteSetTheorems, WellFoundedInduction, TLAPS

-----------------------------------------------------------------------------
(* Induction over the natural numbers, and functions defined by recursion  *)
(* over them, for sets and functions                                       *)

\* A set with 0 and with the successor of each of its numbers has all numbers:
\* there is no smallest one outside.
LEMMA NatSetInduction ==
    ASSUME NEW S, 0 \in S, \A n \in Nat : n \in S => n + 1 \in S
    PROVE  Nat \subseteq S
  <1> DEFINE T == Nat \ S
             R == {ss \in Nat \X Nat : ss[1] < ss[2]}
  <1> SUFFICES ASSUME T # {} PROVE FALSE
    OBVIOUS
  <1>1. IsWellFoundedOn(R, Nat)
    BY NatLessThanWellFounded, Zenon DEF OpToRel
  <1>2. PICK x \in T : \A y \in T : ~(<<y, x>> \in R)
    <2>1. T \subseteq Nat
      OBVIOUS
    <2> HIDE DEF T, R
    <2> QED BY <1>1, <2>1, WFMin
  <1>3. \A y \in Nat : y < x => y \notin T
    BY <1>2
  <1>4. x # 0 /\ x - 1 \in Nat /\ x - 1 < x
    OBVIOUS
  <1> QED BY <1>3, <1>4

\* g starts with a value and goes on by a step from each value to the next.
FollowsSteps(g, N, first, step) ==
    \A n \in 0..N : g[n] = IF n = 0 THEN first ELSE step[<<g[n - 1], n>>]

\* A value for 0 and a step from each value to the next define a function on
\* 0..N.
LEMMA RecursiveFunctionExists ==
    ASSUME NEW N \in Nat, NEW D, NEW first \in D, NEW step \in [D \X Nat -> D]
    PROVE  \E g \in [0..N -> D] : FollowsSteps(g, N, first, step)
  <1> DEFINE Good(g, k) == \A n \in 0..k : g[n] = IF n = 0 THEN first ELSE step[<<g[n - 1], n>>]
             S == {k \in Nat : \E g \in [0..k -> D] : Good(g, k)}
  <1>1. 0 \in S
    <2>1. Good([n \in 0..0 |-> first], 0) /\ [n \in 0..0 |-> first] \in [0..0 -> D]
      OBVIOUS
    <2> QED BY <2>1
  <1>2. ASSUME NEW k \in Nat, k \in S PROVE k + 1 \in S
    <2>1. PICK g \in [0..k -> D] : Good(g, k)
      BY <1>2
    <2> DEFINE h == [n \in 0..k + 1 |-> IF n = k + 1 THEN step[<<g[k], k + 1>>] ELSE g[n]]
    <2>2. step[<<g[k], k + 1>>] \in D
      OBVIOUS
    <2>3. h \in [0..k + 1 -> D]
      BY <2>2
    <2>4. \A n \in 0..k : h[n] = g[n]
      OBVIOUS
    <2>5. h[k + 1] = step[<<g[k], k + 1>>]
      OBVIOUS
    <2> HIDE DEF h
    <2>6. ASSUME NEW n \in 0..k + 1
          PROVE  h[n] = IF n = 0 THEN first ELSE step[<<h[n - 1], n>>]
      <3>1. CASE n = k + 1
        <4>1. n - 1 = k /\ n # 0 /\ k \in 0..k
          BY <3>1
        <4>2. h[n - 1] = g[k]
          BY <2>4, <4>1
        <4> QED BY <2>5, <3>1, <4>1, <4>2
      <3>2. CASE n \in 0..k
        <4>1. n # 0 => n - 1 \in 0..k
          BY <3>2
        <4>2. g[n] = IF n = 0 THEN first ELSE step[<<g[n - 1], n>>]
          BY <2>1, <3>2
        <4> QED BY <2>4, <3>2, <4>1, <4>2
      <3> QED BY <3>1, <3>2
    <2>7. Good(h, k + 1)
      BY <2>6
    <2> HIDE DEF Good
    <2> QED BY <2>3, <2>7
  <1>3. N \in S
    <2> HIDE DEF S
    <2> QED BY <1>1, <1>2, NatSetInduction
  <1>4. PICK g \in [0..N -> D] : Good(g, N)
    BY <1>3
  <1> WITNESS g \in [0..N -> D]
  <1> QED BY <1>4 DEF FollowsSteps

-----------------------------------------------------------------------------
(* The types with defaults                                                 *)

N == Cardinality(Types)

\* There is a number of types.
LEMMA NTyped == N \in Nat
  BY TypesAssumption, FS_CardinalityType DEF N

\* The types with a tag among their fields.
Tagged == {t \in Types : \E i \in Seen(t) : Fields[t][i].tag # "none"}

\* The types that are in a set or hold a struct whose type is.
Wider(near) == near \cup {t \in Types : \E i \in Seen(t) :
                            Fields[t][i].kind # "scalar" /\ Fields[t][i].of \in near}

\* The recursion of CarriersTo.
LEMMA CarriersToIs ==
    /\ CarriersTo \in [0..N -> SUBSET Types]
    /\ CarriersTo[0] = Tagged
    /\ \A n \in 1..N : CarriersTo[n] = Wider(CarriersTo[n - 1])
  <1> DEFINE step == [x \in (SUBSET Types) \X Nat |-> Wider(x[1])]
             Rec(g) == g = [n \in 0..N |-> IF n = 0 THEN Tagged ELSE Wider(g[n - 1])]
  <1>1. \A T \in SUBSET Types : Wider(T) \in SUBSET Types
    BY DEF Wider
  <1>2. step \in [(SUBSET Types) \X Nat -> SUBSET Types]
    BY <1>1
  <1>3. PICK g \in [0..N -> SUBSET Types] : FollowsSteps(g, N, Tagged, step)
    <2>1. Tagged \in SUBSET Types
      BY DEF Tagged
    <2> HIDE DEF step
    <2> QED BY <1>2, <2>1, NTyped, RecursiveFunctionExists
  <1>4. Rec(g)
    <2>1. ASSUME NEW n \in 0..N, n # 0
          PROVE  step[<<g[n - 1], n>>] = Wider(g[n - 1])
      <3>1. n - 1 \in 0..N /\ n \in Nat
        BY <2>1, NTyped
      <3> QED BY <3>1
    <2> HIDE DEF step
    <2> QED BY <1>3, <2>1 DEF FollowsSteps
  <1>5. Rec(CarriersTo)
    <2>1. CarriersTo = CHOOSE h : Rec(h)
      BY Zenon DEF CarriersTo, Tagged, Wider, N
    <2> HIDE DEF Rec
    <2> QED BY <1>4, <2>1
  <1> DEFINE S == {n \in Nat : n \in 0..N => CarriersTo[n] \in SUBSET Types}
  <1>6. 0 \in S
    BY <1>5, NTyped DEF Tagged
  <1>7. ASSUME NEW n \in Nat, n \in S PROVE n + 1 \in S
    <2> SUFFICES ASSUME n + 1 \in 0..N PROVE CarriersTo[n + 1] \in SUBSET Types
      OBVIOUS
    <2>1. n \in 0..N /\ n + 1 # 0 /\ (n + 1) - 1 = n
      BY NTyped
    <2>2. CarriersTo[n + 1] = Wider(CarriersTo[n])
      BY <1>5, <2>1
    <2> QED BY <1>1, <1>7, <2>1, <2>2
  <1>8. Nat \subseteq S
    <2> HIDE DEF S
    <2> QED BY <1>6, <1>7, NatSetInduction
  <1>9. \A n \in 0..N : CarriersTo[n] \in SUBSET Types
    BY <1>8, NTyped
  <1>10. 0 \in 0..N /\ \A n \in 1..N : n \in 0..N /\ n # 0
    BY NTyped
  <1> QED BY <1>5, <1>9, <1>10

\* N rounds are enough: each that does not end it finds another type.
LEMMA CarriersAreClosed == Wider(Carriers) = Carriers
  <1> DEFINE Done(n) == Wider(CarriersTo[n]) = CarriersTo[n]
             S == {n \in Nat : n \in 0..N => Done(n) \/ Cardinality(CarriersTo[n]) >= n}
  <1>1. \A n \in 0..N : CarriersTo[n] \in SUBSET Types /\ IsFiniteSet(CarriersTo[n])
                        /\ Cardinality(CarriersTo[n]) \in Nat
    BY CarriersToIs, TypesAssumption, FS_Subset, FS_CardinalityType
  <1>2. 0 \in S
    BY <1>1, NTyped
  <1>3. ASSUME NEW n \in Nat, n \in S PROVE n + 1 \in S
    <2> SUFFICES ASSUME n + 1 \in 0..N PROVE Done(n + 1) \/ Cardinality(CarriersTo[n + 1]) >= n + 1
      OBVIOUS
    <2>1. n \in 0..N /\ n + 1 \in 1..N /\ (n + 1) - 1 = n
      BY NTyped
    <2>2. CarriersTo[n + 1] = Wider(CarriersTo[n])
      BY <2>1, CarriersToIs
    <2>3. CASE Done(n)
      BY <2>2, <2>3
    <2>4. CASE ~Done(n)
      <3>1. CarriersTo[n] \subseteq CarriersTo[n + 1] /\ CarriersTo[n] # CarriersTo[n + 1]
        BY <2>2, <2>4 DEF Wider
      <3>2. /\ Cardinality(CarriersTo[n]) <= Cardinality(CarriersTo[n + 1])
            /\ Cardinality(CarriersTo[n]) # Cardinality(CarriersTo[n + 1])
        BY <1>1, <2>1, <3>1, FS_Subset
      <3>3. Cardinality(CarriersTo[n]) >= n
        BY <1>3, <2>1, <2>4
      <3> QED BY <1>1, <2>1, <3>2, <3>3
    <2> QED BY <2>3, <2>4
  <1>4. N \in S
    <2> HIDE DEF S
    <2> QED BY <1>2, <1>3, NTyped, NatSetInduction
  <1>5. N \in 0..N /\ Carriers = CarriersTo[N]
    BY NTyped DEF N, Carriers
  <1>6. CASE Done(N)
    BY <1>5, <1>6
  <1>7. CASE Cardinality(CarriersTo[N]) >= N
    <2>1. CarriersTo[N] = Types
      <3>1. Cardinality(CarriersTo[N]) <= Cardinality(Types)
        BY <1>1, <1>5, TypesAssumption, FS_Subset
      <3>2. Cardinality(CarriersTo[N]) = Cardinality(Types)
        BY <1>1, <1>5, <1>7, <3>1, NTyped DEF N
      <3> QED BY <1>1, <1>5, <3>2, TypesAssumption, FS_Subset
    <2> QED BY <1>5, <2>1 DEF Wider
  <1> QED BY <1>4, <1>5, <1>6, <1>7

\* A type is one of them if and only if it has a tag, or holds a struct whose type
\* is one.
LEMMA CarriersAre ==
    \A t \in Types : t \in Carriers <=>
        \E i \in Seen(t) : \/ Fields[t][i].tag # "none"
                           \/ Fields[t][i].kind # "scalar" /\ Fields[t][i].of \in Carriers
  <1> DEFINE Has(t, T) == \E i \in Seen(t) : \/ Fields[t][i].tag # "none"
                                             \/ Fields[t][i].kind # "scalar" /\ Fields[t][i].of \in T
             S == {n \in Nat : n \in 0..N => /\ Tagged \subseteq CarriersTo[n]
                                             /\ \A t \in CarriersTo[n] : Has(t, CarriersTo[n])}
  <1>1. \A T, U : T \subseteq U => \A t : Has(t, T) => Has(t, U)
    OBVIOUS
  <1>2. 0 \in S
    BY CarriersToIs DEF Tagged
  <1>3. ASSUME NEW n \in Nat, n \in S PROVE n + 1 \in S
    <2> SUFFICES ASSUME n + 1 \in 0..N
                 PROVE  /\ Tagged \subseteq CarriersTo[n + 1]
                        /\ \A t \in CarriersTo[n + 1] : Has(t, CarriersTo[n + 1])
      OBVIOUS
    <2>1. n \in 0..N /\ n + 1 \in 1..N /\ (n + 1) - 1 = n
      BY NTyped
    <2>2. CarriersTo[n + 1] = Wider(CarriersTo[n])
      BY <2>1, CarriersToIs
    <2>3. CarriersTo[n] \subseteq CarriersTo[n + 1]
      BY <2>2 DEF Wider
    <2>4. Tagged \subseteq CarriersTo[n] /\ \A t \in CarriersTo[n] : Has(t, CarriersTo[n])
      BY <1>3, <2>1
    <2>5. \A t \in CarriersTo[n + 1] : Has(t, CarriersTo[n])
      BY <2>2, <2>4 DEF Wider
    <2> HIDE DEF Has
    <2> QED BY <1>1, <2>3, <2>4, <2>5
  <1>4. N \in S
    <2> HIDE DEF S
    <2> QED BY <1>2, <1>3, NTyped, NatSetInduction
  <1>5. N \in 0..N /\ Carriers = CarriersTo[N]
    BY NTyped DEF N, Carriers
  <1>6. Tagged \subseteq Carriers /\ \A t \in Carriers : Has(t, Carriers)
    BY <1>4, <1>5
  <1>7. \A t \in Types : Has(t, Carriers) => t \in Carriers
    BY <1>6, CarriersAreClosed DEF Wider, Tagged
  <1> QED BY <1>6, <1>7

-----------------------------------------------------------------------------
(* The types that hold others                                              *)

\* A set that grows in rounds until a round adds nothing is done after as many
\* rounds as there are types.
LEMMA RoundsAreEnough ==
    ASSUME NEW f \in [SUBSET Types -> SUBSET Types], \A T \in SUBSET Types : T \subseteq f[T],
           NEW h \in [0..N -> SUBSET Types], \A n \in 1..N : h[n] = f[h[n - 1]]
    PROVE  f[h[N]] = h[N]
  <1> DEFINE Done(n) == f[h[n]] = h[n]
             S == {n \in Nat : n \in 0..N => Done(n) \/ Cardinality(h[n]) >= n}
  <1>1. \A n \in 0..N : h[n] \in SUBSET Types /\ IsFiniteSet(h[n]) /\ Cardinality(h[n]) \in Nat
    BY TypesAssumption, FS_Subset, FS_CardinalityType
  <1>2. 0 \in S
    BY <1>1, NTyped
  <1>3. ASSUME NEW n \in Nat, n \in S PROVE n + 1 \in S
    <2> SUFFICES ASSUME n + 1 \in 0..N PROVE Done(n + 1) \/ Cardinality(h[n + 1]) >= n + 1
      OBVIOUS
    <2>1. n \in 0..N /\ n + 1 \in 1..N /\ (n + 1) - 1 = n
      BY NTyped
    <2>2. h[n + 1] = f[h[n]]
      BY <2>1
    <2>3. CASE Done(n)
      BY <2>2, <2>3
    <2>4. CASE ~Done(n)
      <3>1. h[n] \subseteq h[n + 1] /\ h[n] # h[n + 1]
        BY <1>1, <2>1, <2>2, <2>4
      <3>2. /\ Cardinality(h[n]) <= Cardinality(h[n + 1])
            /\ Cardinality(h[n]) # Cardinality(h[n + 1])
        BY <1>1, <2>1, <3>1, FS_Subset
      <3>3. Cardinality(h[n]) >= n
        BY <1>3, <2>1, <2>4
      <3> QED BY <1>1, <2>1, <3>2, <3>3
    <2> QED BY <2>3, <2>4
  <1>4. N \in S
    <2> HIDE DEF S
    <2> QED BY <1>2, <1>3, NTyped, NatSetInduction
  <1>5. N \in 0..N
    BY NTyped
  <1>6. CASE Cardinality(h[N]) >= N
    <2>1. h[N] = Types
      <3>1. Cardinality(h[N]) <= Cardinality(Types)
        BY <1>1, <1>5, TypesAssumption, FS_Subset
      <3>2. Cardinality(h[N]) = Cardinality(Types)
        BY <1>1, <1>5, <1>6, <3>1, NTyped DEF N
      <3> QED BY <1>1, <1>5, <3>2, TypesAssumption, FS_Subset
    <2>2. Types \subseteq f[Types] /\ f[Types] \subseteq Types
      OBVIOUS
    <2> QED BY <2>1, <2>2
  <1> QED BY <1>4, <1>5, <1>6

\* Type t holds a struct, directly or behind a pointer, whose type is in T.
HoldsOne(t, T) == \E i \in Seen(t) : Fields[t][i].kind # "scalar" /\ Fields[t][i].of \in T

\* The holders of ts are the smallest set with each type that holds one of ts or one
\* of the set.
LEMMA HoldersAre ==
    ASSUME NEW ts
    PROVE  /\ Holders(ts) \subseteq Types
           /\ \A t \in Types : HoldsOne(t, ts \cup Holders(ts)) => t \in Holders(ts)
           /\ \A X : (\A t \in Types : HoldsOne(t, ts \cup X) => t \in X) => Holders(ts) \subseteq X
  <1> DEFINE f == [T \in SUBSET Types |-> T \cup {t \in Types : HoldsOne(t, ts \cup T)}]
             step == [x \in (SUBSET Types) \X Nat |-> f[x[1]]]
             Rec(g) == g = [n \in 0..N |-> IF n = 0 THEN {}
                                ELSE LET near == g[n - 1] IN near \cup {t \in Types : HoldsOne(t, ts \cup near)}]
             h == CHOOSE g : Rec(g)
  <1>1. f \in [SUBSET Types -> SUBSET Types] /\ \A T \in SUBSET Types : T \subseteq f[T]
    OBVIOUS
  <1>2. step \in [(SUBSET Types) \X Nat -> SUBSET Types]
    BY <1>1
  <1>3. PICK g \in [0..N -> SUBSET Types] : FollowsSteps(g, N, {}, step)
    <2>1. {} \in SUBSET Types
      OBVIOUS
    <2> HIDE DEF step
    <2> QED BY <1>2, <2>1, NTyped, RecursiveFunctionExists
  <1>4. Rec(g)
    <2>1. ASSUME NEW n \in 0..N, n # 0
          PROVE  step[<<g[n - 1], n>>] = g[n - 1] \cup {t \in Types : HoldsOne(t, ts \cup g[n - 1])}
      <3>1. n - 1 \in 0..N /\ n \in Nat
        BY <2>1, NTyped
      <3> QED BY <3>1
    <2> HIDE DEF step
    <2> QED BY <1>3, <2>1 DEF FollowsSteps
  <1>5. Rec(h)
    <2> HIDE DEF Rec
    <2> QED BY <1>4
  <1>6. Holders(ts) = h[N]
    BY Zenon DEF Holders, HoldsOne, N
  <1> HIDE DEF h
  <1> DEFINE S == {n \in Nat : n \in 0..N => h[n] \in SUBSET Types}
  <1>7. 0 \in S
    BY <1>5, NTyped
  <1>8. ASSUME NEW n \in Nat, n \in S PROVE n + 1 \in S
    <2> SUFFICES ASSUME n + 1 \in 0..N PROVE h[n + 1] \in SUBSET Types
      OBVIOUS
    <2>1. n \in 0..N /\ n + 1 # 0 /\ (n + 1) - 1 = n
      BY NTyped
    <2> QED BY <1>5, <1>8, <2>1
  <1>9. Nat \subseteq S
    <2> HIDE DEF S
    <2> QED BY <1>7, <1>8, NatSetInduction
  <1>10. \A n \in 0..N : h[n] \in SUBSET Types
    BY <1>9, NTyped
  <1>11. h \in [0..N -> SUBSET Types]
    BY <1>5, <1>10
  <1>12. \A n \in 1..N : h[n] = f[h[n - 1]]
    <2> SUFFICES ASSUME NEW n \in 1..N PROVE h[n] = f[h[n - 1]]
      OBVIOUS
    <2>1. n \in 0..N /\ n # 0 /\ n - 1 \in 0..N
      BY NTyped
    <2> QED BY <1>5, <1>10, <2>1
  <1>13. f[h[N]] = h[N]
    <2> HIDE DEF f
    <2> QED BY <1>1, <1>11, <1>12, RoundsAreEnough
  <1>14. h[N] \in SUBSET Types
    BY <1>10, NTyped
  <1>15. ASSUME NEW X, \A t \in Types : HoldsOne(t, ts \cup X) => t \in X
         PROVE  h[N] \subseteq X
    <2> DEFINE R == {n \in Nat : n \in 0..N => h[n] \subseteq X}
    <2>1. 0 \in R
      BY <1>5, NTyped
    <2>2. ASSUME NEW n \in Nat, n \in R PROVE n + 1 \in R
      <3> SUFFICES ASSUME n + 1 \in 0..N PROVE h[n + 1] \subseteq X
        OBVIOUS
      <3>1. n \in 0..N /\ n + 1 # 0 /\ (n + 1) - 1 = n /\ h[n] \subseteq X
        BY <2>2, NTyped
      <3>2. h[n + 1] = h[n] \cup {t \in Types : HoldsOne(t, ts \cup h[n])}
        BY <1>5, <3>1
      <3>3. \A t : HoldsOne(t, ts \cup h[n]) => HoldsOne(t, ts \cup X)
        BY <3>1 DEF HoldsOne
      <3> QED BY <1>15, <3>1, <3>2, <3>3
    <2>3. N \in R
      <3> HIDE DEF R
      <3> QED BY <2>1, <2>2, NTyped, NatSetInduction
    <2> QED BY <2>3, NTyped
  <1> QED BY <1>6, <1>13, <1>14, <1>15

\* A type no value of which holds one of a recursive type.
Tame(t) == t \in Types /\ t \notin Recursive \cup Holders(Recursive)

\* The types whose values may be in one of type t, and their number.
Under(t) == {u \in Types : t \in Holders({u})}
Rank(t) == Cardinality(Under(t))

\* There is a number of them, less than all when t is not recursive.
LEMMA RankTyped ==
    ASSUME NEW t, Tame(t)
    PROVE  Rank(t) \in Nat /\ 1 + Rank(t) <= N
  <1>1. Under(t) \subseteq Types /\ t \in Types \ Under(t)
    BY DEF Under, Tame, Recursive
  <1>2. /\ IsFiniteSet(Under(t)) /\ Rank(t) \in Nat
        /\ Rank(t) <= N /\ Rank(t) # N
    BY <1>1, TypesAssumption, FS_Subset, FS_CardinalityType DEF Rank, N
  <1> QED BY <1>2, NTyped

\* What a tame type holds is tame, and has fewer types under it.
LEMMA RankFalls ==
    ASSUME NEW t, Tame(t), NEW u \in Types, HoldsOne(t, {u})
    PROVE  Tame(u) /\ Rank(u) + 1 <= Rank(t)
  <1>1. t \in Types /\ t \notin Recursive /\ t \notin Holders(Recursive)
    BY DEF Tame
  <1>2. \A T : u \in T => HoldsOne(t, T)
    BY DEF HoldsOne
  <1>3. u \notin Recursive /\ u \notin Holders(Recursive)
    <2>1. ~HoldsOne(t, Recursive \cup Holders(Recursive))
      BY <1>1, HoldersAre
    <2> QED BY <1>2, <2>1
  <1>4. Tame(u)
    BY <1>3 DEF Tame
  <1>5. Under(u) \subseteq Under(t)
    <2> SUFFICES ASSUME NEW w \in Types, u \in Holders({w}) PROVE t \in Holders({w})
      BY DEF Under
    <2>1. u \in {w} \cup Holders({w})
      OBVIOUS
    <2>2. HoldsOne(t, {w} \cup Holders({w}))
      BY <1>2, <2>1
    <2>3. HoldsOne(t, {w} \cup Holders({w})) => t \in Holders({w})
      BY <1>1, HoldersAre
    <2> QED BY <2>2, <2>3
  <1>6. u \in Under(t)
    <2>1. HoldsOne(t, {u} \cup Holders({u}))
      BY <1>2
    <2>2. HoldsOne(t, {u} \cup Holders({u})) => t \in Holders({u})
      BY <1>1, HoldersAre
    <2> QED BY <2>1, <2>2 DEF Under
  <1>7. u \notin Under(u)
    BY <1>3 DEF Under, Recursive
  <1>8. IsFiniteSet(Under(t)) /\ IsFiniteSet(Under(u))
    BY TypesAssumption, FS_Subset DEF Under
  <1>9. Rank(u) <= Rank(t) /\ Rank(u) # Rank(t)
    BY <1>5, <1>6, <1>7, <1>8, FS_Subset DEF Rank
  <1>10. Rank(u) \in Nat /\ Rank(t) \in Nat
    BY <1>4, RankTyped
  <1> QED BY <1>4, <1>9, <1>10

\* A type is tame when all types it holds are.
LEMMA TameWhenHeldAre ==
    ASSUME NEW t \in Types,
           \A j \in Seen(t) : Fields[t][j].kind # "scalar" => Tame(Fields[t][j].of)
    PROVE  Tame(t)
  <1> DEFINE H == Holders(Recursive)
             X == {u \in Holders({t}) : HoldsOne(u, {t} \cup Holders({t}))}
             Y == {u \in H : HoldsOne(u, Recursive \cup H)}
  <1>1. ~HoldsOne(t, Recursive \cup H)
    BY DEF Tame, HoldsOne
  <1>2. \A T, U : T \subseteq U => \A u : HoldsOne(u, T) => HoldsOne(u, U)
    BY DEF HoldsOne
  <1>3. t \notin H
    <2>1. Y \subseteq H /\ Recursive \cup Y \subseteq Recursive \cup H
      OBVIOUS
    <2>2. ASSUME NEW u \in Types, HoldsOne(u, Recursive \cup Y) PROVE u \in Y
      <3>1. HoldsOne(u, Recursive \cup H)
        BY <1>2, <2>1, <2>2
      <3> QED BY <3>1, HoldersAre
    <2>3. H \subseteq Y
      <3> HIDE DEF Y
      <3> QED BY <2>2, HoldersAre
    <2> QED BY <1>1, <2>3
  <1>4. t \notin Recursive
    <2> SUFFICES ASSUME t \in Recursive PROVE FALSE
      OBVIOUS
    <2>1. t \in Holders({t})
      BY DEF Recursive
    <2>2. X \subseteq Holders({t}) /\ {t} \cup X \subseteq {t} \cup Holders({t})
      OBVIOUS
    <2>3. ASSUME NEW u \in Types, HoldsOne(u, {t} \cup X) PROVE u \in X
      <3>1. HoldsOne(u, {t} \cup Holders({t}))
        BY <1>2, <2>2, <2>3
      <3> QED BY <3>1, HoldersAre
    <2>4. Holders({t}) \subseteq X
      <3> HIDE DEF X
      <3> QED BY <2>3, HoldersAre
    <2>5. HoldsOne(t, {t} \cup Holders({t}))
      BY <2>1, <2>4
    <2>6. Holders({t}) \subseteq H
      <3>1. ASSUME NEW u \in Types, HoldsOne(u, {t} \cup H) PROVE u \in H
        <4>1. {t} \cup H \subseteq Recursive \cup H
          OBVIOUS
        <4>2. HoldsOne(u, Recursive \cup H)
          BY <1>2, <3>1, <4>1
        <4> QED BY <4>2, HoldersAre
      <3> QED BY <3>1, HoldersAre
    <2>7. {t} \cup Holders({t}) \subseteq Recursive \cup H
      BY <2>6
    <2> QED BY <1>1, <1>2, <2>5, <2>7
  <1> QED BY <1>3, <1>4 DEF Tame

-----------------------------------------------------------------------------
(* The invariant                                                           *)

\* A walk over a value of the type finds nothing, and ends.
Plain(t) == t \notin Carriers /\ Tame(t)

Frames == [call : {"set", "scan"}, typ : Types, i : Nat, path : Seq(Nat)]

\* The type whose defaults a frame asks for.
Asked(f) == IF f.i = 0 THEN f.typ ELSE Fields[f.typ][f.i].of

\* A scan is at a field, or past the last one, and found nothing in those before.
FrameOK(f) ==
    f.call = "scan" =>
        /\ f.i \in 1..Len(Fields[f.typ]) + 1
        /\ \A j \in Seen(f.typ) : j < f.i =>
              /\ Fields[f.typ][j].tag = "none"
              /\ Fields[f.typ][j].kind = "scalar" \/ Plain(Fields[f.typ][j].of)

\* A scan is made for the frame below.
StackOK(st) ==
    /\ st \in Seq(Frames)
    /\ \A k \in 1..Len(st) :
          /\ FrameOK(st[k])
          /\ st[k].call = "scan" => k > 1 /\ st[k].typ = Asked(st[k - 1])

\* What a scan returned is right about the type it was made for.
RetOK(g) ==
    ret[g] # << >> => /\ stack[g] # << >>
                      /\ ret[g][1] = (Asked(Top(g)) \in Carriers)
                      /\ ret[g][1] \/ Tame(Asked(Top(g)))

\* A scan that finds nothing ends only when no recursive type is in the way.
CachedTame == \A t \in DOMAIN defaultsCache : defaultsCache[t] \/ Tame(t)

CacheInv ==
    /\ DOMAIN defaultsCache \subseteq Types
    /\ CacheIsRight /\ CachedTame
    /\ stack \in [Goroutines -> Seq(Frames)]
    /\ DOMAIN ret = Goroutines
    /\ root \in [Goroutines -> Types]
    /\ \A g \in Goroutines : StackOK(stack[g]) /\ RetOK(g)

\* The fields of a type.
LEMMA FieldsTyped ==
    ASSUME NEW t \in Types
    PROVE  /\ Fields[t] \in Seq(FieldSet) /\ Len(Fields[t]) \in Nat /\ DOMAIN Fields[t] = 1..Len(Fields[t])
           /\ \A j \in 1..Len(Fields[t]) : /\ Fields[t][j] \in FieldSet
                                           /\ Fields[t][j].of \in Types
           /\ \A j \in Seen(t) : j \in 1..Len(Fields[t])
  <1>1. Fields[t] \in Seq(FieldSet) /\ Len(Fields[t]) \in Nat /\ DOMAIN Fields[t] = 1..Len(Fields[t])
    BY FieldsAssumption, LenProperties
  <1>2. \A j \in 1..Len(Fields[t]) : Fields[t][j] \in FieldSet
    BY <1>1, ElementOfSeq
  <1> QED BY <1>1, <1>2 DEF FieldSet, Seen

-----------------------------------------------------------------------------
(* Stacks                                                                  *)

\* A stack without its last frame.
LEMMA FrontIs ==
    ASSUME NEW st \in Seq(Frames), st # << >>
    PROVE  /\ Front(st) \in Seq(Frames) /\ Last(st) \in Frames /\ Last(st) = st[Len(st)]
           /\ Len(st) \in Nat /\ Len(st) # 0 /\ Len(Front(st)) = Len(st) - 1
           /\ \A k \in 1..Len(st) - 1 : Front(st)[k] = st[k]
  <1> DEFINE n == Len(st) - 1
             m == 1
  <1>1. Len(st) \in Nat /\ Len(st) # 0
    BY LenProperties, EmptySeq
  <1>2. n \in Int /\ n \in Nat /\ m \in Int /\ Len(st) \in 1..Len(st)
    BY <1>1
  <1>3. \A k \in m..n : st[k] \in Frames
    BY <1>1, ElementOfSeq
  <1>4. Front(st) = SubSeq(st, m, n)
    BY DEF Front
  <1>5. Last(st) \in Frames /\ Last(st) = st[Len(st)]
    BY <1>2, ElementOfSeq DEF Last
  <1> HIDE DEF n, m
  <1>6. /\ SubSeq(st, m, n) \in Seq(Frames)
        /\ Len(SubSeq(st, m, n)) = IF m <= n THEN n - m + 1 ELSE 0
        /\ \A k \in 1..n - m + 1 : SubSeq(st, m, n)[k] = st[m + k - 1]
    BY <1>2, <1>3, SubSeqProperties
  <1>7. Len(Front(st)) = n /\ \A k \in 1..n : Front(st)[k] = st[k]
    <2>1. m = 1
      BY DEF m
    <2>2. n - m + 1 = n /\ \A k \in 1..n : m + k - 1 = k
      BY <1>2, <2>1
    <2>3. (IF m <= n THEN n - m + 1 ELSE 0) = n
      BY <1>2, <2>1, <2>2
    <2> QED BY <1>4, <1>6, <2>2, <2>3
  <1> QED BY <1>1, <1>4, <1>5, <1>6, <1>7 DEF n

\* A call is made: a scan for what the last frame asks.
LEMMA PushOK ==
    ASSUME NEW st, StackOK(st), NEW f \in Frames, FrameOK(f),
           f.call = "scan" => st # << >> /\ f.typ = Asked(Last(st))
    PROVE  StackOK(Append(st, f)) /\ Append(st, f) # << >>
  <1>1. st \in Seq(Frames) /\ Len(st) \in Nat
    BY LenProperties DEF StackOK
  <1>2. /\ Append(st, f) \in Seq(Frames) /\ Append(st, f) # << >> /\ Len(Append(st, f)) = Len(st) + 1
        /\ \A k \in 1..Len(st) : Append(st, f)[k] = st[k]
        /\ Append(st, f)[Len(st) + 1] = f
    BY <1>1, AppendProperties
  <1>3. ASSUME NEW k \in 1..Len(st)
        PROVE  /\ FrameOK(Append(st, f)[k])
               /\ Append(st, f)[k].call = "scan" => k > 1 /\ Append(st, f)[k].typ = Asked(Append(st, f)[k - 1])
    <2>1. Append(st, f)[k] = st[k] /\ (k > 1 => Append(st, f)[k - 1] = st[k - 1])
      BY <1>1, <1>2
    <2> QED BY <2>1 DEF StackOK
  <1>4. f.call = "scan" => Len(st) + 1 > 1 /\ f.typ = Asked(Append(st, f)[Len(st)])
    BY <1>1, <1>2, EmptySeq DEF Last
  <1>5. (Len(st) + 1) - 1 = Len(st) /\ \A k \in 1..Len(st) + 1 : k \in 1..Len(st) \/ k = Len(st) + 1
    BY <1>1
  <1> QED BY <1>2, <1>3, <1>4, <1>5 DEF StackOK

\* A call returns: a scan was made for what is now the last frame.
LEMMA PopOK ==
    ASSUME NEW st, StackOK(st), st # << >>
    PROVE  /\ StackOK(Front(st)) /\ Last(st) \in Frames /\ FrameOK(Last(st))
           /\ Last(st).call = "scan" => Front(st) # << >> /\ Last(st).typ = Asked(Last(Front(st)))
  <1> DEFINE n == Len(st) - 1
  <1>1. st \in Seq(Frames)
    BY DEF StackOK
  <1>2. /\ Front(st) \in Seq(Frames) /\ Last(st) \in Frames /\ Last(st) = st[Len(st)]
        /\ Len(st) \in Nat /\ Len(st) # 0 /\ Len(Front(st)) = n
        /\ \A k \in 1..n : Front(st)[k] = st[k]
    BY <1>1, FrontIs
  <1>3. n \in Nat /\ n + 1 = Len(st) /\ Len(st) \in 1..Len(st)
    BY <1>2
  <1> HIDE DEF n
  <1>4. FrameOK(Last(st))
    BY <1>2, <1>3 DEF StackOK
  <1>5. ASSUME NEW k \in 1..n
        PROVE  /\ FrameOK(Front(st)[k])
               /\ Front(st)[k].call = "scan" => k > 1 /\ Front(st)[k].typ = Asked(Front(st)[k - 1])
    <2>1. Front(st)[k] = st[k] /\ k \in 1..Len(st) /\ (k > 1 => k - 1 \in 1..n)
      BY <1>2, <1>3
    <2> QED BY <1>2, <2>1 DEF StackOK
  <1>6. ASSUME Last(st).call = "scan"
        PROVE  Front(st) # << >> /\ Last(st).typ = Asked(Last(Front(st)))
    <2>1. Len(st) > 1 /\ st[Len(st)].typ = Asked(st[Len(st) - 1])
      BY <1>2, <1>3, <1>6 DEF StackOK
    <2>2. n \in 1..n /\ n = Len(st) - 1
      BY <1>3, <2>1
    <2>3. Last(Front(st)) = st[n]
      BY <1>2, <2>2 DEF Last
    <2> QED BY <1>2, <2>1, <2>2, <2>3, EmptySeq
  <1> QED BY <1>2, <1>4, <1>5, <1>6 DEF StackOK

\* The last frame goes on to its next field.
LEMMA AdvanceOK ==
    ASSUME NEW st, StackOK(st), st # << >>, NEW f, f = [Last(st) EXCEPT !.i = @ + 1], FrameOK(f),
           NEW up, up = [st EXCEPT ![Len(st)] = f]
    PROVE  StackOK(up) /\ up # << >> /\ Last(up) = f
  <1>1. st \in Seq(Frames) /\ Len(st) \in Nat /\ Len(st) # 0 /\ Len(st) \in 1..Len(st)
    BY LenProperties, EmptySeq DEF StackOK
  <1>2. Last(st) \in Frames
    BY <1>1, ElementOfSeq DEF Last
  <1>3. f \in Frames /\ f.call = Last(st).call /\ f.typ = Last(st).typ
    BY <1>2 DEF Frames
  <1>4. /\ up \in Seq(Frames) /\ Len(up) = Len(st)
        /\ \A k \in 1..Len(st) : up[k] = IF k = Len(st) THEN f ELSE st[k]
    BY <1>1, <1>3, ExceptSeq
  <1>5. ASSUME NEW k \in 1..Len(st)
        PROVE  FrameOK(up[k]) /\ (up[k].call = "scan" => k > 1 /\ up[k].typ = Asked(up[k - 1]))
    <2>1. /\ FrameOK(up[k]) /\ up[k].call = st[k].call /\ up[k].typ = st[k].typ
      BY <1>1, <1>3, <1>4 DEF Last, StackOK
    <2>2. k > 1 => up[k - 1] = st[k - 1]
      BY <1>1, <1>4
    <2> QED BY <2>1, <2>2 DEF StackOK
  <1> QED BY <1>1, <1>4, <1>5, EmptySeq DEF StackOK, Last

-----------------------------------------------------------------------------
(* Steps                                                                   *)

\* The running frame.
LEMMA TopTyped ==
    ASSUME CacheInv, NEW g \in Goroutines, Running(g)
    PROVE  /\ StackOK(stack[g]) /\ stack[g] # << >>
           /\ Top(g) \in Frames /\ Top(g).typ \in Types /\ FrameOK(Top(g))
           /\ Top(g).i \in Nat /\ Top(g).path \in Seq(Nat)
  <1>1. StackOK(stack[g]) /\ stack[g] # << >>
    BY DEF CacheInv, Running
  <1>2. Top(g) \in Frames /\ FrameOK(Top(g))
    BY <1>1, PopOK DEF Top
  <1> QED BY <1>1, <1>2 DEF Frames

\* The field a frame is at.
LEMMA FieldTyped ==
    ASSUME CacheInv, NEW g \in Goroutines, NEW call, InField(g, call)
    PROVE  /\ Running(g) /\ Top(g).call = call
           /\ Top(g).i \in 1..Len(Fields[Top(g).typ])
           /\ Field(g) \in FieldSet /\ Field(g).of \in Types /\ Asked(Top(g)) = Field(g).of
           /\ Place(g) \in Seq(Nat)
  <1>1. Running(g) /\ Top(g).call = call /\ Top(g).i > 0 /\ ~(Top(g).i > Len(Fields[Top(g).typ]))
    BY DEF InField, InCall, Ended
  <1>2. Top(g).i \in 1..Len(Fields[Top(g).typ])
    BY <1>1, TopTyped, FieldsTyped
  <1>3. Place(g) \in Seq(Nat)
    BY <1>1, TopTyped, AppendProperties DEF Place
  <1> QED BY <1>1, <1>2, <1>3, TopTyped, FieldsTyped DEF Field, Asked

\* What structHasDefaults answers is right.
LEMMA AnswerIsRight ==
    ASSUME CacheInv, NEW g \in Goroutines, NEW typ, typ = Asked(Top(g)),
           NEW has \in BOOLEAN, Answers(g, typ, has)
    PROVE  has = (typ \in Carriers) /\ (has \/ Plain(typ))
  <1>1. CASE ret[g] # << >>
    BY <1>1 DEF Answers, CacheInv, RetOK, Plain
  <1>2. CASE ret[g] = << >>
    <2>1. typ \in DOMAIN defaultsCache /\ defaultsCache[typ] = has
      BY <1>2 DEF Answers
    <2> QED BY <2>1 DEF CacheInv, CacheIsRight, CachedTame, Plain
  <1> QED BY <1>1, <1>2

\* The calls of a goroutine change, the cache does not.
LEMMA GoesOK ==
    ASSUME CacheInv, NEW g \in Goroutines, NEW frames, StackOK(frames), Goes(g, frames),
           UNCHANGED <<defaultsCache, root>>
    PROVE  CacheInv'
  <1>1. stack' = [stack EXCEPT ![g] = frames] /\ ret' = [ret EXCEPT ![g] = << >>]
    BY DEF Goes
  <1>2. frames \in Seq(Frames)
    BY DEF StackOK
  <1>3. stack' \in [Goroutines -> Seq(Frames)] /\ DOMAIN ret' = Goroutines
    BY <1>1, <1>2 DEF CacheInv
  <1>4. CacheIsRight' /\ CachedTame'
    BY DEF CacheInv, CacheIsRight, CachedTame
  <1>5. ASSUME NEW h \in Goroutines PROVE StackOK(stack'[h]) /\ RetOK(h)'
    <2>1. CASE h = g
      BY <1>1, <2>1 DEF CacheInv, RetOK
    <2>2. CASE h # g
      <3>1. stack'[h] = stack[h] /\ ret'[h] = ret[h]
        BY <1>1, <2>2 DEF CacheInv
      <3> QED BY <3>1 DEF CacheInv, RetOK, Top
    <2> QED BY <2>1, <2>2
  <1> QED BY <1>3, <1>4, <1>5 DEF CacheInv

\* A call that is made, and the fields left behind.
LEMMA ScanOK ==
    ASSUME CacheInv, NEW g \in Goroutines, Running(g), NEW typ \in Types, typ = Asked(Top(g)), Scan(g, typ)
    PROVE  CacheInv'
  <1> DEFINE f == Frame("scan", typ, << >>)
  <1>1. f \in Frames /\ f.call = "scan" /\ f.typ = typ /\ f.i = 1
    BY EmptySeq DEF Frame, Frames
  <1>2. FrameOK(f)
    BY <1>1, FieldsTyped DEF FrameOK
  <1> HIDE DEF f
  <1>3. StackOK(Append(stack[g], f))
    BY <1>1, <1>2, TopTyped, PushOK DEF Top
  <1> QED BY <1>3, GoesOK DEF Scan, ValueKept, f

\* A scan returns what is right: it is cached and handed to the frame below.
LEMMA ScanReturnsOK ==
    ASSUME CacheInv, NEW g \in Goroutines, InCall(g, "scan"), NEW has \in BOOLEAN,
           has = (Top(g).typ \in Carriers), has \/ Tame(Top(g).typ), ScanReturns(g, has)
    PROVE  CacheInv'
  <1> DEFINE t == Top(g).typ
  <1>1. /\ StackOK(stack[g]) /\ stack[g] # << >> /\ t \in Types /\ Top(g).call = "scan"
    BY TopTyped DEF InCall
  <1>2. /\ StackOK(Front(stack[g])) /\ Front(stack[g]) # << >>
        /\ t = Asked(Last(Front(stack[g])))
    BY <1>1, PopOK DEF Top
  <1>3. /\ defaultsCache' = [u \in DOMAIN defaultsCache \cup {t} |-> IF u = t THEN has ELSE defaultsCache[u]]
        /\ stack' = [stack EXCEPT ![g] = Front(stack[g])]
        /\ ret' = [ret EXCEPT ![g] = <<has>>]
        /\ root' = root
    BY DEF ScanReturns, ValueKept
  <1> HIDE DEF t
  <1>4. DOMAIN defaultsCache' \subseteq Types /\ CacheIsRight' /\ CachedTame'
    <2>1. has = (t \in Carriers) /\ (has \/ Tame(t))
      BY DEF t
    <2>2. DOMAIN defaultsCache' = DOMAIN defaultsCache \cup {t}
      BY <1>3
    <2>3. ASSUME NEW u \in DOMAIN defaultsCache'
          PROVE  defaultsCache'[u] = (u \in Carriers) /\ (defaultsCache'[u] \/ Tame(u))
      <3>1. CASE u = t
        <4>1. defaultsCache'[u] = has
          BY <1>3, <2>2, <3>1
        <4> QED BY <2>1, <3>1, <4>1
      <3>2. CASE u # t
        <4>1. defaultsCache'[u] = defaultsCache[u] /\ u \in DOMAIN defaultsCache
          BY <1>3, <2>2, <3>2
        <4> QED BY <4>1 DEF CacheInv, CacheIsRight, CachedTame
      <3> QED BY <3>1, <3>2
    <2> QED BY <1>1, <2>2, <2>3 DEF CacheInv, CacheIsRight, CachedTame
  <1>5. stack' \in [Goroutines -> Seq(Frames)] /\ DOMAIN ret' = Goroutines
    BY <1>2, <1>3 DEF CacheInv, StackOK
  <1>6. ASSUME NEW h \in Goroutines PROVE StackOK(stack'[h]) /\ RetOK(h)'
    <2>1. CASE h = g
      <3>1. stack'[h] = Front(stack[g]) /\ ret'[h] = <<has>>
        BY <1>3, <2>1 DEF CacheInv
      <3>2. ret'[h][1] = has
        BY <3>1
      <3>3. has = (t \in Carriers) /\ (has \/ Tame(t))
        BY DEF t
      <3>4. /\ ret'[h][1] = (Asked(Last(stack'[h])) \in Carriers)
            /\ ret'[h][1] \/ Tame(Asked(Last(stack'[h])))
        BY <1>2, <3>1, <3>2, <3>3
      <3> QED BY <1>2, <3>1, <3>4 DEF RetOK, Top
    <2>2. CASE h # g
      <3>1. stack'[h] = stack[h] /\ ret'[h] = ret[h]
        BY <1>3, <2>2 DEF CacheInv
      <3> QED BY <3>1 DEF CacheInv, RetOK, Top
    <2> QED BY <2>1, <2>2
  <1> QED BY <1>3, <1>4, <1>5, <1>6 DEF CacheInv

\* A frame goes on after a field without defaults.
LEMMA AdvancedOK ==
    ASSUME CacheInv, NEW g \in Goroutines, Running(g),
           Top(g).call = "scan" => /\ Top(g).i \in 1..Len(Fields[Top(g).typ])
                                   /\ ~Field(g).exported \/
                                        /\ Field(g).tag = "none"
                                        /\ Field(g).kind = "scalar" \/ Plain(Field(g).of)
    PROVE  StackOK(Advanced(g)) /\ Advanced(g) # << >>
  <1> DEFINE f == [Last(stack[g]) EXCEPT !.i = @ + 1]
  <1>1. /\ StackOK(stack[g]) /\ stack[g] # << >> /\ Top(g) \in Frames /\ Top(g).typ \in Types
        /\ FrameOK(Top(g)) /\ Top(g).i \in Nat
    BY TopTyped
  <1>2. f.i = Top(g).i + 1 /\ f.call = Top(g).call /\ f.typ = Top(g).typ
    BY <1>1 DEF Top, Frames
  <1>3. FrameOK(f)
    <2> SUFFICES ASSUME Top(g).call = "scan"
                 PROVE  /\ Top(g).i + 1 \in 1..Len(Fields[Top(g).typ]) + 1
                        /\ \A j \in Seen(Top(g).typ) : j < Top(g).i + 1 =>
                              /\ Fields[Top(g).typ][j].tag = "none"
                              /\ \/ Fields[Top(g).typ][j].kind = "scalar"
                                 \/ Plain(Fields[Top(g).typ][j].of)
      BY <1>2 DEF FrameOK
    <2>1. Top(g).i + 1 \in 1..Len(Fields[Top(g).typ]) + 1
      BY <1>1, FieldsTyped
    <2>2. ASSUME NEW j \in Seen(Top(g).typ), j < Top(g).i + 1
          PROVE  /\ Fields[Top(g).typ][j].tag = "none"
                 /\ \/ Fields[Top(g).typ][j].kind = "scalar"
                    \/ Plain(Fields[Top(g).typ][j].of)
      <3>1. j < Top(g).i \/ j = Top(g).i
        BY <1>1, <2>2, FieldsTyped
      <3>2. CASE j < Top(g).i
        BY <1>1, <3>2 DEF FrameOK
      <3>3. CASE j = Top(g).i
        BY <3>3 DEF Field, Seen
      <3> QED BY <3>1, <3>2, <3>3
    <2> QED BY <2>1, <2>2
  <1>4. Advanced(g) = [stack[g] EXCEPT ![Len(stack[g])] = f]
    BY DEF Advanced, Last
  <1> HIDE DEF f
  <1> QED BY <1>1, <1>3, <1>4, AdvanceOK DEF f

\* A scan at a field: it skips it, ends, or asks for its type.
LEMMA ScanFieldOK ==
    ASSUME CacheInv, NEW g \in Goroutines, ScanField(g)
    PROVE  CacheInv'
  <1> DEFINE f == Field(g)
             t == Top(g).typ
  <1>1. InField(g, "scan")
    BY DEF ScanField
  <1>2. /\ Running(g) /\ Top(g).call = "scan" /\ InCall(g, "scan")
        /\ Top(g).i \in 1..Len(Fields[t]) /\ f \in FieldSet /\ f.of \in Types /\ Asked(Top(g)) = f.of
        /\ t \in Types
    BY <1>1, FieldTyped, TopTyped DEF InField
  <1>3. Nested(f) <=> f.kind # "scalar"
    BY <1>2 DEF FieldSet, Nested
  <1>4. f = Fields[t][Top(g).i] /\ (f.exported => Top(g).i \in Seen(t))
    BY <1>2, FieldsTyped DEF Field, Seen
  <1>5. CASE (~f.exported \/ (f.tag = "none" /\ ~Nested(f))) /\ Goes(g, Advanced(g))
             /\ ValueKept /\ UNCHANGED <<defaultsCache, result>>
    BY <1>2, <1>3, <1>5, AdvancedOK, GoesOK DEF ValueKept
  <1>6. CASE f.exported /\ f.tag # "none" /\ ScanReturns(g, TRUE)
    <2>1. t \in Carriers
      BY <1>2, <1>4, <1>6, CarriersAre
    <2> QED BY <1>2, <1>6, <2>1, ScanReturnsOK
  <1>7. CASE f.exported /\ f.tag = "none" /\ Nested(f) /\ Scan(g, f.of)
    BY <1>2, <1>7, ScanOK
  <1>8. CASE f.exported /\ Nested(f) /\ Answers(g, f.of, TRUE) /\ ScanReturns(g, TRUE)
    <2>1. f.of \in Carriers
      BY <1>2, <1>8, AnswerIsRight
    <2>2. t \in Carriers
      BY <1>2, <1>3, <1>4, <1>8, <2>1, CarriersAre
    <2> QED BY <1>2, <1>8, <2>2, ScanReturnsOK
  <1>9. CASE f.exported /\ f.tag = "none" /\ Answers(g, f.of, FALSE) /\ Goes(g, Advanced(g))
             /\ ValueKept /\ UNCHANGED <<defaultsCache, result>>
    <2>1. Plain(f.of)
      BY <1>2, <1>9, AnswerIsRight
    <2> QED BY <1>2, <1>9, <2>1, AdvancedOK, GoesOK DEF ValueKept
  <1> QED BY <1>5, <1>6, <1>7, <1>8, <1>9 DEF ScanField

\* A scan that has seen every field found nothing.
LEMMA ScanEndsOK ==
    ASSUME CacheInv, NEW g \in Goroutines, ScanEnds(g)
    PROVE  CacheInv'
  <1> DEFINE t == Top(g).typ
  <1>1. /\ InCall(g, "scan") /\ Running(g) /\ Top(g).call = "scan" /\ Top(g).i > Len(Fields[t])
        /\ ScanReturns(g, FALSE)
    BY DEF ScanEnds, InCall, Ended
  <1>2. t \in Types /\ FrameOK(Top(g)) /\ Top(g).i \in Nat
    BY <1>1, TopTyped
  <1>3. t \notin Carriers /\ Tame(t)
    <2>1. \A j \in Seen(t) : Fields[t][j].tag = "none"
                             /\ (Fields[t][j].kind = "scalar" \/ Plain(Fields[t][j].of))
      BY <1>1, <1>2, FieldsTyped DEF FrameOK
    <2>2. t \in Types
      BY <1>2
    <2> HIDE DEF t
    <2>3. t \notin Carriers
      BY <2>1, <2>2, CarriersAre DEF Plain
    <2>4. Tame(t)
      BY <2>1, <2>2, TameWhenHeldAre DEF Plain
    <2> QED BY <2>3, <2>4
  <1>4. FALSE = (t \in Carriers)
    BY <1>3
  <1> QED BY <1>1, <1>3, <1>4, ScanReturnsOK

\* The walk over a value makes and ends calls of its own, and asks for types.
LEMMA SetOK ==
    ASSUME CacheInv, NEW g \in Goroutines,
           SetBegins(g) \/ SetEnds(g) \/ SetStruct(g) \/ SetNilPointer(g) \/ SetScalar(g)
    PROVE  CacheInv'
  <1>1. InCall(g, "set") /\ Running(g) /\ Top(g).call = "set"
    BY DEF SetBegins, SetEnds, SetStruct, SetNilPointer, SetScalar, InField, InCall
  <1>2. /\ StackOK(stack[g]) /\ stack[g] # << >> /\ Top(g).typ \in Types
        /\ StackOK(Advanced(g)) /\ Advanced(g) # << >>
    BY <1>1, TopTyped, AdvancedOK
  <1>3. ASSUME Goes(g, Advanced(g)), UNCHANGED <<defaultsCache, root>> PROVE CacheInv'
    BY <1>2, <1>3, GoesOK
  <1>4. ASSUME SetReturns(g) PROVE CacheInv'
    <2>1. StackOK(Front(stack[g]))
      BY <1>2, PopOK
    <2> QED BY <1>4, <2>1, GoesOK DEF SetReturns, ValueKept
  <1>5. ASSUME InField(g, "set"), Enter(g), UNCHANGED <<defaultsCache, root>> PROVE CacheInv'
    <2> DEFINE f == Frame("set", Field(g).of, Place(g))
    <2>1. f \in Frames /\ f.call = "set"
      BY <1>5, FieldTyped DEF Frame, Frames
    <2>2. FrameOK(f)
      BY <2>1 DEF FrameOK
    <2> HIDE DEF f
    <2>3. StackOK(Append(Advanced(g), f))
      BY <1>2, <2>1, <2>2, PushOK
    <2> QED BY <1>5, <2>3, GoesOK DEF Enter, f
  <1>6. CASE SetBegins(g)
    <2>1. Asked(Top(g)) = Top(g).typ
      BY <1>6 DEF SetBegins, Asked
    <2>2. CASE Scan(g, Top(g).typ)
      BY <1>1, <1>2, <2>1, <2>2, ScanOK
    <2> QED BY <1>3, <1>4, <1>6, <2>2 DEF SetBegins, ValueKept
  <1>7. CASE SetEnds(g)
    BY <1>4, <1>7 DEF SetEnds
  <1>8. CASE SetStruct(g)
    BY <1>5, <1>8 DEF SetStruct, ValueKept
  <1>9. CASE SetNilPointer(g)
    <2>1. InField(g, "set")
      BY <1>9 DEF SetNilPointer
    <2>2. CASE Scan(g, Field(g).of)
      BY <2>1, <2>2, FieldTyped, ScanOK
    <2> QED BY <1>3, <1>5, <1>9, <2>1, <2>2 DEF SetNilPointer, SkipField, ValueKept
  <1>10. CASE SetScalar(g)
    <2>1. CASE Goes(g, << >>) /\ UNCHANGED <<defaultsCache, root>>
      <3>1. StackOK(<< >>)
        BY EmptySeq DEF StackOK
      <3> QED BY <2>1, <3>1, GoesOK
    <2> QED BY <1>3, <1>10, <2>1 DEF SetScalar, SkipField, ValueKept
  <1> QED BY <1>6, <1>7, <1>8, <1>9, <1>10

\* A walk begins with the bound struct.
LEMMA ApplyDefaultsOK ==
    ASSUME CacheInv, NEW g \in Goroutines, ApplyDefaults(g)
    PROVE  CacheInv'
  <1> DEFINE f == Frame("set", root[g], << >>)
  <1>1. f \in Frames /\ f.call = "set"
    BY EmptySeq DEF Frame, Frames, CacheInv
  <1>2. FrameOK(f)
    BY <1>1 DEF FrameOK
  <1> HIDE DEF f
  <1>3. StackOK(<<f>>)
    BY <1>1, <1>2 DEF StackOK
  <1>4. stack[g] = << >> /\ stack' = [stack EXCEPT ![g] = <<f>>] /\ UNCHANGED <<defaultsCache, ret, root>>
    BY DEF ApplyDefaults, f
  <1>5. ret[g] = << >>
    BY <1>4 DEF CacheInv, RetOK
  <1>6. stack' \in [Goroutines -> Seq(Frames)]
    BY <1>3, <1>4 DEF CacheInv, StackOK
  <1>7. ASSUME NEW h \in Goroutines PROVE StackOK(stack'[h]) /\ RetOK(h)'
    <2>1. CASE h = g
      BY <1>3, <1>4, <1>5, <2>1 DEF CacheInv, RetOK
    <2>2. CASE h # g
      <3>1. stack'[h] = stack[h] /\ ret'[h] = ret[h]
        BY <1>4, <2>2 DEF CacheInv
      <3> QED BY <3>1 DEF CacheInv, RetOK, Top
    <2> QED BY <2>1, <2>2
  <1> QED BY <1>4, <1>6, <1>7 DEF CacheInv, CacheIsRight, CachedTame

\* Nothing the invariant is about changes.
LEMMA CacheInvStays ==
    ASSUME CacheInv, UNCHANGED <<defaultsCache, stack, ret, root>>
    PROVE  CacheInv'
  BY DEF CacheInv, CacheIsRight, CachedTame, RetOK, Top

\* Nothing is cached at first.
LEMMA InitCacheInv == Init => CacheInv
  <1> SUFFICES ASSUME Init PROVE CacheInv
    OBVIOUS
  <1>1. StackOK(<< >>) /\ << >> \in Seq(Frames)
    BY EmptySeq DEF StackOK
  <1>2. root \in [Goroutines -> Types]
    BY StartsAssumption DEF Init
  <1> QED BY <1>1, <1>2 DEF Init, CacheInv, CacheIsRight, CachedTame, RetOK

\* Every step keeps the invariant.
LEMMA NextCacheInv == CacheInv /\ [Next]_vars => CacheInv'
  <1> SUFFICES ASSUME CacheInv, [Next]_vars PROVE CacheInv'
    OBVIOUS
  <1>1. ASSUME NEW g \in Goroutines, ApplyDefaults(g) \/ Step(g) \/ Overflow(g) PROVE CacheInv'
    <2>1. CASE ApplyDefaults(g)
      BY <2>1, ApplyDefaultsOK
    <2>2. CASE ScanField(g)
      BY <2>2, ScanFieldOK
    <2>3. CASE ScanEnds(g)
      BY <2>3, ScanEndsOK
    <2>4. CASE SetBegins(g) \/ SetEnds(g) \/ SetStruct(g) \/ SetNilPointer(g) \/ SetScalar(g)
      BY <2>4, SetOK
    <2>5. CASE Overflow(g)
      BY <2>5, CacheInvStays DEF Overflow
    <2> QED BY <1>1, <2>1, <2>2, <2>3, <2>4, <2>5 DEF Step
  <1>2. CASE UNCHANGED vars
    BY <1>2, CacheInvStays DEF vars
  <1> QED BY <1>1, <1>2 DEF Next

\* What the goroutines of the program share of the types' defaults is right, in
\* whatever order their scans run (src/binding.go:110-140).
THEOREM CacheRight == Spec => []CacheIsRight
  <1>1. CacheInv => CacheIsRight
    BY DEF CacheInv
  <1> QED BY <1>1, InitCacheInv, NextCacheInv, PTL DEF Spec

-----------------------------------------------------------------------------
(* The depth of the stack                                                  *)

\* Frame f may be the k-th: there is room for walks through all types under its
\* own, and for one scan of the last of them.
FrameFits(f, k) ==
    /\ Tame(f.typ)
    /\ k + Rank(f.typ) <= N + (IF f.call = "scan" THEN 1 ELSE 0)
Room(st) == \A k \in 1..Len(st) : FrameFits(st[k], k)

DepthInv ==
    /\ \A g \in Goroutines : Tame(root[g]) => Room(stack[g])
    /\ (\E g \in Goroutines : result[g] = "overflow") => \E g \in Goroutines : ~Tame(root[g])

\* The last frame returns.
LEMMA RoomPop ==
    ASSUME NEW st \in Seq(Frames), st # << >>, Room(st)
    PROVE  Room(Front(st))
  <1>1. /\ Len(st) \in Nat /\ Len(Front(st)) = Len(st) - 1
        /\ \A k \in 1..Len(st) - 1 : Front(st)[k] = st[k]
    BY FrontIs
  <1>2. \A k \in 1..Len(st) - 1 : k \in 1..Len(st)
    BY <1>1
  <1> QED BY <1>1, <1>2 DEF Room

\* A frame that goes on is one, of the same call for the same type.
LEMMA FrameGoesOn ==
    ASSUME NEW l \in Frames, NEW f, f = [l EXCEPT !.i = @ + 1]
    PROVE  f \in Frames /\ f.call = l.call /\ f.typ = l.typ
  BY DEF Frames

\* The last frame goes on to another field.
LEMMA RoomAdvance ==
    ASSUME NEW st \in Seq(Frames), st # << >>, Room(st), NEW f, f = [Last(st) EXCEPT !.i = @ + 1],
           NEW up, up = [st EXCEPT ![Len(st)] = f]
    PROVE  /\ Room(up) /\ up \in Seq(Frames) /\ up # << >>
           /\ Last(up).typ = Last(st).typ /\ Last(up).call = Last(st).call
  <1>1. Len(st) \in Nat /\ Len(st) # 0 /\ Len(st) \in 1..Len(st)
    BY LenProperties, EmptySeq
  <1>2. Last(st) \in Frames /\ Last(st) = st[Len(st)]
    BY <1>1, ElementOfSeq DEF Last
  <1>3. f \in Frames /\ f.call = Last(st).call /\ f.typ = Last(st).typ
    BY <1>2, FrameGoesOn
  <1>4. /\ up \in Seq(Frames) /\ Len(up) = Len(st)
        /\ \A k \in 1..Len(st) : up[k] = IF k = Len(st) THEN f ELSE st[k]
    BY <1>1, <1>3, ExceptSeq
  <1>5. \A k \in 1..Len(st) : FrameFits(up[k], k)
    BY <1>2, <1>3, <1>4 DEF Room, FrameFits
  <1>6. Last(up) = f
    BY <1>1, <1>4 DEF Last
  <1> QED BY <1>1, <1>3, <1>4, <1>5, <1>6, EmptySeq DEF Room

\* A call for the type of the last frame, to scan it, or for one it holds.
LEMMA RoomPush ==
    ASSUME NEW st \in Seq(Frames), st # << >>, Room(st), NEW f \in Frames,
           \/ f.typ = Last(st).typ /\ Last(st).call = "set" /\ f.call = "scan"
           \/ HoldsOne(Last(st).typ, {f.typ}) /\ (Last(st).call = "scan" => f.call = "scan")
    PROVE  Room(Append(st, f))
  <1> DEFINE m == Len(st)
             t == Last(st).typ
  <1>1. m \in Nat /\ m # 0 /\ m \in 1..m
    BY LenProperties, EmptySeq
  <1>2. FrameFits(Last(st), m) /\ f.typ \in Types
    BY <1>1 DEF Room, Last, Frames
  <1>3. Tame(t) /\ Rank(t) \in Nat /\ m + Rank(t) <= N + (IF Last(st).call = "scan" THEN 1 ELSE 0)
    BY <1>2, RankTyped DEF FrameFits
  <1>4. FrameFits(f, m + 1)
    <2>1. CASE f.typ = t /\ Last(st).call = "set" /\ f.call = "scan"
      BY <1>1, <1>3, <2>1, NTyped DEF FrameFits
    <2>2. CASE HoldsOne(t, {f.typ}) /\ (Last(st).call = "scan" => f.call = "scan")
      <3>1. Tame(f.typ) /\ Rank(f.typ) + 1 <= Rank(t)
        BY <1>2, <1>3, <2>2, RankFalls
      <3>2. Rank(f.typ) \in Nat
        BY <3>1, RankTyped
      <3>3. f.call # "scan" => Last(st).call # "scan"
        BY <2>2
      <3>4. m + 1 + Rank(f.typ) <= N + (IF f.call = "scan" THEN 1 ELSE 0)
        <4> DEFINE r == Rank(f.typ)
                   q == Rank(t)
        <4>1. r \in Nat /\ q \in Nat /\ r + 1 <= q
          BY <1>3, <3>1, <3>2
        <4> HIDE DEF r, q
        <4>2. m + 1 + r <= m + q
          BY <1>1, <4>1
        <4>3. m + q <= N + (IF f.call = "scan" THEN 1 ELSE 0)
          BY <1>1, <1>3, <3>3, <4>1, NTyped DEF q
        <4> QED BY <1>1, <4>1, <4>2, <4>3, NTyped DEF r
      <3> QED BY <3>1, <3>4 DEF FrameFits
    <2> QED BY <2>1, <2>2
  <1>5. /\ Len(Append(st, f)) = m + 1 /\ Append(st, f)[m + 1] = f
        /\ \A k \in 1..m : Append(st, f)[k] = st[k]
    BY AppendProperties
  <1> HIDE DEF m, t
  <1>6. \A k \in 1..m + 1 : k \in 1..m \/ k = m + 1
    BY <1>1
  <1> QED BY <1>4, <1>5, <1>6 DEF Room, m

-----------------------------------------------------------------------------
(* The depth of the stack, step by step                                    *)

\* What DepthInv says of the stack of one goroutine, whose frames are well typed.
LEMMA TopRoom ==
    ASSUME CacheInv, DepthInv, NEW g \in Goroutines, Running(g), Tame(root[g])
    PROVE  /\ stack[g] \in Seq(Frames) /\ stack[g] # << >> /\ Room(stack[g])
           /\ Top(g) = Last(stack[g])
           /\ Room(Front(stack[g]))
           /\ Room(Advanced(g)) /\ Advanced(g) \in Seq(Frames) /\ Advanced(g) # << >>
           /\ Last(Advanced(g)).typ = Top(g).typ /\ Last(Advanced(g)).call = Top(g).call
  <1>1. stack[g] \in Seq(Frames) /\ stack[g] # << >> /\ Room(stack[g]) /\ Top(g) = Last(stack[g])
    BY TopTyped DEF StackOK, DepthInv, Top
  <1> DEFINE f == [Last(stack[g]) EXCEPT !.i = @ + 1]
             up == [stack[g] EXCEPT ![Len(stack[g])] = f]
  <1>2. Advanced(g) = up
    BY DEF Advanced, Last
  <1>3. /\ Room(up) /\ up \in Seq(Frames) /\ up # << >>
        /\ Last(up).typ = Last(stack[g]).typ /\ Last(up).call = Last(stack[g]).call
    <2>1. f = [Last(stack[g]) EXCEPT !.i = @ + 1] /\ up = [stack[g] EXCEPT ![Len(stack[g])] = f]
      OBVIOUS
    <2> HIDE DEF f, up
    <2> QED BY <1>1, <2>1, RoomAdvance
  <1> HIDE DEF up, f
  <1> QED BY <1>1, <1>2, <1>3, RoomPop

\* The calls of a goroutine change, and none overflows.
LEMMA DepthGoes ==
    ASSUME CacheInv, DepthInv, NEW g \in Goroutines, NEW frames,
           stack' = [stack EXCEPT ![g] = frames], root' = root,
           \A h \in Goroutines : result'[h] = "overflow" => result[h] = "overflow",
           Tame(root[g]) => Room(frames)
    PROVE  DepthInv'
  <1>1. ASSUME NEW h \in Goroutines, Tame(root[h]) PROVE Room(stack'[h])
    <2>1. stack'[h] = IF h = g THEN frames ELSE stack[h]
      BY DEF CacheInv
    <2> QED BY <1>1, <2>1 DEF DepthInv
  <1> QED BY <1>1 DEF DepthInv

\* A scan is made.
LEMMA DepthScan ==
    ASSUME CacheInv, DepthInv, NEW g \in Goroutines, Running(g), NEW typ \in Types, Scan(g, typ),
           (typ = Top(g).typ /\ Top(g).call = "set") \/ HoldsOne(Top(g).typ, {typ})
    PROVE  DepthInv'
  <1> DEFINE f == Frame("scan", typ, << >>)
  <1>1. f \in Frames /\ f.call = "scan" /\ f.typ = typ
    BY EmptySeq DEF Frame, Frames
  <1>2. stack' = [stack EXCEPT ![g] = Append(stack[g], f)] /\ root' = root /\ result' = result
    BY DEF Scan, Goes, ValueKept
  <1> HIDE DEF f
  <1>3. ASSUME Tame(root[g]) PROVE Room(Append(stack[g], f))
    BY <1>1, <1>3, TopRoom, RoomPush
  <1> QED BY <1>2, <1>3, DepthGoes

\* The struct of a field is entered.
LEMMA DepthEnter ==
    ASSUME CacheInv, DepthInv, NEW g \in Goroutines, InField(g, "set"), Enter(g),
           HoldsOne(Top(g).typ, {Field(g).of}), root' = root, result' = result
    PROVE  DepthInv'
  <1> DEFINE f == Frame("set", Field(g).of, Place(g))
  <1>1. f \in Frames /\ f.call = "set" /\ f.typ = Field(g).of /\ Running(g) /\ Top(g).call = "set"
    BY FieldTyped DEF Frame, Frames
  <1>2. stack' = [stack EXCEPT ![g] = Append(Advanced(g), f)]
    BY DEF Enter, Goes
  <1> HIDE DEF f
  <1>3. ASSUME Tame(root[g]) PROVE Room(Append(Advanced(g), f))
    <2>1. /\ Advanced(g) \in Seq(Frames) /\ Advanced(g) # << >> /\ Room(Advanced(g))
          /\ Last(Advanced(g)).typ = Top(g).typ /\ Last(Advanced(g)).call = "set"
      BY <1>1, <1>3, TopRoom
    <2>2. HoldsOne(Last(Advanced(g)).typ, {f.typ})
      BY <1>1, <2>1
    <2> QED BY <1>1, <2>1, <2>2, RoomPush
  <1> QED BY <1>2, <1>3, DepthGoes

\* The field a frame is at, when it holds a struct.
LEMMA FieldHolds ==
    ASSUME CacheInv, NEW g \in Goroutines, NEW call, InField(g, call),
           Field(g).exported, Field(g).kind # "scalar"
    PROVE  HoldsOne(Top(g).typ, {Field(g).of})
  <1>1. Top(g).typ \in Types /\ Top(g).i \in 1..Len(Fields[Top(g).typ])
    BY FieldTyped, TopTyped
  <1>2. Top(g).i \in Seen(Top(g).typ) /\ Field(g) = Fields[Top(g).typ][Top(g).i]
    BY <1>1, FieldsTyped DEF Seen, Field
  <1> QED BY <1>2 DEF HoldsOne

\* No walk is deeper than the types it goes through.
LEMMA NextDepthInv == CacheInv /\ DepthInv /\ [Next]_vars => DepthInv'
  <1> SUFFICES ASSUME CacheInv, DepthInv, [Next]_vars PROVE DepthInv'
    OBVIOUS
  <1>1. ASSUME NEW g \in Goroutines, Running(g), Goes(g, Advanced(g)), ValueKept, UNCHANGED result
        PROVE  DepthInv'
    <2>1. stack' = [stack EXCEPT ![g] = Advanced(g)] /\ root' = root
      BY <1>1 DEF Goes, ValueKept
    <2>2. Tame(root[g]) => Room(Advanced(g))
      BY <1>1, TopRoom
    <2> QED BY <1>1, <2>1, <2>2, DepthGoes
  <1>2. ASSUME NEW g \in Goroutines, Running(g), NEW has, ScanReturns(g, has) PROVE DepthInv'
    <2>1. stack' = [stack EXCEPT ![g] = Front(stack[g])] /\ root' = root /\ result' = result
      BY <1>2 DEF ScanReturns, ValueKept
    <2>2. Tame(root[g]) => Room(Front(stack[g]))
      BY <1>2, TopRoom
    <2> QED BY <2>1, <2>2, DepthGoes
  <1>3. ASSUME NEW g \in Goroutines, Running(g), SetReturns(g) PROVE DepthInv'
    <2>1. /\ stack' = [stack EXCEPT ![g] = Front(stack[g])] /\ root' = root
          /\ \A h \in Goroutines : result'[h] = "overflow" => result[h] = "overflow"
      BY <1>3 DEF SetReturns, Goes, ValueKept, DepthInv
    <2>2. Tame(root[g]) => Room(Front(stack[g]))
      BY <1>3, TopRoom
    <2> QED BY <2>1, <2>2, DepthGoes
  <1>4. ASSUME NEW g \in Goroutines, ApplyDefaults(g) PROVE DepthInv'
    <2> DEFINE f == Frame("set", root[g], << >>)
    <2>1. stack' = [stack EXCEPT ![g] = <<f>>] /\ root' = root /\ result' = result
      BY <1>4 DEF ApplyDefaults
    <2>2. f.call = "set" /\ f.typ = root[g]
      BY DEF Frame
    <2> HIDE DEF f
    <2>3. ASSUME Tame(root[g]) PROVE Room(<<f>>)
      <3>1. Len(<<f>>) = 1 /\ <<f>>[1] = f
        OBVIOUS
      <3>2. FrameFits(f, 1)
        BY <2>2, <2>3, RankTyped, NTyped DEF FrameFits
      <3>3. \A k \in 1..1 : k = 1
        OBVIOUS
      <3> QED BY <3>1, <3>2, <3>3 DEF Room
    <2> QED BY <2>1, <2>3, DepthGoes
  <1>5. ASSUME NEW g \in Goroutines, ScanField(g) PROVE DepthInv'
    <2>1. InField(g, "scan") /\ Running(g) /\ Field(g) \in FieldSet /\ Field(g).of \in Types
      BY <1>5, FieldTyped DEF ScanField
    <2>2. CASE Field(g).exported /\ Nested(Field(g)) /\ Scan(g, Field(g).of)
      <3>1. HoldsOne(Top(g).typ, {Field(g).of})
        BY <2>1, <2>2, FieldHolds DEF Nested
      <3> QED BY <2>1, <2>2, <3>1, DepthScan
    <2> QED BY <1>1, <1>2, <1>5, <2>1, <2>2 DEF ScanField
  <1>6. ASSUME NEW g \in Goroutines, ScanEnds(g) PROVE DepthInv'
    BY <1>2, <1>6 DEF ScanEnds, InCall
  <1>7. ASSUME NEW g \in Goroutines, SetBegins(g) PROVE DepthInv'
    <2>1. Running(g) /\ Top(g).call = "set"
      BY <1>7 DEF SetBegins, InCall
    <2>2. CASE Scan(g, Top(g).typ)
      BY <2>1, <2>2, TopTyped, DepthScan
    <2> QED BY <1>1, <1>3, <1>7, <2>1, <2>2 DEF SetBegins
  <1>8. ASSUME NEW g \in Goroutines, SetEnds(g) PROVE DepthInv'
    BY <1>3, <1>8 DEF SetEnds, InCall
  <1>9. ASSUME NEW g \in Goroutines, SetStruct(g) PROVE DepthInv'
    <2>1. /\ InField(g, "set") /\ Field(g).exported /\ Field(g).kind # "scalar"
          /\ Enter(g) /\ root' = root /\ result' = result
      BY <1>9 DEF SetStruct, ValueKept
    <2> QED BY <2>1, FieldHolds, DepthEnter
  <1>10. ASSUME NEW g \in Goroutines, SetNilPointer(g) PROVE DepthInv'
    <2>1. /\ InField(g, "set") /\ Field(g).exported /\ Field(g).kind # "scalar"
      BY <1>10 DEF SetNilPointer
    <2>2. /\ Running(g) /\ Field(g).of \in Types /\ HoldsOne(Top(g).typ, {Field(g).of})
      BY <2>1, FieldTyped, FieldHolds
    <2>3. CASE Scan(g, Field(g).of)
      BY <2>2, <2>3, DepthScan
    <2>4. CASE SkipField(g)
      BY <1>1, <2>2, <2>4 DEF SkipField
    <2>5. CASE Enter(g) /\ root' = root /\ result' = result
      BY <2>1, <2>2, <2>5, DepthEnter
    <2> QED BY <1>10, <2>3, <2>4, <2>5 DEF SetNilPointer
  <1>11. ASSUME NEW g \in Goroutines, SetScalar(g) PROVE DepthInv'
    <2>1. Running(g)
      BY <1>11 DEF SetScalar, InField, InCall
    <2>2. CASE SkipField(g)
      BY <1>1, <2>1, <2>2 DEF SkipField
    <2>3. CASE Goes(g, Advanced(g)) /\ root' = root /\ result' = result
      <3>1. stack' = [stack EXCEPT ![g] = Advanced(g)]
        BY <2>3 DEF Goes
      <3>2. Tame(root[g]) => Room(Advanced(g))
        BY <2>1, TopRoom
      <3> QED BY <2>3, <3>1, <3>2, DepthGoes
    <2>4. CASE Goes(g, << >>) /\ result' = [result EXCEPT ![g] = "error"] /\ ValueKept
      <3>1. stack' = [stack EXCEPT ![g] = << >>] /\ root' = root
        BY <2>4 DEF Goes, ValueKept
      <3>2. Room(<< >>)
        BY EmptySeq DEF Room
      <3>3. \A h \in Goroutines : result'[h] = "overflow" => result[h] = "overflow"
        BY <2>4
      <3> QED BY <3>1, <3>2, <3>3, DepthGoes
    <2> QED BY <1>11, <2>2, <2>3, <2>4 DEF SetScalar
  <1>12. ASSUME NEW g \in Goroutines, Overflow(g) PROVE DepthInv'
    <2>1. Len(stack[g]) = StackLimit /\ stack' = stack /\ root' = root
      BY <1>12 DEF Overflow
    <2>2. ~Tame(root[g])
      <3> SUFFICES ASSUME Tame(root[g]) PROVE FALSE
        OBVIOUS
      <3>1. StackLimit \in 1..StackLimit /\ StackLimit \in Nat /\ StackLimit >= N + 2
        BY StackAssumption, NTyped DEF N
      <3>2. FrameFits(stack[g][StackLimit], StackLimit)
        BY <2>1, <3>1 DEF DepthInv, Room
      <3> DEFINE r == Rank(stack[g][StackLimit].typ)
      <3>3. r \in Nat
        BY <3>2, RankTyped DEF FrameFits
      <3>4. StackLimit + r <= N + 1
        <4>1. StackLimit + r <= N + (IF stack[g][StackLimit].call = "scan" THEN 1 ELSE 0)
          BY <3>2 DEF FrameFits
        <4> HIDE DEF r
        <4> QED BY <3>1, <3>3, <4>1, NTyped
      <3> HIDE DEF r
      <3> QED BY <3>1, <3>3, <3>4, NTyped
    <2> QED BY <2>1, <2>2 DEF DepthInv
  <1>13. CASE UNCHANGED vars
    BY <1>13 DEF vars, DepthInv
  <1> QED BY <1>4, <1>5, <1>6, <1>7, <1>8, <1>9, <1>10, <1>11, <1>12, <1>13 DEF Next, Step

\* Only a bound struct that holds a recursive type can exhaust the stack, however
\* the types are nested and whatever other goroutines do (src/binding.go:63-90,
\* 123-140).
THEOREM OnlyRecursionOverflows == Spec => []OnlyRecursiveTypesOverflow
  <1>1. Init => CacheInv /\ DepthInv
    <2> SUFFICES ASSUME Init PROVE DepthInv
      BY InitCacheInv
    <2>1. Room(<< >>)
      BY EmptySeq DEF Room
    <2> QED BY <2>1 DEF Init, DepthInv
  <1>2. CacheInv /\ DepthInv /\ [Next]_vars => CacheInv' /\ DepthInv'
    BY NextCacheInv, NextDepthInv
  <1>3. CacheInv /\ DepthInv => OnlyRecursiveTypesOverflow
    BY DEF CacheInv, DepthInv, OnlyRecursiveTypesOverflow, Tame
  <1> QED BY <1>1, <1>2, <1>3, PTL DEF Spec

-----------------------------------------------------------------------------
(* The structs in a value                                                  *)

\* A place and a type, and what field j of the struct there holds.
Spots == Seq(Nat) \X Types
Kid(s, j) == <<Append(s[1], j), Fields[s[2]][j].of>>

\* The structs near, and those they hold in a value whose pointers are ps.
Deeper(near, ps) == near \cup UNION {{Kid(s, j) : j \in Held(s, ps)} : s \in near}

\* What a struct holds is of one of the types, in a place under its own.
LEMMA KidTyped ==
    ASSUME NEW s \in Spots, NEW ps, NEW j \in Held(s, ps)
    PROVE  /\ j \in Seen(s[2]) /\ j \in Nat /\ Fields[s[2]][j].kind # "scalar"
           /\ Kid(s, j) \in Spots /\ Kid(s, j)[1] = Append(s[1], j)
           /\ Kid(s, j)[2] = Fields[s[2]][j].of
           /\ Len(s[1]) \in Nat /\ Len(Kid(s, j)[1]) = Len(s[1]) + 1
           /\ Kid(s, j)[1][Len(s[1]) + 1] = j
           /\ \A k \in 1..Len(s[1]) : Kid(s, j)[1][k] = s[1][k]
  <1>1. s[1] \in Seq(Nat) /\ s[2] \in Types
    BY DEF Spots
  <1>2. j \in Seen(s[2]) /\ Fields[s[2]][j].kind # "scalar"
    BY DEF Held
  <1>3. j \in Nat /\ Fields[s[2]][j].of \in Types
    BY <1>1, <1>2, FieldsTyped
  <1>4. Kid(s, j)[1] = Append(s[1], j) /\ Kid(s, j)[2] = Fields[s[2]][j].of
    BY DEF Kid
  <1>5. /\ Append(s[1], j) \in Seq(Nat) /\ Len(Append(s[1], j)) = Len(s[1]) + 1
        /\ Append(s[1], j)[Len(s[1]) + 1] = j
        /\ \A k \in 1..Len(s[1]) : Append(s[1], j)[k] = s[1][k]
        /\ Len(s[1]) \in Nat
    BY <1>1, <1>3, AppendProperties, LenProperties
  <1>6. Kid(s, j) \in Spots
    BY <1>3, <1>5 DEF Kid, Spots
  <1> QED BY <1>2, <1>3, <1>4, <1>5, <1>6

\* The recursion of Nodes.
LEMMA NodesRounds ==
    ASSUME NEW t \in Types, NEW ps
    PROVE  \E h \in [0..N -> SUBSET Spots] :
              /\ Nodes(t, ps) = h[N]
              /\ h[0] = {<< << >>, t >>}
              /\ \A n \in 0..N - 1 : h[n + 1] = Deeper(h[n], ps)
  <1> DEFINE step == [x \in (SUBSET Spots) \X Nat |-> Deeper(x[1], ps)]
             Rec(g) == g = [n \in 0..N |-> IF n = 0 THEN {<< << >>, t >>}
                                ELSE LET near == g[n - 1] IN
                                     near \cup UNION {{<<Append(s[1], j), Fields[s[2]][j].of>> :
                                                         j \in Held(s, ps)} : s \in near}]
             h == CHOOSE g : Rec(g)
  <1>1. \A near \in SUBSET Spots : Deeper(near, ps) \in SUBSET Spots
    BY KidTyped DEF Deeper
  <1>2. step \in [(SUBSET Spots) \X Nat -> SUBSET Spots]
    BY <1>1
  <1>3. {<< << >>, t >>} \in SUBSET Spots
    <2>1. << >> \in Seq(Nat)
      BY EmptySeq
    <2> DEFINE e == << >>
    <2>2. e \in Seq(Nat)
      BY <2>1
    <2> HIDE DEF e
    <2>3. {<<e, t>>} \in SUBSET Spots
      BY <2>2 DEF Spots
    <2> QED BY <2>3 DEF e
  <1>4. PICK g \in [0..N -> SUBSET Spots] : FollowsSteps(g, N, {<< << >>, t >>}, step)
    <2> HIDE DEF step
    <2> QED BY <1>2, <1>3, NTyped, RecursiveFunctionExists
  <1>5. Rec(g)
    <2>1. ASSUME NEW n \in 0..N, n # 0 PROVE step[<<g[n - 1], n>>] = Deeper(g[n - 1], ps)
      <3>1. n - 1 \in 0..N /\ n \in Nat
        BY <2>1, NTyped
      <3> QED BY <3>1
    <2> HIDE DEF step
    <2>2. g = [n \in 0..N |-> IF n = 0 THEN {<< << >>, t >>} ELSE Deeper(g[n - 1], ps)]
      BY <1>4, <2>1 DEF FollowsSteps
    <2> QED BY <2>2 DEF Deeper, Kid
  <1>6. Rec(h)
    <2> HIDE DEF Rec
    <2> QED BY <1>5
  <1>7. Nodes(t, ps) = h[N]
    BY Zenon DEF Nodes, N
  <1>8. h = [n \in 0..N |-> IF n = 0 THEN {<< << >>, t >>} ELSE Deeper(h[n - 1], ps)]
    <2> HIDE DEF h
    <2> QED BY <1>6 DEF Deeper, Kid
  <1> HIDE DEF h
  <1> DEFINE S == {n \in Nat : n \in 0..N => h[n] \in SUBSET Spots}
  <1>9. 0 \in S
    BY <1>3, <1>8, NTyped
  <1>10. ASSUME NEW n \in Nat, n \in S PROVE n + 1 \in S
    <2> SUFFICES ASSUME n + 1 \in 0..N PROVE h[n + 1] \in SUBSET Spots
      OBVIOUS
    <2>1. n \in 0..N /\ n + 1 # 0 /\ (n + 1) - 1 = n
      BY NTyped
    <2> QED BY <1>1, <1>8, <1>10, <2>1
  <1>11. Nat \subseteq S
    <2> HIDE DEF S
    <2> QED BY <1>9, <1>10, NatSetInduction
  <1>12. h \in [0..N -> SUBSET Spots]
    <2>1. \A n \in 0..N : h[n] \in SUBSET Spots
      BY <1>11, NTyped
    <2> HIDE DEF S
    <2> QED BY <1>8, <2>1
  <1>13. ASSUME NEW n \in 0..N - 1 PROVE h[n + 1] = Deeper(h[n], ps)
    <2>1. n + 1 \in 0..N /\ n + 1 # 0 /\ (n + 1) - 1 = n
      BY NTyped
    <2> QED BY <1>8, <2>1
  <1>14. h[0] = {<< << >>, t >>}
    BY <1>8, NTyped
  <1> QED BY <1>7, <1>12, <1>13, <1>14

\* What a struct of a tame type holds is tame, and nearer to the end.
LEMMA HeldIsLess ==
    ASSUME NEW s \in Spots, Tame(s[2]), NEW ps, NEW j \in Held(s, ps)
    PROVE  /\ Tame(Kid(s, j)[2]) /\ Rank(Kid(s, j)[2]) \in Nat /\ Rank(s[2]) \in Nat
           /\ Rank(Kid(s, j)[2]) + 1 <= Rank(s[2])
  <1> DEFINE u == Fields[s[2]][j].of
  <1>1. j \in Seen(s[2]) /\ Fields[s[2]][j].kind # "scalar" /\ Kid(s, j)[2] = u /\ Kid(s, j) \in Spots
    BY KidTyped
  <1>2. u \in Types
    BY <1>1 DEF Spots
  <1>3. HoldsOne(s[2], {u})
    BY <1>1 DEF HoldsOne
  <1> HIDE DEF u
  <1>4. Tame(u) /\ Rank(u) + 1 <= Rank(s[2])
    BY <1>2, <1>3, RankFalls
  <1> QED BY <1>1, <1>4, RankTyped

\* The structs in a value of a tame type: the bound one and all that those hold, and
\* nothing else.
LEMMA NodesAre ==
    ASSUME NEW t, Tame(t), NEW ps
    PROVE  /\ Nodes(t, ps) \subseteq Spots
           /\ \A s \in Nodes(t, ps) : Tame(s[2])
           /\ << << >>, t >> \in Nodes(t, ps)
           /\ \A s \in Nodes(t, ps) : \A j \in Held(s, ps) : Kid(s, j) \in Nodes(t, ps)
           /\ \A W : /\ << << >>, t >> \in W
                     /\ \A s \in Nodes(t, ps) : s \in W => \A j \in Held(s, ps) : Kid(s, j) \in W
                     => Nodes(t, ps) \subseteq W
  <1> DEFINE e == << << >>, t >>
             V == Nodes(t, ps)
  <1>1. t \in Types
    BY DEF Tame
  <1>2. PICK h \in [0..N -> SUBSET Spots] : /\ V = h[N]
                                            /\ h[0] = {e}
                                            /\ \A n \in 0..N - 1 : h[n + 1] = Deeper(h[n], ps)
    BY <1>1, NodesRounds
  <1>3. e[2] = t /\ Len(e[1]) = 0
    BY EmptySeq
  <1> HIDE DEF e, V
  <1> DEFINE Up == {n \in Nat : n \in 0..N => \A m \in 0..n : h[m] \subseteq h[n]}
  <1>4. \A n \in 0..N : \A m \in 0..n : h[m] \subseteq h[n]
    <2>1. 0 \in Up
      OBVIOUS
    <2>2. ASSUME NEW n \in Nat, n \in Up PROVE n + 1 \in Up
      <3> SUFFICES ASSUME n + 1 \in 0..N, NEW m \in 0..n + 1 PROVE h[m] \subseteq h[n + 1]
        OBVIOUS
      <3>1. n \in 0..N - 1 /\ n \in 0..N
        BY NTyped
      <3>2. h[n] \subseteq h[n + 1]
        BY <1>2, <3>1 DEF Deeper
      <3>3. m \in 0..n \/ m = n + 1
        OBVIOUS
      <3> QED BY <2>2, <3>1, <3>2, <3>3
    <2>3. Nat \subseteq Up
      <3> HIDE DEF Up
      <3> QED BY <2>1, <2>2, NatSetInduction
    <2> QED BY <2>3, NTyped
  <1> DEFINE Good(s) == /\ Tame(s[2]) /\ Len(s[1]) \in Nat
                        /\ Len(s[1]) + Rank(s[2]) <= Rank(t)
                        /\ s \in h[Len(s[1])]
             Fit == {n \in Nat : n \in 0..N => \A s \in h[n] : Good(s)}
  <1>5. Rank(t) \in Nat /\ 1 + Rank(t) <= N
    BY RankTyped
  <1>6. ASSUME NEW s \in Spots, Good(s), NEW j \in Held(s, ps)
        PROVE  Good(Kid(s, j)) /\ Len(Kid(s, j)[1]) \in 0..N
    <2> DEFINE l == Len(s[1])
               k == Kid(s, j)
               r == Rank(s[2])
               q == Rank(k[2])
    <2>1. Tame(k[2]) /\ q \in Nat /\ r \in Nat /\ q + 1 <= r
      BY <1>6, HeldIsLess
    <2>2. Len(k[1]) = l + 1 /\ l \in Nat /\ l + r <= Rank(t) /\ s \in h[l]
      BY <1>6, KidTyped
    <2> HIDE DEF q, r, l
    <2>3. l \in 0..N - 1 /\ l + 1 \in 0..N /\ l + 1 + q <= Rank(t)
      BY <1>5, <2>1, <2>2, NTyped
    <2>4. k \in h[l + 1]
      BY <1>2, <2>2, <2>3 DEF Deeper
    <2> HIDE DEF k
    <2> QED BY <2>1, <2>2, <2>3, <2>4 DEF q, k
  <1>7. \A n \in 0..N : \A s \in h[n] : Good(s)
    <2>1. 0 \in Fit
      BY <1>2, <1>3, <1>5
    <2>2. ASSUME NEW n \in Nat, n \in Fit PROVE n + 1 \in Fit
      <3> SUFFICES ASSUME n + 1 \in 0..N, NEW s \in h[n + 1] PROVE Good(s)
        OBVIOUS
      <3>1. n \in 0..N - 1 /\ n \in 0..N
        BY NTyped
      <3>2. s \in h[n] \/ \E r \in h[n] : \E j \in Held(r, ps) : s = Kid(r, j)
        BY <1>2, <3>1 DEF Deeper
      <3>3. \A r \in h[n] : r \in Spots /\ Good(r)
        BY <2>2, <3>1
      <3> HIDE DEF Good
      <3> QED BY <1>6, <3>2, <3>3
    <2>3. Nat \subseteq Fit
      <3> HIDE DEF Fit
      <3> QED BY <2>1, <2>2, NatSetInduction
    <2> QED BY <2>3, NTyped
  <1>8. N \in 0..N /\ V \subseteq Spots
    BY <1>2, NTyped
  <1>9. \A s \in V : \A j \in Held(s, ps) : Kid(s, j) \in V
    <2> SUFFICES ASSUME NEW s \in V, NEW j \in Held(s, ps) PROVE Kid(s, j) \in V
      OBVIOUS
    <2>1. Good(s) /\ s \in Spots
      BY <1>2, <1>7, <1>8
    <2>2. Good(Kid(s, j)) /\ Len(Kid(s, j)[1]) \in 0..N
      <3> HIDE DEF Good
      <3> QED BY <1>6, <2>1
    <2>3. Kid(s, j) \in h[Len(Kid(s, j)[1])]
      BY <2>2
    <2>4. Len(Kid(s, j)[1]) \in 0..N
      BY <2>2
    <2> QED BY <1>2, <1>4, <1>8, <2>3, <2>4
  <1>10. e \in V
    BY <1>2, <1>4, <1>8
  <1>11. ASSUME NEW W, e \in W, \A s \in V : s \in W => \A j \in Held(s, ps) : Kid(s, j) \in W
         PROVE  V \subseteq W
    <2> DEFINE In == {n \in Nat : n \in 0..N => h[n] \subseteq W}
    <2>1. 0 \in In
      BY <1>2, <1>11
    <2>2. ASSUME NEW n \in Nat, n \in In PROVE n + 1 \in In
      <3> SUFFICES ASSUME n + 1 \in 0..N, NEW s \in h[n + 1] PROVE s \in W
        OBVIOUS
      <3>1. n \in 0..N - 1 /\ n \in 0..N
        BY NTyped
      <3>2. s \in h[n] \/ \E r \in h[n] : \E j \in Held(r, ps) : s = Kid(r, j)
        BY <1>2, <3>1 DEF Deeper
      <3>3. h[n] \subseteq W /\ h[n] \subseteq V
        BY <1>2, <1>4, <1>8, <2>2, <3>1
      <3> QED BY <1>11, <3>2, <3>3
    <2>3. Nat \subseteq In
      <3> HIDE DEF In
      <3> QED BY <2>1, <2>2, NatSetInduction
    <2> QED BY <1>2, <1>8, <2>3
  <1>12. \A s \in V : Tame(s[2])
    BY <1>2, <1>7, <1>8
  <1> QED BY <1>8, <1>9, <1>10, <1>11, <1>12 DEF e, V

\* Place q is under place p.
Extends(q, p) == Len(q) > Len(p) /\ \A k \in 1..Len(p) : q[k] = p[k]

\* The place of a field of a struct is under the struct's, and under the same places
\* as the struct.
LEMMA PlaceOfField ==
    ASSUME NEW s \in Spots, NEW j \in Seen(s[2]), NEW p \in Seq(Nat)
    PROVE  /\ s[1] \in Seq(Nat) /\ s[2] \in Types /\ j \in Nat /\ s = <<s[1], s[2]>>
           /\ Append(s[1], j) \in Seq(Nat) /\ Append(s[1], j) # << >>
           /\ Len(s[1]) \in Nat /\ Len(p) \in Nat
           /\ Len(Append(s[1], j)) = Len(s[1]) + 1
           /\ Append(s[1], j)[Len(s[1]) + 1] = j
           /\ \A k \in 1..Len(s[1]) : Append(s[1], j)[k] = s[1][k]
           /\ Extends(Append(s[1], j), p) <=> s[1] = p \/ Extends(s[1], p)
  <1> DEFINE q == s[1]
             a == Append(q, j)
  <1>1. q \in Seq(Nat) /\ s[2] \in Types /\ s = <<q, s[2]>>
    BY DEF Spots
  <1>2. j \in Nat
    BY <1>1, FieldsTyped
  <1> HIDE DEF q
  <1>3. /\ a \in Seq(Nat) /\ a # << >> /\ Len(a) = Len(q) + 1
        /\ a[Len(q) + 1] = j
        /\ \A k \in 1..Len(q) : a[k] = q[k]
        /\ Len(q) \in Nat /\ Len(p) \in Nat
    BY <1>1, <1>2, AppendProperties, LenProperties
  <1> HIDE DEF a
  <1>4. ASSUME Extends(a, p) PROVE q = p \/ Extends(q, p)
    <2>1. Len(p) <= Len(q) /\ \A k \in 1..Len(p) : a[k] = p[k] /\ a[k] = q[k]
      BY <1>3, <1>4 DEF Extends
    <2>2. CASE Len(p) = Len(q)
      BY <1>1, <2>1, <2>2, SeqEqual
    <2>3. CASE Len(p) < Len(q)
      BY <2>1, <2>3, <1>3 DEF Extends
    <2> QED BY <1>3, <2>1, <2>2, <2>3
  <1>5. ASSUME q = p \/ Extends(q, p) PROVE Extends(a, p)
    <2>1. Len(q) >= Len(p) /\ \A k \in 1..Len(p) : q[k] = p[k]
      BY <1>3, <1>5 DEF Extends
    <2>2. \A k \in 1..Len(p) : k \in 1..Len(q)
      BY <1>3, <2>1
    <2>3. \A k \in 1..Len(p) : a[k] = p[k]
      BY <1>3, <2>1, <2>2
    <2>4. Len(a) > Len(p)
      BY <1>3, <2>1
    <2> QED BY <2>3, <2>4 DEF Extends
  <1> QED BY <1>1, <1>2, <1>3, <1>4, <1>5 DEF q, a

\* A place is under one other, as one field.
LEMMA AppendCancels ==
    ASSUME NEW p \in Seq(Nat), NEW q \in Seq(Nat), NEW i \in Nat, NEW j \in Nat,
           Append(p, i) = Append(q, j)
    PROVE  p = q /\ i = j
  BY AppendInjective

\* There is one struct in a place.
LEMMA NodesAreUnique ==
    ASSUME NEW t, Tame(t), NEW ps, NEW r \in Nodes(t, ps), NEW s \in Nodes(t, ps), r[1] = s[1]
    PROVE  r = s
  <1> DEFINE V == Nodes(t, ps)
             e == << << >>, t >>
             From == {v \in V : v = e \/ \E u \in V : \E j \in Held(u, ps) : v = Kid(u, j)}
             One == {v \in V : \A u \in V : u[1] = v[1] => u = v}
  <1>1. /\ V \subseteq Spots /\ e \in V /\ e[1] = << >>
        /\ \A v \in V : \A j \in Held(v, ps) : Kid(v, j) \in V
    BY NodesAre
  <1>2. \A W : e \in W /\ (\A v \in V : v \in W => \A j \in Held(v, ps) : Kid(v, j) \in W) => V \subseteq W
    BY NodesAre, Zenon
  <1> HIDE DEF e, V
  <1>3. V \subseteq From
    BY <1>1, <1>2
  <1>4. ASSUME NEW v \in V, NEW j \in Held(v, ps)
        PROVE  /\ Kid(v, j)[1] = Append(v[1], j) /\ Append(v[1], j) # << >>
               /\ v[1] \in Seq(Nat) /\ v[2] \in Types /\ v = <<v[1], v[2]>> /\ j \in Nat
    <2>1. v \in Spots /\ j \in Seen(v[2]) /\ Kid(v, j)[1] = Append(v[1], j)
      BY <1>1, KidTyped
    <2> QED BY <2>1, EmptySeq, PlaceOfField
  <1>5. e \in One
    BY <1>1, <1>3, <1>4
  <1>6. ASSUME NEW v \in V, v \in One, NEW j \in Held(v, ps) PROVE Kid(v, j) \in One
    <2> SUFFICES ASSUME NEW u \in V, u[1] = Kid(v, j)[1] PROVE u = Kid(v, j)
      BY <1>1
    <2>1. u # e
      BY <1>1, <1>4
    <2>2. PICK w \in V : \E i \in Held(w, ps) : u = Kid(w, i)
      BY <1>3, <2>1
    <2>3. PICK i \in Held(w, ps) : u = Kid(w, i)
      BY <2>2
    <2>4. Append(w[1], i) = Append(v[1], j) /\ w[1] \in Seq(Nat) /\ v[1] \in Seq(Nat) /\ i \in Nat /\ j \in Nat
      <3>1. Kid(w, i)[1] = Append(w[1], i) /\ w[1] \in Seq(Nat) /\ i \in Nat
        BY <1>4
      <3>2. Kid(v, j)[1] = Append(v[1], j) /\ v[1] \in Seq(Nat) /\ j \in Nat
        BY <1>4
      <3> QED BY <2>3, <3>1, <3>2
    <2>5. w[1] = v[1] /\ i = j
      <3> DEFINE a == w[1]
                 b == v[1]
      <3>1. Append(a, i) = Append(b, j) /\ a \in Seq(Nat) /\ b \in Seq(Nat) /\ i \in Nat /\ j \in Nat
        BY <2>4
      <3> HIDE DEF a, b
      <3>2. a = b /\ i = j
        BY <3>1, AppendCancels
      <3> QED BY <3>2 DEF a, b
    <2>6. w = v
      BY <1>6, <2>5
    <2> QED BY <2>3, <2>5, <2>6
  <1>7. V \subseteq One
    <2> HIDE DEF One
    <2> QED BY <1>2, <1>5, <1>6
  <1> QED BY <1>7 DEF V

\* What is under a struct is under a field of it that holds a struct; under a type
\* without defaults there are none.
LEMMA NodesUnder ==
    ASSUME NEW t, Tame(t), NEW ps, NEW s \in Nodes(t, ps), NEW r \in Nodes(t, ps), Extends(r[1], s[1])
    PROVE  /\ r[1][Len(s[1]) + 1] \in Held(s, ps)
           /\ s[2] \notin Carriers => r[2] \notin Carriers
  <1> DEFINE V == Nodes(t, ps)
             e == << << >>, t >>
             k == Len(s[1]) + 1
             Fine(v) == /\ v[1][k] \in Held(s, ps)
                        /\ s[2] \notin Carriers => v[2] \notin Carriers
             Below == {v \in V : Extends(v[1], s[1]) => Fine(v)}
  <1>1. /\ V \subseteq Spots /\ e \in V /\ e[1] = << >> /\ s \in V /\ s \in Spots
        /\ \A v \in V : \A j \in Held(v, ps) : Kid(v, j) \in V
    BY NodesAre
  <1>2. \A W : e \in W /\ (\A v \in V : v \in W => \A j \in Held(v, ps) : Kid(v, j) \in W) => V \subseteq W
    BY NodesAre, Zenon
  <1>3. \A v \in V : v[1] = s[1] => v = s
    BY <1>1, NodesAreUnique
  <1>4. s[1] \in Seq(Nat) /\ Len(s[1]) \in Nat
    BY <1>1, LenProperties DEF Spots
  <1> HIDE DEF e, V
  <1>5. e \in Below
    BY <1>1, <1>4, EmptySeq DEF Extends
  <1>6. ASSUME NEW v \in V, v \in Below, NEW j \in Held(v, ps) PROVE Kid(v, j) \in Below
    <2> DEFINE c == Kid(v, j)
    <2> SUFFICES ASSUME Extends(c[1], s[1]) PROVE Fine(c)
      BY <1>1
    <2>1. /\ v \in Spots /\ j \in Seen(v[2]) /\ c[1] = Append(v[1], j) /\ c[2] = Fields[v[2]][j].of
          /\ Fields[v[2]][j].kind # "scalar" /\ Len(c[1]) = Len(v[1]) + 1
          /\ c[1][Len(v[1]) + 1] = j /\ \A i \in 1..Len(v[1]) : c[1][i] = v[1][i]
          /\ v[2] \in Types /\ Len(v[1]) \in Nat
      BY <1>1, KidTyped DEF Spots
    <2>2. v[2] \notin Carriers => c[2] \notin Carriers
      BY <2>1, CarriersAre
    <2> HIDE DEF c
    <2>3. v[1] = s[1] \/ Extends(v[1], s[1])
      <3> DEFINE p == s[1]
      <3>1. Extends(Append(v[1], j), p) /\ p \in Seq(Nat) /\ v \in Spots /\ j \in Seen(v[2])
        BY <1>4, <2>1
      <3> HIDE DEF p
      <3>2. v[1] = p \/ Extends(v[1], p)
        BY <3>1, PlaceOfField
      <3> QED BY <3>2 DEF p
    <2>4. CASE v[1] = s[1]
      <3>1. v = s
        BY <1>3, <2>4
      <3> QED BY <2>1, <2>2, <3>1
    <2>5. CASE Extends(v[1], s[1])
      <3>1. Fine(v) /\ k \in 1..Len(v[1])
        BY <1>4, <1>6, <2>1, <2>5 DEF Extends
      <3> QED BY <2>1, <2>2, <3>1
    <2> QED BY <2>3, <2>4, <2>5
  <1>7. V \subseteq Below
    <2> HIDE DEF Below
    <2> QED BY <1>2, <1>5, <1>6
  <1> QED BY <1>7 DEF V

\* A pointer that is given a struct brings only structs there and under it.
LEMMA NodesGrow ==
    ASSUME NEW t, Tame(t), NEW ps, NEW p \in Seq(Nat), NEW more, more = ps \cup {p}
    PROVE  /\ Nodes(t, ps) \subseteq Nodes(t, more)
           /\ \A s \in Nodes(t, more) : s \in Nodes(t, ps) \/ s[1] = p \/ Extends(s[1], p)
  <1> DEFINE V == Nodes(t, ps)
             M == Nodes(t, more)
             e == << << >>, t >>
             W == {s \in M : s \in V \/ s[1] = p \/ Extends(s[1], p)}
  <1>1. /\ e \in V /\ e \in M /\ V \subseteq Spots /\ M \subseteq Spots
        /\ \A s \in V : \A j \in Held(s, ps) : Kid(s, j) \in V
        /\ \A s \in M : \A j \in Held(s, more) : Kid(s, j) \in M
    BY NodesAre
  <1>2. \A X : e \in X /\ (\A s \in V : s \in X => \A j \in Held(s, ps) : Kid(s, j) \in X) => V \subseteq X
    BY NodesAre, Zenon
  <1>3. \A X : e \in X /\ (\A s \in M : s \in X => \A j \in Held(s, more) : Kid(s, j) \in X) => M \subseteq X
    BY NodesAre, Zenon
  <1> HIDE DEF e, V, M
  <1>4. \A s : Held(s, ps) \subseteq Held(s, more)
    BY DEF Held
  <1>5. V \subseteq M
    BY <1>1, <1>2, <1>4
  <1>6. ASSUME NEW s \in M, s \in W, NEW j \in Held(s, more) PROVE Kid(s, j) \in W
    <2>1. s \in Spots /\ Kid(s, j) \in M
      BY <1>1
    <2>2. j \in Seen(s[2]) /\ Kid(s, j)[1] = Append(s[1], j)
      BY <2>1, KidTyped
    <2>3. CASE s[1] = p \/ Extends(s[1], p)
      <3>1. Extends(Append(s[1], j), p)
        BY <2>1, <2>2, <2>3, PlaceOfField
      <3> QED BY <2>1, <2>2, <3>1
    <2>4. CASE s \in V
      <3>1. j \in Held(s, ps) \/ Kid(s, j)[1] = p
        BY <2>2 DEF Held
      <3> QED BY <1>1, <2>1, <2>4, <3>1
    <2> QED BY <1>6, <2>3, <2>4
  <1>7. M \subseteq W
    <2>1. e \in W
      BY <1>1
    <2> HIDE DEF W
    <2> QED BY <1>3, <1>6, <2>1
  <1> QED BY <1>5, <1>7 DEF V, M

\* Field j of the struct s, and the fields in a value.
FieldAt(s, j) == <<Append(s[1], j), Fields[s[2]][j]>>
Slots(t, ps) == UNION {{FieldAt(s, j) : j \in Seen(s[2])} : s \in Nodes(t, ps)}

\* The fields of the property are these.
LEMMA FieldsInAre ==
    \A g : FieldsIn(g) = Slots(root[g], pointers[g])
  BY DEF FieldsIn, Slots, FieldAt

\* The fields in a value of a tame type.
LEMMA SlotTyped ==
    ASSUME NEW t, Tame(t), NEW ps, NEW f \in Slots(t, ps)
    PROVE  /\ f[1] \in Seq(Nat) /\ f[2] \in FieldSet
           /\ \E s \in Nodes(t, ps) : \E j \in Seen(s[2]) : f = FieldAt(s, j)
  <1>1. PICK s \in Nodes(t, ps) : \E j \in Seen(s[2]) : f = FieldAt(s, j)
    BY DEF Slots
  <1>2. PICK j \in Seen(s[2]) : f = FieldAt(s, j)
    BY <1>1
  <1>3. s \in Spots
    BY NodesAre
  <1>4. Append(s[1], j) \in Seq(Nat) /\ s[2] \in Types
    BY <1>3, EmptySeq, PlaceOfField
  <1>5. Fields[s[2]][j] \in FieldSet
    BY <1>4, FieldsTyped
  <1>6. f[1] = Append(s[1], j) /\ f[2] = Fields[s[2]][j]
    BY <1>2 DEF FieldAt
  <1> QED BY <1>1, <1>4, <1>5, <1>6

\* A field in a place under a struct is one of the struct's, or under one that holds
\* a struct; under a type without defaults it has none.
LEMMA SlotUnder ==
    ASSUME NEW t, Tame(t), NEW ps, NEW s \in Nodes(t, ps), NEW f \in Slots(t, ps), Extends(f[1], s[1]),
           NEW k, k = f[1][Len(s[1]) + 1]
    PROVE  /\ k \in Seen(s[2])
           /\ f = FieldAt(s, k) \/ (k \in Held(s, ps) /\ Extends(f[1], Append(s[1], k)))
           /\ s[2] \notin Carriers => f[2].tag = "none" /\ (f[2].kind = "scalar" \/ f[2].of \notin Carriers)
  <1>1. PICK r \in Nodes(t, ps) : \E j \in Seen(r[2]) : f = FieldAt(r, j)
    BY SlotTyped
  <1>2. PICK j \in Seen(r[2]) : f = FieldAt(r, j)
    BY <1>1
  <1>3. r \in Spots /\ s \in Spots
    BY NodesAre
  <1>4. s[1] \in Seq(Nat) /\ Len(s[1]) \in Nat /\ s[2] \in Types /\ r[2] \in Types /\ r[1] \in Seq(Nat)
    BY <1>3, LenProperties DEF Spots
  <1>5. f[1] = Append(r[1], j) /\ f[2] = Fields[r[2]][j]
    BY <1>2 DEF FieldAt
  <1>6. /\ r[1] = s[1] \/ Extends(r[1], s[1])
        /\ f[1] \in Seq(Nat) /\ Len(r[1]) \in Nat /\ Len(f[1]) = Len(r[1]) + 1
        /\ f[1][Len(r[1]) + 1] = j
        /\ \A i \in 1..Len(r[1]) : f[1][i] = r[1][i]
    <2>1. Extends(Append(r[1], j), s[1])
      BY <1>5
    <2>2. /\ r[1] = s[1] \/ Extends(r[1], s[1])
          /\ Append(r[1], j) \in Seq(Nat) /\ Len(r[1]) \in Nat
          /\ Len(Append(r[1], j)) = Len(r[1]) + 1
          /\ Append(r[1], j)[Len(r[1]) + 1] = j
          /\ \A i \in 1..Len(r[1]) : Append(r[1], j)[i] = r[1][i]
      BY <1>3, <1>4, <2>1, PlaceOfField
    <2> QED BY <1>5, <2>2
  <1>7. r[2] \notin Carriers => f[2].tag = "none" /\ (f[2].kind = "scalar" \/ f[2].of \notin Carriers)
    BY <1>4, <1>5, CarriersAre
  <1>8. CASE r[1] = s[1]
    <2>1. r = s
      BY <1>8, NodesAreUnique
    <2>2. k = j
      BY <1>6, <2>1
    <2> QED BY <1>2, <1>7, <2>1, <2>2
  <1>9. CASE Extends(r[1], s[1])
    <2>1. r[1][Len(s[1]) + 1] \in Held(s, ps) /\ (s[2] \notin Carriers => r[2] \notin Carriers)
      BY <1>9, NodesUnder
    <2>2. Len(r[1]) >= Len(s[1]) + 1 /\ Len(s[1]) + 1 \in 1..Len(r[1])
      <3> DEFINE a == Len(r[1])
                 b == Len(s[1])
      <3>1. a > b /\ a \in Nat /\ b \in Nat
        BY <1>4, <1>6, <1>9 DEF Extends
      <3> HIDE DEF a, b
      <3>2. a >= b + 1 /\ b + 1 \in 1..a
        BY <3>1
      <3> QED BY <3>2 DEF a, b
    <2>3. k = r[1][Len(s[1]) + 1]
      BY <1>6, <2>2
    <2>4. k \in Held(s, ps) /\ k \in Seen(s[2])
      BY <2>1, <2>3 DEF Held
    <2>5. Extends(f[1], Append(s[1], k))
      <3> DEFINE a == Append(s[1], k)
      <3>1. /\ Len(a) = Len(s[1]) + 1 /\ a[Len(s[1]) + 1] = k
            /\ \A i \in 1..Len(s[1]) : a[i] = s[1][i]
        BY <1>3, <1>4, <2>4, PlaceOfField
      <3> HIDE DEF a
      <3>2. Len(f[1]) > Len(a)
        BY <1>4, <1>6, <2>2, <3>1
      <3>3. ASSUME NEW i \in 1..Len(a) PROVE f[1][i] = a[i]
        <4>1. i \in 1..Len(s[1]) \/ i = Len(s[1]) + 1
          BY <1>4, <3>1
        <4>2. CASE i \in 1..Len(s[1])
          <5>1. f[1][i] = s[1][i]
            BY <4>2 DEF Extends
          <5> QED BY <3>1, <4>2, <5>1
        <4>3. CASE i = Len(s[1]) + 1
          BY <3>1, <4>3
        <4> QED BY <4>1, <4>2, <4>3
      <3> QED BY <3>2, <3>3 DEF Extends, a
    <2> QED BY <1>7, <2>1, <2>4, <2>5
  <1> QED BY <1>6, <1>8, <1>9

\* There is one field in a place.
LEMMA SlotsAreUnique ==
    ASSUME NEW t, Tame(t), NEW ps, NEW s \in Nodes(t, ps), NEW j \in Seen(s[2]),
           NEW f \in Slots(t, ps), f[1] = Append(s[1], j)
    PROVE  f = FieldAt(s, j)
  <1>1. s \in Spots
    BY NodesAre
  <1>2. s[1] \in Seq(Nat)
    BY <1>1 DEF Spots
  <1>3. Extends(Append(s[1], j), s[1]) /\ Append(s[1], j)[Len(s[1]) + 1] = j
        /\ Len(Append(s[1], j)) = Len(s[1]) + 1
    BY <1>1, <1>2, PlaceOfField
  <1>4. f = FieldAt(s, j) \/ Extends(f[1], Append(s[1], j))
    BY <1>3, SlotUnder
  <1>5. ~Extends(f[1], Append(s[1], j))
    BY <1>1, <1>2, <1>3, PlaceOfField DEF Extends
  <1> QED BY <1>4, <1>5

\* What a pointer brings is under it.
LEMMA SlotsGrow ==
    ASSUME NEW t, Tame(t), NEW ps, NEW p \in Seq(Nat), NEW more, more = ps \cup {p}
    PROVE  /\ Slots(t, ps) \subseteq Slots(t, more)
           /\ \A f \in Slots(t, more) : f \in Slots(t, ps) \/ Extends(f[1], p)
  <1>1. /\ Nodes(t, ps) \subseteq Nodes(t, more)
        /\ \A s \in Nodes(t, more) : s \in Nodes(t, ps) \/ s[1] = p \/ Extends(s[1], p)
    BY NodesGrow
  <1>2. ASSUME NEW f \in Slots(t, more), f \notin Slots(t, ps) PROVE Extends(f[1], p)
    <2>1. PICK s \in Nodes(t, more) : \E j \in Seen(s[2]) : f = FieldAt(s, j)
      BY SlotTyped
    <2>2. PICK j \in Seen(s[2]) : f = FieldAt(s, j)
      BY <2>1
    <2>3. s[1] = p \/ Extends(s[1], p)
      <3>1. s \in Nodes(t, ps) => f \in Slots(t, ps)
        BY <2>2 DEF Slots
      <3> QED BY <1>1, <1>2, <3>1
    <2>4. s \in Spots
      BY NodesAre
    <2>5. Extends(Append(s[1], j), p)
      BY <2>3, <2>4, PlaceOfField
    <2>6. f[1] = Append(s[1], j)
      BY <2>2 DEF FieldAt
    <2> QED BY <2>5, <2>6
  <1>3. ASSUME NEW f \in Slots(t, ps) PROVE f \in Slots(t, more)
    <2>1. PICK s \in Nodes(t, ps) : \E j \in Seen(s[2]) : f = FieldAt(s, j)
      BY SlotTyped
    <2>2. PICK j \in Seen(s[2]) : f = FieldAt(s, j)
      BY <2>1
    <2>3. s \in Nodes(t, more)
      BY <1>1
    <2> QED BY <2>2, <2>3 DEF Slots
  <1> QED BY <1>2, <1>3

-----------------------------------------------------------------------------
(* What is filled, and what is ahead of the frames                         *)

\* The struct a frame walks over; whether a place in it is at its field or later.
Spot(f) == <<f.path, f.typ>>
Pending(q, f) == f.call = "set" /\ Extends(q, f.path) /\ q[Len(f.path) + 1] >= f.i
Ahead(q, F) == \E f \in F : Pending(q, f)

\* What DefaultsAreComplete says of a field, of the value that decoding left,
\* and of what the walk made.
Filled(f, s0, ps, sc) ==
    /\ f[2].kind = "scalar" /\ f[2].tag # "none" /\ f[1] \notin DOMAIN s0.scalars
         => (Fits(f[2]) => Number(f[2], ScalarAt(sc, f[1])) = f[2].num)
    /\ f[2].kind = "pointer" /\ f[2].of \in Carriers => f[1] \in ps
Kept(s0, ps, sc) ==
    /\ s0.pointers \subseteq ps
    /\ \A p \in DOMAIN s0.scalars : p \in DOMAIN sc /\ sc[p] = s0.scalars[p]
Made(t, s0, ps, sc) ==
    /\ \A p \in ps \ s0.pointers : \E f \in Slots(t, ps) : f[1] = p /\ f[2].of \in Carriers
    /\ \A p \in DOMAIN sc \ DOMAIN s0.scalars : \E f \in Slots(t, ps) :
          /\ f[1] = p /\ f[2].tag = "good"
          /\ Fits(f[2]) => Number(f[2], sc[p]) = f[2].num

\* Every field is filled or ahead of one of the frames F.
Walked(F, t, s0, ps, sc) ==
    /\ Made(t, s0, ps, sc)
    /\ \A f \in F : f.call = "set" => Spot(f) \in Nodes(t, ps)
    /\ \A f \in Slots(t, ps) : Filled(f, s0, ps, sc) \/ Ahead(f[1], F)

\* The number of a tag that the field can hold is what the field holds.
LEMMA NumberFits ==
    ASSUME NEW f \in FieldSet, Fits(f)
    PROVE  Number(f, SetDefaultValue(f)) = f.num
  <1> DEFINE B == 2^f.bits
             H == 2^(f.bits - 1)
             m == f.num
  <1>1. f.bits \in Nat /\ m \in Int /\ f.signed \in BOOLEAN
    BY DEF FieldSet
  <1>2. B \in Int
    BY <1>1
  <1> HIDE DEF B, H, m
  <1>3. PICK n \in 0..B - 1 : m = IF f.signed /\ n >= H THEN n - B ELSE n
    BY DEF Fits, Number, B, H, m
  <1>4. B \in Nat \ {0}
    BY <1>2, <1>3
  <1>5. n % B = n /\ (n - B) % B = n
    BY <1>4
  <1>6. m % B = n
    BY <1>3, <1>5
  <1>7. SetDefaultValue(f) = n
    BY <1>6 DEF SetDefaultValue, B, m
  <1> QED BY <1>3, <1>7 DEF Number, B, H, m

\* A frame that goes on leaves its field behind, and what is under it.
LEMMA PendingGoesOn ==
    ASSUME NEW t, Tame(t), NEW ps, NEW top \in Frames, top.call = "set", Spot(top) \in Nodes(t, ps),
           NEW f \in Slots(t, ps), Pending(f[1], top), NEW next, next = [top EXCEPT !.i = @ + 1]
    PROVE  \/ Pending(f[1], next)
           \/ top.i \in Seen(top.typ) /\ f = FieldAt(Spot(top), top.i)
           \/ top.i \in Held(Spot(top), ps) /\ Extends(f[1], Append(top.path, top.i))
  <1> DEFINE s == Spot(top)
             k == f[1][Len(s[1]) + 1]
  <1>1. s[1] = top.path /\ s[2] = top.typ /\ top.typ \in Types /\ top.i \in Nat
    BY DEF Spot, Frames
  <1>2. s \in Nodes(t, ps)
    OBVIOUS
  <1>3. next.call = "set" /\ next.path = top.path /\ next.i = top.i + 1
    BY DEF Frames
  <1>4. Extends(f[1], s[1]) /\ k >= top.i
    BY <1>1 DEF Pending
  <1> HIDE DEF s
  <1>5. /\ k \in Seen(s[2])
        /\ f = FieldAt(s, k) \/ (k \in Held(s, ps) /\ Extends(f[1], Append(s[1], k)))
    BY <1>2, <1>4, SlotUnder
  <1>6. k \in Nat
    BY <1>1, <1>5, FieldsTyped
  <1> HIDE DEF k
  <1>7. CASE k = top.i
    BY <1>1, <1>5, <1>7 DEF s
  <1>8. CASE k # top.i
    <2>1. k >= top.i + 1
      BY <1>1, <1>4, <1>6, <1>8
    <2> QED BY <1>1, <1>3, <1>4, <2>1 DEF Pending, k
  <1> QED BY <1>7, <1>8

\* Nothing is pending for a frame that is at its end, and what is pending for one
\* whose type has no defaults needs nothing.
LEMMA PendingEnds ==
    ASSUME NEW t, Tame(t), NEW s0, NEW ps, NEW sc, NEW top \in Frames, Spot(top) \in Nodes(t, ps),
           top.i > Len(Fields[top.typ]) \/ top.typ \notin Carriers,
           NEW f \in Slots(t, ps), Pending(f[1], top)
    PROVE  Filled(f, s0, ps, sc)
  <1> DEFINE s == Spot(top)
             k == f[1][Len(s[1]) + 1]
  <1>1. s[1] = top.path /\ s[2] = top.typ /\ top.typ \in Types /\ top.i \in Nat
    BY DEF Spot, Frames
  <1>2. s \in Nodes(t, ps)
    OBVIOUS
  <1>3. Extends(f[1], s[1]) /\ k >= top.i
    BY <1>1 DEF Pending
  <1> HIDE DEF s
  <1>4. /\ k \in Seen(s[2])
        /\ s[2] \notin Carriers => f[2].tag = "none" /\ (f[2].kind = "scalar" \/ f[2].of \notin Carriers)
    BY <1>2, <1>3, SlotUnder
  <1> HIDE DEF k
  <1>5. top.typ \notin Carriers
    BY <1>1, <1>3, <1>4, FieldsTyped
  <1> QED BY <1>1, <1>4, <1>5 DEF Filled

\* What is under the place of a new frame is pending for it.
LEMMA PendingStarts ==
    ASSUME NEW p \in Seq(Nat), NEW q \in Seq(Nat), NEW kid,
           kid.call = "set", kid.i = 0, kid.path = q, Extends(p, q)
    PROVE  Pending(p, kid)
  <1>1. Len(p) \in Nat /\ Len(q) \in Nat /\ Len(p) > Len(q)
    BY LenProperties DEF Extends
  <1>2. Len(q) + 1 \in 1..Len(p)
    BY <1>1
  <1>3. p[Len(q) + 1] \in Nat
    BY <1>2, ElementOfSeq
  <1> QED BY <1>3 DEF Pending

\* Other frames have the same ahead of them.
LEMMA WalkedWith ==
    ASSUME NEW F, NEW G, NEW t, NEW s0, NEW ps, NEW sc, Walked(F, t, s0, ps, sc),
           \A f \in G : f.call = "set" => Spot(f) \in Nodes(t, ps),
           \A f \in Slots(t, ps) : Ahead(f[1], F) => Filled(f, s0, ps, sc) \/ Ahead(f[1], G)
    PROVE  Walked(G, t, s0, ps, sc)
  BY DEF Walked

\* A scan is not part of the walk.
LEMMA WalkedScans ==
    ASSUME NEW F, NEW f, f.call = "scan", NEW t, NEW s0, NEW ps, NEW sc
    PROVE  Walked(F \cup {f}, t, s0, ps, sc) <=> Walked(F, t, s0, ps, sc)
  <1>1. \A q : Ahead(q, F \cup {f}) <=> Ahead(q, F)
    BY DEF Ahead, Pending
  <1> QED BY <1>1 DEF Walked

\* A frame goes on after a field that is filled and holds no struct.
LEMMA WalkedOn ==
    ASSUME NEW F, NEW top \in Frames, top.call = "set", NEW t, Tame(t), NEW s0, NEW ps, NEW sc,
           Walked(F \cup {top}, t, s0, ps, sc), top.i \notin Held(Spot(top), ps),
           top.i \in Seen(top.typ) => Filled(FieldAt(Spot(top), top.i), s0, ps, sc),
           NEW next, next = [top EXCEPT !.i = @ + 1]
    PROVE  Walked(F \cup {next}, t, s0, ps, sc)
  <1>1. Spot(next) = Spot(top) /\ Spot(top) \in Nodes(t, ps)
    BY DEF Walked, Spot, Frames
  <1>2. ASSUME NEW f \in Slots(t, ps), Pending(f[1], top)
        PROVE  Filled(f, s0, ps, sc) \/ Pending(f[1], next)
    BY <1>1, <1>2, PendingGoesOn
  <1>3. \A f \in Slots(t, ps) : Ahead(f[1], F \cup {top}) => Filled(f, s0, ps, sc) \/ Ahead(f[1], F \cup {next})
    BY <1>2 DEF Ahead
  <1>4. \A f \in F \cup {next} : f.call = "set" => Spot(f) \in Nodes(t, ps)
    BY <1>1 DEF Walked
  <1> QED BY <1>3, <1>4, WalkedWith

\* A frame goes on and the struct of its field is entered.
LEMMA WalkedIn ==
    ASSUME NEW F, NEW top \in Frames, top.call = "set", NEW t, Tame(t), NEW s0, NEW ps, NEW sc,
           Walked(F \cup {top}, t, s0, ps, sc), top.i \in Held(Spot(top), ps),
           Filled(FieldAt(Spot(top), top.i), s0, ps, sc),
           NEW next, next = [top EXCEPT !.i = @ + 1],
           NEW kid, kid.call = "set", kid.i = 0, Spot(kid) = Kid(Spot(top), top.i)
    PROVE  Walked((F \cup {next}) \cup {kid}, t, s0, ps, sc)
  <1> DEFINE G == (F \cup {next}) \cup {kid}
  <1>1. Spot(next) = Spot(top) /\ Spot(top) \in Nodes(t, ps)
    BY DEF Walked, Spot, Frames
  <1>2. Spot(kid) \in Nodes(t, ps) /\ Spot(top) \in Spots
    <2> DEFINE s == Spot(top)
               j == top.i
    <2>1. s \in Nodes(t, ps) /\ j \in Held(s, ps) /\ Spot(kid) = Kid(s, j)
      BY <1>1
    <2> HIDE DEF s, j
    <2>2. s \in Spots /\ Kid(s, j) \in Nodes(t, ps)
      BY <2>1, NodesAre
    <2> QED BY <2>1, <2>2 DEF s
  <1>3. kid.path = Append(top.path, top.i) /\ kid.path \in Seq(Nat)
    <2>1. Kid(Spot(top), top.i)[1] = Append(top.path, top.i) /\ Spot(kid)[1] = kid.path
      BY DEF Kid, Spot
    <2>2. Spot(kid) \in Spots
      BY <1>2, NodesAre
    <2> QED BY <2>1, <2>2 DEF Spots
  <1>4. ASSUME NEW f \in Slots(t, ps), Pending(f[1], top)
        PROVE  Filled(f, s0, ps, sc) \/ Pending(f[1], next) \/ Pending(f[1], kid)
    <2>1. CASE Extends(f[1], kid.path)
      <3>1. f[1] \in Seq(Nat)
        BY SlotTyped
      <3> QED BY <1>3, <2>1, <3>1, PendingStarts
    <2> QED BY <1>1, <1>3, <1>4, <2>1, PendingGoesOn
  <1>5. \A f \in Slots(t, ps) : Ahead(f[1], F \cup {top}) => Filled(f, s0, ps, sc) \/ Ahead(f[1], G)
    BY <1>4 DEF Ahead
  <1>6. \A f \in G : f.call = "set" => Spot(f) \in Nodes(t, ps)
    BY <1>1, <1>2 DEF Walked
  <1> QED BY <1>5, <1>6, WalkedWith

\* A frame at its end, or for a type without defaults, is left.
LEMMA WalkedOut ==
    ASSUME NEW F, NEW top \in Frames, top.call = "set", NEW t, Tame(t), NEW s0, NEW ps, NEW sc,
           Walked(F \cup {top}, t, s0, ps, sc),
           top.i > Len(Fields[top.typ]) \/ top.typ \notin Carriers
    PROVE  Walked(F, t, s0, ps, sc)
  <1>1. Spot(top) \in Nodes(t, ps)
    BY DEF Walked
  <1>2. \A f \in Slots(t, ps) : Pending(f[1], top) => Filled(f, s0, ps, sc)
    BY <1>1, PendingEnds
  <1>3. \A f \in Slots(t, ps) : Ahead(f[1], F \cup {top}) => Filled(f, s0, ps, sc) \/ Ahead(f[1], F)
    BY <1>2 DEF Ahead
  <1>4. \A f \in F : f.call = "set" => Spot(f) \in Nodes(t, ps)
    BY DEF Walked
  <1> QED BY <1>3, <1>4, WalkedWith

\* The field a frame is at is one of those in the value.
LEMMA SlotOfTop ==
    ASSUME NEW t, Tame(t), NEW ps, NEW top \in Frames, Spot(top) \in Nodes(t, ps), top.i \in Seen(top.typ),
           NEW f, f = FieldAt(Spot(top), top.i)
    PROVE  /\ f \in Slots(t, ps) /\ f[1] \in Seq(Nat) /\ f[2] \in FieldSet
           /\ f[1] = Append(top.path, top.i) /\ f[2] = Fields[top.typ][top.i]
           /\ \A h \in Slots(t, ps) : h[1] = f[1] => h = f
  <1> DEFINE s == Spot(top)
             j == top.i
  <1>1. s \in Nodes(t, ps) /\ s[1] = top.path /\ s[2] = top.typ /\ j \in Seen(s[2]) /\ f = FieldAt(s, j)
    BY DEF Spot
  <1> HIDE DEF s, j
  <1>2. f \in Slots(t, ps)
    BY <1>1 DEF Slots
  <1>3. f[1] = Append(s[1], j) /\ f[2] = Fields[s[2]][j]
    BY <1>1 DEF FieldAt
  <1>4. \A h \in Slots(t, ps) : h[1] = Append(s[1], j) => h = FieldAt(s, j)
    BY <1>1, SlotsAreUnique
  <1>5. f[1] \in Seq(Nat) /\ f[2] \in FieldSet
    BY <1>2, SlotTyped
  <1> QED BY <1>1, <1>2, <1>3, <1>4, <1>5 DEF j

\* A nil pointer to a type with defaults is given a struct, whose fields are ahead of
\* the frame that enters it.
LEMMA WalkedMore ==
    ASSUME NEW F, NEW top \in Frames, top \in F, top.call = "set", NEW t, Tame(t), NEW s0, NEW ps, NEW sc,
           Walked(F, t, s0, ps, sc), top.i \in Seen(top.typ),
           Fields[top.typ][top.i].kind = "pointer", Fields[top.typ][top.i].of \in Carriers,
           NEW more, more = ps \cup {Append(top.path, top.i)},
           NEW kid, kid.call = "set", kid.i = 0, Spot(kid) = Kid(Spot(top), top.i)
    PROVE  /\ Walked(F \cup {kid}, t, s0, more, sc)
           /\ top.i \in Held(Spot(top), more)
           /\ Filled(FieldAt(Spot(top), top.i), s0, more, sc)
  <1> DEFINE s == Spot(top)
             f == FieldAt(s, top.i)
             place == f[1]
  <1>1. s \in Nodes(t, ps) /\ s[1] = top.path /\ s[2] = top.typ
    BY DEF Walked, Spot
  <1>2. /\ place \in Seq(Nat) /\ place = Append(top.path, top.i) /\ f[2] = Fields[top.typ][top.i]
    BY <1>1, SlotOfTop
  <1> HIDE DEF place
  <1>3. more = ps \cup {place}
    BY <1>2
  <1> HIDE DEF f
  <1>4. /\ Nodes(t, ps) \subseteq Nodes(t, more)
        /\ Slots(t, ps) \subseteq Slots(t, more)
        /\ \A h \in Slots(t, more) : h \in Slots(t, ps) \/ Extends(h[1], place)
    <2>1. /\ Nodes(t, ps) \subseteq Nodes(t, more)
          /\ \A r \in Nodes(t, more) : r \in Nodes(t, ps) \/ r[1] = place \/ Extends(r[1], place)
      BY <1>2, <1>3, NodesGrow
    <2>2. /\ Slots(t, ps) \subseteq Slots(t, more)
          /\ \A h \in Slots(t, more) : h \in Slots(t, ps) \/ Extends(h[1], place)
      BY <1>2, <1>3, SlotsGrow
    <2> QED BY <2>1, <2>2
  <1>5. top.i \in Held(s, more)
    BY <1>1, <1>2, <1>3 DEF Held
  <1>6. Spot(kid) \in Nodes(t, more) /\ f \in Slots(t, more)
    <2> DEFINE j == top.i
    <2>1. s \in Nodes(t, more) /\ j \in Held(s, more) /\ j \in Seen(s[2]) /\ Spot(kid) = Kid(s, j)
      BY <1>1, <1>4, <1>5
    <2>2. f = FieldAt(s, j)
      BY DEF f
    <2> HIDE DEF s, j
    <2>3. Kid(s, j) \in Nodes(t, more)
      BY <2>1, NodesAre
    <2>4. FieldAt(s, j) \in Slots(t, more)
      BY <2>1 DEF Slots
    <2> QED BY <2>1, <2>2, <2>3, <2>4
  <1>7. kid.path = place
    BY <1>1, <1>2 DEF Spot, Kid
  <1>8. Made(t, s0, more, sc)
    <2>1. f[1] = place /\ f[2].of \in Carriers
      BY <1>2 DEF place
    <2>2. ASSUME NEW q \in more \ s0.pointers
          PROVE  \E h \in Slots(t, more) : h[1] = q /\ h[2].of \in Carriers
      <3>1. CASE q \in ps
        <4>1. \E h \in Slots(t, ps) : h[1] = q /\ h[2].of \in Carriers
          BY <2>2, <3>1 DEF Walked, Made
        <4> QED BY <1>4, <4>1
      <3>2. CASE q = place
        BY <1>6, <2>1, <3>2
      <3> QED BY <1>3, <3>1, <3>2
    <2>3. \A q \in DOMAIN sc \ DOMAIN s0.scalars : \E h \in Slots(t, more) :
             /\ h[1] = q /\ h[2].tag = "good"
             /\ Fits(h[2]) => Number(h[2], sc[q]) = h[2].num
      BY <1>4 DEF Walked, Made
    <2> QED BY <2>2, <2>3 DEF Made
  <1>9. \A h \in F \cup {kid} : h.call = "set" => Spot(h) \in Nodes(t, more)
    BY <1>4, <1>6 DEF Walked
  <1>10. ASSUME NEW h \in Slots(t, more)
         PROVE  Filled(h, s0, more, sc) \/ Ahead(h[1], F \cup {kid})
    <2>1. CASE h \in Slots(t, ps)
      <3>1. Filled(h, s0, ps, sc) => Filled(h, s0, more, sc)
        BY <1>3 DEF Filled
      <3>2. Ahead(h[1], F) => Ahead(h[1], F \cup {kid})
        BY DEF Ahead
      <3> QED BY <2>1, <3>1, <3>2 DEF Walked
    <2>2. CASE Extends(h[1], place)
      <3>1. h[1] \in Seq(Nat)
        BY SlotTyped
      <3>2. Pending(h[1], kid)
        BY <1>2, <1>7, <2>2, <3>1, PendingStarts
      <3> QED BY <3>2 DEF Ahead
    <2> QED BY <1>4, <2>1, <2>2
  <1>11. Filled(f, s0, more, sc)
    BY <1>2, <1>3 DEF Filled, place
  <1> QED BY <1>5, <1>8, <1>9, <1>10, <1>11 DEF Walked, f

\* The scalars scs when the one in place p, which is none of them, becomes n.
With(scs, p, n) == IF n = 0 THEN scs ELSE [q \in DOMAIN scs \cup {p} |-> IF q = p THEN n ELSE scs[q]]

\* A scalar that is zero gets its default.
LEMMA WalkedScalar ==
    ASSUME NEW F, NEW top \in Frames, top \in F, top.call = "set", NEW t, Tame(t), NEW s0, NEW ps, NEW sc,
           Walked(F, t, s0, ps, sc), top.i \in Seen(top.typ),
           NEW f, f = FieldAt(Spot(top), top.i), f[2].kind = "scalar", f[2].tag = "good", f[1] \notin DOMAIN sc,
           NEW n, n = SetDefaultValue(f[2]),
           NEW more, more = With(sc, f[1], n)
    PROVE  Walked(F, t, s0, ps, more) /\ Filled(f, s0, ps, more)
  <1> DEFINE p == f[1]
  <1>1. /\ f \in Slots(t, ps) /\ f[2] \in FieldSet
        /\ \A h \in Slots(t, ps) : h[1] = p => h = f
    <2>1. Spot(top) \in Nodes(t, ps)
      BY DEF Walked
    <2> QED BY <2>1, SlotOfTop
  <1>2. Fits(f[2]) => Number(f[2], n) = f[2].num
    BY <1>1, NumberFits
  <1>3. /\ DOMAIN sc \subseteq DOMAIN more
        /\ \A q \in DOMAIN sc : more[q] = sc[q]
        /\ \A q \in DOMAIN more : q \in DOMAIN sc \/ (q = p /\ more[q] = n)
    BY DEF With
  <1>4. ScalarAt(more, p) = n /\ \A q : q # p => ScalarAt(more, q) = ScalarAt(sc, q)
    BY DEF ScalarAt, With
  <1> HIDE DEF p
  <1>5. Filled(f, s0, ps, more)
    BY <1>2, <1>4 DEF Filled, p
  <1>6. ASSUME NEW h \in Slots(t, ps), Filled(h, s0, ps, sc) PROVE Filled(h, s0, ps, more)
    <2>1. CASE h[1] = p
      BY <1>1, <1>5, <2>1
    <2>2. CASE h[1] # p
      BY <1>4, <1>6, <2>2 DEF Filled
    <2> QED BY <2>1, <2>2
  <1>7. Made(t, s0, ps, more)
    <2>1. \A q \in ps \ s0.pointers : \E h \in Slots(t, ps) : h[1] = q /\ h[2].of \in Carriers
      BY DEF Walked, Made
    <2>2. ASSUME NEW q \in DOMAIN more \ DOMAIN s0.scalars
          PROVE  \E h \in Slots(t, ps) :
                    /\ h[1] = q /\ h[2].tag = "good"
                    /\ Fits(h[2]) => Number(h[2], more[q]) = h[2].num
      <3>1. CASE q \in DOMAIN sc
        <4>1. \E h \in Slots(t, ps) :
                /\ h[1] = q /\ h[2].tag = "good"
                /\ Fits(h[2]) => Number(h[2], sc[q]) = h[2].num
          BY <2>2, <3>1 DEF Walked, Made
        <4> QED BY <1>3, <3>1, <4>1
      <3>2. CASE q = p /\ more[q] = n
        BY <1>1, <1>2, <3>2 DEF p
      <3> QED BY <1>3, <2>2, <3>1, <3>2
    <2> QED BY <2>1, <2>2 DEF Made
  <1> QED BY <1>5, <1>6, <1>7 DEF Walked

\* A scalar that is not zero was so at first, or has its default.
LEMMA WalkedAlready ==
    ASSUME NEW F, NEW top \in Frames, top \in F, top.call = "set", NEW t, Tame(t), NEW s0, NEW ps, NEW sc,
           Walked(F, t, s0, ps, sc), top.i \in Seen(top.typ),
           NEW f, f = FieldAt(Spot(top), top.i), f[2].kind = "scalar", f[1] \in DOMAIN sc
    PROVE  Filled(f, s0, ps, sc)
  <1>1. \A h \in Slots(t, ps) : h[1] = f[1] => h = f
    <2>1. Spot(top) \in Nodes(t, ps)
      BY DEF Walked
    <2> QED BY <2>1, SlotOfTop
  <1>2. CASE f[1] \in DOMAIN s0.scalars
    BY <1>2 DEF Filled
  <1>3. CASE f[1] \notin DOMAIN s0.scalars
    <2>1. \E h \in Slots(t, ps) : h[1] = f[1] /\ (Fits(h[2]) => Number(h[2], sc[f[1]]) = h[2].num)
      BY <1>3 DEF Walked, Made
    <2>2. Fits(f[2]) => Number(f[2], sc[f[1]]) = f[2].num
      BY <1>1, <2>1
    <2> QED BY <2>2 DEF Filled, ScalarAt
  <1> QED BY <1>2, <1>3

-----------------------------------------------------------------------------
(* Walks over types that are not tame                                      *)

\* A frame has a field at hand whose type is recursive or holds one that is.
Untamed(f) == f.call = "set" /\ \E j \in Seen(f.typ) : /\ j >= f.i /\ Fields[f.typ][j].kind # "scalar"
                                                       /\ ~Tame(Fields[f.typ][j].of)
Stuck(F) == \E f \in F : Untamed(f)

\* A frame goes on after another field.
LEMMA UntamedGoesOn ==
    ASSUME NEW top \in Frames, Untamed(top), NEW next, next = [top EXCEPT !.i = @ + 1]
    PROVE  \/ Untamed(next)
           \/ /\ top.i \in Seen(top.typ) /\ Fields[top.typ][top.i].kind # "scalar"
              /\ ~Tame(Fields[top.typ][top.i].of)
  <1>1. next.call = top.call /\ next.typ = top.typ /\ next.i = top.i + 1 /\ top.i \in Nat /\ top.typ \in Types
    BY DEF Frames
  <1>2. PICK j \in Seen(top.typ) : /\ j >= top.i /\ Fields[top.typ][j].kind # "scalar"
                                   /\ ~Tame(Fields[top.typ][j].of)
    BY DEF Untamed
  <1>3. j \in Nat
    BY <1>1, <1>2, FieldsTyped
  <1>4. j = top.i \/ j >= top.i + 1
    BY <1>1, <1>2, <1>3
  <1>5. CASE j >= top.i + 1
    BY <1>1, <1>2, <1>5 DEF Untamed
  <1> QED BY <1>2, <1>4, <1>5

\* A struct of such a type has such a field.
LEMMA UntamedStarts ==
    ASSUME NEW u \in Types, ~Tame(u), NEW kid, kid.call = "set", kid.i = 0, kid.typ = u
    PROVE  Untamed(kid)
  <1>1. PICK j \in Seen(u) : Fields[u][j].kind # "scalar" /\ ~Tame(Fields[u][j].of)
    BY TameWhenHeldAre
  <1>2. j \in Nat
    BY <1>1, FieldsTyped
  <1> QED BY <1>1, <1>2 DEF Untamed

\* A frame that has none can return.
LEMMA UntamedStays ==
    ASSUME NEW top \in Frames, top.i > Len(Fields[top.typ]) \/ Tame(top.typ)
    PROVE  ~Untamed(top)
  <1> SUFFICES ASSUME NEW j \in Seen(top.typ), j >= top.i, Fields[top.typ][j].kind # "scalar"
               PROVE  Tame(Fields[top.typ][j].of)
    BY DEF Untamed
  <1>1. top.typ \in Types /\ top.i \in Nat
    BY DEF Frames
  <1>2. Tame(top.typ)
    BY <1>1, FieldsTyped
  <1>3. Fields[top.typ][j].of \in Types
    BY <1>1, FieldsTyped
  <1> DEFINE u == Fields[top.typ][j].of
  <1>4. HoldsOne(top.typ, {u})
    BY DEF HoldsOne
  <1> HIDE DEF u
  <1>5. Tame(u)
    BY <1>1, <1>2, <1>3, <1>4, RankFalls DEF u
  <1> QED BY <1>5 DEF u

-----------------------------------------------------------------------------
(* The frames of a stack                                                   *)

Fr(st) == {st[k] : k \in 1..Len(st)}

\* A call is made.
LEMMA FrPush ==
    ASSUME NEW st \in Seq(Frames), NEW f \in Frames
    PROVE  /\ Append(st, f) \in Seq(Frames) /\ Append(st, f) # << >>
           /\ Fr(Append(st, f)) = Fr(st) \cup {f}
  <1>1. /\ Len(st) \in Nat /\ Append(st, f) \in Seq(Frames) /\ Append(st, f) # << >>
        /\ Len(Append(st, f)) = Len(st) + 1 /\ \A k \in 1..Len(st) : Append(st, f)[k] = st[k]
        /\ Append(st, f)[Len(st) + 1] = f
    BY AppendProperties, LenProperties
  <1>2. \A k : (k \in 1..Len(st) + 1) <=> (k \in 1..Len(st) \/ k = Len(st) + 1)
    BY <1>1
  <1> QED BY <1>1, <1>2 DEF Fr

\* The last call returns.
LEMMA FrPop ==
    ASSUME NEW st \in Seq(Frames), st # << >>
    PROVE  /\ Front(st) \in Seq(Frames) /\ Last(st) \in Frames
           /\ Fr(st) = Fr(Front(st)) \cup {Last(st)}
           /\ (Len(st) = 1) <=> (Front(st) = << >>)
  <1>1. /\ Len(st) \in Nat /\ Len(st) # 0 /\ Len(Front(st)) = Len(st) - 1
        /\ \A k \in 1..Len(st) - 1 : Front(st)[k] = st[k]
        /\ Front(st) \in Seq(Frames) /\ Last(st) \in Frames /\ Last(st) = st[Len(st)]
    BY FrontIs
  <1>2. \A k : (k \in 1..Len(st)) <=> (k \in 1..Len(st) - 1 \/ k = Len(st))
    BY <1>1
  <1>3. Fr(st) = Fr(Front(st)) \cup {Last(st)}
    BY <1>1, <1>2 DEF Fr
  <1>4. (Len(st) = 1) <=> (Front(st) = << >>)
    BY <1>1, EmptySeq
  <1> QED BY <1>1, <1>3, <1>4

\* The last frame is another.
LEMMA FrAdvance ==
    ASSUME NEW st \in Seq(Frames), st # << >>, NEW f \in Frames, NEW up, up = [st EXCEPT ![Len(st)] = f]
    PROVE  up \in Seq(Frames) /\ up # << >> /\ Fr(up) = Fr(Front(st)) \cup {f}
  <1>1. /\ Len(st) \in Nat /\ Len(st) # 0 /\ Len(Front(st)) = Len(st) - 1
        /\ \A k \in 1..Len(st) - 1 : Front(st)[k] = st[k]
    BY FrontIs
  <1>2. /\ Len(st) \in 1..Len(st)
        /\ \A k : (k \in 1..Len(st)) <=> (k \in 1..Len(st) - 1 \/ k = Len(st))
        /\ \A k \in 1..Len(st) - 1 : k # Len(st)
    BY <1>1
  <1>3. /\ up \in Seq(Frames) /\ Len(up) = Len(st)
        /\ \A k \in 1..Len(st) : up[k] = IF k = Len(st) THEN f ELSE st[k]
    BY <1>2, ExceptSeq
  <1>4. Fr(up) = Fr(Front(st)) \cup {f}
    BY <1>1, <1>2, <1>3 DEF Fr
  <1>5. up # << >>
    BY <1>1, <1>3, EmptySeq
  <1> QED BY <1>3, <1>4, <1>5

-----------------------------------------------------------------------------
(* The walk, step by step                                                  *)

\* The value as the calls of the stack st leave it: the walk through a tame type has
\* filled what is not ahead of them, and the walk through another type cannot end.
FillOK(st, t, s0, ps, sc, res) ==
    /\ Kept(s0, ps, sc)
    /\ Tame(t) /\ (st # << >> \/ res = "ok") => Walked(Fr(st), t, s0, ps, sc)
    /\ ~Tame(t) /\ st # << >> => Stuck(Fr(st))
    /\ res = "ok" => Tame(t) /\ st = << >>

FillInv ==
    /\ DOMAIN start = Goroutines /\ DOMAIN pointers = Goroutines
    /\ DOMAIN scalars = Goroutines /\ DOMAIN result = Goroutines
    /\ \A g \in Goroutines : FillOK(stack[g], root[g], start[g], pointers[g], scalars[g], result[g])

\* A frame goes on after a field that has what it needs.
LEMMA FillOn ==
    ASSUME NEW st \in Seq(Frames), st # << >>, NEW t, NEW s0, NEW ps, NEW sc, NEW top, top = Last(st),
           FillOK(st, t, s0, ps, sc, "none"), top.call = "set",
           NEW next, next = [top EXCEPT !.i = @ + 1], NEW up, up = [st EXCEPT ![Len(st)] = next],
           NEW more, Kept(s0, ps, more),
           Tame(t) => /\ Walked(Fr(st), t, s0, ps, more)
                      /\ top.i \notin Held(Spot(top), ps)
                      /\ top.i \in Seen(top.typ) => Filled(FieldAt(Spot(top), top.i), s0, ps, more),
           top.i \in Seen(top.typ) /\ Fields[top.typ][top.i].kind # "scalar" => Tame(Fields[top.typ][top.i].of)
    PROVE  FillOK(up, t, s0, ps, more, "none")
  <1> DEFINE F == Fr(Front(st))
  <1>1. top \in Frames /\ Fr(st) = F \cup {top}
    BY FrPop
  <1>2. next \in Frames
    BY <1>1, FrameGoesOn
  <1>3. up \in Seq(Frames) /\ up # << >> /\ Fr(up) = F \cup {next}
    BY <1>2, FrAdvance
  <1> HIDE DEF F
  <1>4. ASSUME Tame(t) PROVE Walked(F \cup {next}, t, s0, ps, more)
    <2>1. Walked(F \cup {top}, t, s0, ps, more)
      BY <1>1, <1>4
    <2> QED BY <1>1, <1>4, <2>1, WalkedOn
  <1>5. ASSUME ~Tame(t) PROVE Stuck(F \cup {next})
    <2>1. Stuck(F \cup {top})
      BY <1>1, <1>5 DEF FillOK
    <2>2. Untamed(top) => Untamed(next)
      BY <1>1, UntamedGoesOn
    <2> QED BY <2>1, <2>2 DEF Stuck
  <1> QED BY <1>3, <1>4, <1>5 DEF FillOK

\* A frame goes on after a field whose struct is entered.
LEMMA FillIn ==
    ASSUME NEW st \in Seq(Frames), st # << >>, NEW t, NEW s0, NEW ps, NEW sc, NEW top, top = Last(st),
           FillOK(st, t, s0, ps, sc, "none"), top.call = "set",
           NEW next, next = [top EXCEPT !.i = @ + 1],
           NEW up \in Seq(Frames), Fr(up) = Fr(Front(st)) \cup {next},
           NEW kid \in Frames, kid.call = "set", kid.i = 0, Spot(kid) = Kid(Spot(top), top.i),
           NEW more, Kept(s0, more, sc),
           Tame(t) => /\ Walked(Fr(st), t, s0, more, sc) \/ Walked(Fr(st) \cup {kid}, t, s0, more, sc)
                      /\ top.i \in Held(Spot(top), more)
                      /\ Filled(FieldAt(Spot(top), top.i), s0, more, sc)
    PROVE  FillOK(Append(up, kid), t, s0, more, sc, "none")
  <1> DEFINE F == Fr(Front(st))
  <1>1. top \in Frames /\ Fr(st) = F \cup {top}
    BY FrPop
  <1>2. next \in Frames
    BY <1>1, FrameGoesOn
  <1>3. up \in Seq(Frames) /\ Fr(up) = F \cup {next}
    OBVIOUS
  <1> HIDE DEF F
  <1>4. Append(up, kid) # << >> /\ Fr(Append(up, kid)) = (F \cup {next}) \cup {kid}
    <2>1. Append(up, kid) # << >> /\ Fr(Append(up, kid)) = Fr(up) \cup {kid}
      <3>1. up \in Seq(Frames) /\ kid \in Frames
        BY <1>3
      <3> QED BY <3>1, FrPush
    <2> QED BY <1>3, <2>1
  <1> DEFINE G == F \cup {kid}
  <1>5. ASSUME Tame(t) PROVE Walked((F \cup {next}) \cup {kid}, t, s0, more, sc)
    <2>1. CASE Walked(Fr(st), t, s0, more, sc)
      <3>1. Walked(F \cup {top}, t, s0, more, sc)
        BY <1>1, <2>1
      <3> QED BY <1>1, <1>5, <3>1, WalkedIn
    <2>2. CASE Walked(Fr(st) \cup {kid}, t, s0, more, sc)
      <3>1. Fr(st) \cup {kid} = G \cup {top} /\ (G \cup {next}) \cup {kid} = (F \cup {next}) \cup {kid}
        BY <1>1
      <3> HIDE DEF G
      <3>2. Walked(G \cup {top}, t, s0, more, sc)
        BY <2>2, <3>1
      <3>3. Walked((G \cup {next}) \cup {kid}, t, s0, more, sc)
        BY <1>1, <1>5, <3>2, WalkedIn
      <3> QED BY <3>1, <3>3
    <2> QED BY <1>5, <2>1, <2>2
  <1>6. ASSUME ~Tame(t) PROVE Stuck((F \cup {next}) \cup {kid})
    <2>1. Stuck(F \cup {top})
      BY <1>1, <1>6 DEF FillOK
    <2>2. kid.typ \in Types /\ kid.typ = Fields[top.typ][top.i].of
      BY DEF Frames, Spot, Kid
    <2>3. ~Tame(kid.typ) => Untamed(kid)
      BY <2>2, UntamedStarts
    <2>4. Untamed(top) => Untamed(next) \/ Untamed(kid)
      BY <1>1, <2>2, <2>3, UntamedGoesOn
    <2> QED BY <2>1, <2>4 DEF Stuck
  <1> QED BY <1>4, <1>5, <1>6 DEF FillOK

\* A frame returns at its end, or because there is nothing to do.
LEMMA FillOut ==
    ASSUME NEW st \in Seq(Frames), st # << >>, NEW t, NEW s0, NEW ps, NEW sc, NEW top, top = Last(st),
           FillOK(st, t, s0, ps, sc, "none"), top.call = "set",
           top.i > Len(Fields[top.typ]) \/ Plain(top.typ),
           NEW res, res = IF Len(st) = 1 THEN "ok" ELSE "none"
    PROVE  FillOK(Front(st), t, s0, ps, sc, res)
  <1> DEFINE F == Fr(Front(st))
  <1>1. top \in Frames /\ Fr(st) = F \cup {top} /\ ((Len(st) = 1) <=> (Front(st) = << >>))
    BY FrPop
  <1>2. ~Untamed(top)
    BY <1>1, UntamedStays DEF Plain
  <1>3. Front(st) = << >> => F = {}
    BY EmptySeq DEF Fr
  <1> HIDE DEF F
  <1>4. ASSUME Tame(t) PROVE Walked(F, t, s0, ps, sc)
    <2>1. Walked(F \cup {top}, t, s0, ps, sc)
      BY <1>1, <1>4 DEF FillOK
    <2> QED BY <1>1, <1>4, <2>1, WalkedOut DEF Plain
  <1>5. ASSUME ~Tame(t) PROVE Stuck(F)
    <2>1. Stuck(F \cup {top})
      BY <1>1, <1>5 DEF FillOK
    <2> QED BY <1>2, <2>1 DEF Stuck
  <1>6. Front(st) = << >> => Tame(t)
    BY <1>3, <1>5 DEF Stuck
  <1> QED BY <1>1, <1>4, <1>5, <1>6 DEF FillOK, F

\* Scans come and go.
LEMMA FillScans ==
    ASSUME NEW F, NEW G, NEW t, NEW s0, NEW ps, NEW sc, NEW st, NEW up, st # << >>, up # << >>,
           Fr(st) = F \/ \E f : f.call = "scan" /\ Fr(st) = F \cup {f},
           Fr(up) = F \/ \E f : f.call = "scan" /\ Fr(up) = F \cup {f},
           FillOK(st, t, s0, ps, sc, "none")
    PROVE  FillOK(up, t, s0, ps, sc, "none")
  <1>1. ASSUME NEW f, f.call = "scan" PROVE Stuck(F \cup {f}) <=> Stuck(F)
    BY <1>1 DEF Stuck, Untamed
  <1>2. \A f : f.call = "scan" => (Walked(F \cup {f}, t, s0, ps, sc) <=> Walked(F, t, s0, ps, sc))
    BY WalkedScans
  <1>3. Walked(Fr(st), t, s0, ps, sc) <=> Walked(F, t, s0, ps, sc)
    BY <1>2
  <1>4. Walked(Fr(up), t, s0, ps, sc) <=> Walked(F, t, s0, ps, sc)
    BY <1>2
  <1>5. (Stuck(Fr(st)) <=> Stuck(F)) /\ (Stuck(Fr(up)) <=> Stuck(F))
    BY <1>1
  <1> QED BY <1>3, <1>4, <1>5 DEF FillOK

\* A walk starts with the bound struct: every field is ahead.
LEMMA FillStarts ==
    ASSUME NEW t \in Types, NEW s0, NEW f, f = Frame("set", t, << >>)
    PROVE  FillOK(<<f>>, t, s0, s0.pointers, s0.scalars, "none")
  <1> DEFINE e == << >>
             ps == s0.pointers
  <1>1. /\ f.call = "set" /\ f.typ = t /\ f.i = 0 /\ f.path = e /\ Spot(f) = <<e, t>> /\ e \in Seq(Nat)
        /\ Len(e) = 0
    BY EmptySeq DEF Frame, Spot
  <1>2. Fr(<<f>>) = {f} /\ <<f>> # << >>
    BY DEF Fr
  <1>3. ASSUME Tame(t) PROVE Walked({f}, t, s0, ps, s0.scalars)
    <2>1. Spot(f) \in Nodes(t, ps)
      BY <1>1, <1>3, NodesAre
    <2>2. ASSUME NEW h \in Slots(t, ps) PROVE Pending(h[1], f)
      <3>1. PICK s \in Nodes(t, ps) : \E j \in Seen(s[2]) : h = FieldAt(s, j)
        BY <1>3, <2>2, SlotTyped
      <3>2. PICK j \in Seen(s[2]) : h = FieldAt(s, j)
        BY <3>1
      <3>3. s \in Spots
        BY <1>3, NodesAre
      <3>4. h[1] = Append(s[1], j)
        BY <3>2 DEF FieldAt
      <3> HIDE DEF e
      <3>5. h[1] \in Seq(Nat) /\ Len(h[1]) > Len(e)
        <4>1. e \in Seq(Nat) /\ j \in Seen(s[2])
          BY <1>1, <3>2
        <4>2. /\ Append(s[1], j) \in Seq(Nat) /\ Len(s[1]) \in Nat
              /\ Len(Append(s[1], j)) = Len(s[1]) + 1
          BY <3>3, <4>1, PlaceOfField
        <4> QED BY <1>1, <3>4, <4>2
      <3>6. Extends(h[1], e)
        BY <1>1, <3>5 DEF Extends
      <3> QED BY <1>1, <3>5, <3>6, PendingStarts
    <2>3. Made(t, s0, ps, s0.scalars)
      BY DEF Made
    <2> QED BY <2>1, <2>2, <2>3 DEF Walked, Ahead
  <1>4. ~Tame(t) => Stuck({f})
    BY <1>1, UntamedStarts DEF Stuck
  <1>5. Kept(s0, ps, s0.scalars)
    BY DEF Kept
  <1> QED BY <1>2, <1>3, <1>4, <1>5 DEF FillOK

\* Function x becomes y, which differs from it only at g.
Becomes(y, x, g, v) == DOMAIN y = Goroutines /\ \A h \in Goroutines : y[h] = IF h = g THEN v ELSE x[h]

\* One goroutine moves.
LEMMA FillMoves ==
    ASSUME FillInv, NEW g \in Goroutines, NEW st, NEW s0, NEW ps, NEW sc, NEW res,
           \A h \in Goroutines : stack'[h] = IF h = g THEN st ELSE stack[h],
           Becomes(start', start, g, s0), Becomes(pointers', pointers, g, ps),
           Becomes(scalars', scalars, g, sc), Becomes(result', result, g, res),
           root' = root, FillOK(st, root[g], s0, ps, sc, res)
    PROVE  FillInv'
  <1>1. ASSUME NEW h \in Goroutines
        PROVE  FillOK(stack'[h], root'[h], start'[h], pointers'[h], scalars'[h], result'[h])
    <2>1. CASE h = g
      <3>1. stack'[h] = st /\ start'[h] = s0 /\ pointers'[h] = ps /\ scalars'[h] = sc /\ result'[h] = res
        BY <2>1 DEF Becomes
      <3> QED BY <2>1, <3>1
    <2>2. CASE h # g
      <3>1. /\ stack'[h] = stack[h] /\ start'[h] = start[h] /\ pointers'[h] = pointers[h]
            /\ scalars'[h] = scalars[h] /\ result'[h] = result[h]
        BY <2>2 DEF Becomes
      <3> QED BY <3>1 DEF FillInv
    <2> QED BY <2>1, <2>2
  <1> QED BY <1>1 DEF FillInv, Becomes

\* The calls of one goroutine change, its value does not.
LEMMA FillGoes ==
    ASSUME FillInv, CacheInv, NEW g \in Goroutines, NEW st, stack' = [stack EXCEPT ![g] = st],
           ValueKept, NEW res, Becomes(result', result, g, res),
           FillOK(st, root[g], start[g], pointers[g], scalars[g], res)
    PROVE  FillInv'
  <1>1. /\ \A h \in Goroutines : stack'[h] = IF h = g THEN st ELSE stack[h]
        /\ Becomes(start', start, g, start[g]) /\ Becomes(pointers', pointers, g, pointers[g])
        /\ Becomes(scalars', scalars, g, scalars[g]) /\ Becomes(result', result, g, res) /\ root' = root
    BY DEF Becomes, ValueKept, FillInv, CacheInv
  <1> QED BY <1>1, FillMoves

\* The running frame of a walk or of a scan, and the field it is at.
LEMMA TopFills ==
    ASSUME CacheInv, FillInv, NEW g \in Goroutines, Running(g)
    PROVE  /\ stack[g] \in Seq(Frames) /\ stack[g] # << >> /\ Top(g) \in Frames /\ Top(g) = Last(stack[g])
           /\ result[g] = "none" /\ Becomes(result, result, g, "none")
           /\ FillOK(stack[g], root[g], start[g], pointers[g], scalars[g], "none")
           /\ Top(g).i > 0 /\ ~Ended(g) =>
                /\ Top(g).i \in Seen(Top(g).typ) <=> Field(g).exported
                /\ Field(g) = Fields[Top(g).typ][Top(g).i] /\ Field(g) \in FieldSet
                /\ FieldAt(Spot(Top(g)), Top(g).i) = <<Place(g), Field(g)>>
  <1>1. /\ stack[g] \in Seq(Frames) /\ stack[g] # << >> /\ Top(g) \in Frames /\ Top(g) = Last(stack[g])
        /\ Top(g).typ \in Types /\ Top(g).i \in Nat
    BY TopTyped DEF StackOK, Top
  <1>2. /\ result[g] = "none" /\ DOMAIN result = Goroutines
        /\ FillOK(stack[g], root[g], start[g], pointers[g], scalars[g], "none")
    BY DEF Running, FillInv
  <1>3. ASSUME Top(g).i > 0, ~Ended(g)
        PROVE  /\ Top(g).i \in Seen(Top(g).typ) <=> Field(g).exported
               /\ Field(g) = Fields[Top(g).typ][Top(g).i] /\ Field(g) \in FieldSet
               /\ FieldAt(Spot(Top(g)), Top(g).i) = <<Place(g), Field(g)>>
    <2>1. Top(g).i \in 1..Len(Fields[Top(g).typ])
      BY <1>1, <1>3, FieldsTyped DEF Ended
    <2>2. Field(g) = Fields[Top(g).typ][Top(g).i] /\ Field(g) \in FieldSet
      BY <1>1, <2>1, FieldsTyped DEF Field
    <2>3. Top(g).i \in Seen(Top(g).typ) <=> Field(g).exported
      BY <1>1, <2>1, <2>2, FieldsTyped DEF Seen
    <2>4. FieldAt(Spot(Top(g)), Top(g).i) = <<Place(g), Field(g)>>
      BY <2>2 DEF FieldAt, Spot, Place
    <2> QED BY <2>2, <2>3, <2>4
  <1>4. Becomes(result, result, g, "none")
    BY <1>2 DEF Becomes
  <1> QED BY <1>1, <1>2, <1>3, <1>4

\* A scan is made.
LEMMA ScanFills ==
    ASSUME CacheInv, FillInv, NEW g \in Goroutines, Running(g), NEW typ \in Types, Scan(g, typ)
    PROVE  FillInv'
  <1> DEFINE f == Frame("scan", typ, << >>)
             st == stack[g]
             up == Append(st, f)
  <1>1. f \in Frames /\ f.call = "scan"
    BY EmptySeq DEF Frame, Frames
  <1>2. /\ st \in Seq(Frames) /\ st # << >> /\ Becomes(result, result, g, "none")
        /\ FillOK(st, root[g], start[g], pointers[g], scalars[g], "none")
    BY TopFills
  <1>3. stack' = [stack EXCEPT ![g] = up] /\ ValueKept /\ result' = result
    BY DEF Scan, Goes
  <1> HIDE DEF f, st
  <1>4. up # << >> /\ Fr(up) = Fr(st) \cup {f}
    BY <1>1, <1>2, FrPush
  <1> HIDE DEF up
  <1>5. FillOK(up, root[g], start[g], pointers[g], scalars[g], "none")
    BY <1>1, <1>2, <1>4, FillScans
  <1> QED BY <1>2, <1>3, <1>5, FillGoes

\* A scan goes on, or returns.
LEMMA ScanStepFills ==
    ASSUME CacheInv, FillInv, NEW g \in Goroutines, ScanField(g) \/ ScanEnds(g)
    PROVE  FillInv'
  <1> DEFINE st == stack[g]
             top == Top(g)
             F == Fr(Front(st))
  <1>1. Running(g) /\ top.call = "scan"
    BY DEF ScanField, ScanEnds, InField, InCall
  <1>2. /\ st \in Seq(Frames) /\ st # << >> /\ top \in Frames /\ top = Last(st)
        /\ Becomes(result, result, g, "none")
        /\ FillOK(st, root[g], start[g], pointers[g], scalars[g], "none")
    BY <1>1, TopFills
  <1>3. Front(st) # << >>
    <2>1. StackOK(st)
      BY <1>1, TopTyped
    <2> HIDE DEF st, top
    <2> QED BY <1>1, <1>2, <2>1, PopOK
  <1>4. Fr(st) = F \cup {top}
    BY <1>2, FrPop
  <1>5. ASSUME stack' = [stack EXCEPT ![g] = Advanced(g)], ValueKept, result' = result PROVE FillInv'
    <2> DEFINE next == [top EXCEPT !.i = @ + 1]
               up == Advanced(g)
    <2>1. next \in Frames /\ next.call = "scan"
      BY <1>1, <1>2, FrameGoesOn
    <2>2. up = [st EXCEPT ![Len(st)] = next]
      BY DEF Advanced, Top, Last
    <2> HIDE DEF next, st
    <2>3. up # << >> /\ Fr(up) = F \cup {next}
      BY <1>2, <2>1, <2>2, FrAdvance
    <2> HIDE DEF up, F, top
    <2>4. FillOK(up, root[g], start[g], pointers[g], scalars[g], "none")
      BY <1>1, <1>2, <1>4, <2>1, <2>3, FillScans
    <2>5. stack' = [stack EXCEPT ![g] = up]
      BY <1>5 DEF up
    <2> QED BY <1>2, <1>5, <2>4, <2>5, FillGoes
  <1>6. ASSUME NEW has, ScanReturns(g, has) PROVE FillInv'
    <2> DEFINE up == Front(st)
    <2>1. stack' = [stack EXCEPT ![g] = up] /\ ValueKept /\ result' = result
      BY <1>6 DEF ScanReturns
    <2>2. Fr(up) = F /\ up # << >>
      BY <1>3
    <2> HIDE DEF up, F, st, top
    <2>3. FillOK(up, root[g], start[g], pointers[g], scalars[g], "none")
      BY <1>1, <1>2, <1>4, <2>2, FillScans
    <2> QED BY <1>2, <2>1, <2>3, FillGoes
  <1>7. ASSUME Scan(g, Field(g).of), InField(g, "scan") PROVE FillInv'
    BY <1>1, <1>7, FieldTyped, ScanFills
  <1> QED BY <1>5, <1>6, <1>7 DEF ScanField, ScanEnds, Goes

\* The running frame of a walk goes on to its next field.
LEMMA WalkGoesOnFills ==
    ASSUME CacheInv, FillInv, NEW g \in Goroutines, InCall(g, "set"), NEW more,
           stack' = [stack EXCEPT ![g] = Advanced(g)],
           UNCHANGED <<root, start, pointers, result>>, Becomes(scalars', scalars, g, more),
           Kept(start[g], pointers[g], more),
           Tame(root[g]) => /\ Walked(Fr(stack[g]), root[g], start[g], pointers[g], more)
                            /\ Top(g).i \notin Held(Spot(Top(g)), pointers[g])
                            /\ Top(g).i \in Seen(Top(g).typ) =>
                                  Filled(FieldAt(Spot(Top(g)), Top(g).i), start[g], pointers[g], more),
           Top(g).i \in Seen(Top(g).typ) /\ Fields[Top(g).typ][Top(g).i].kind # "scalar"
              => Tame(Fields[Top(g).typ][Top(g).i].of)
    PROVE  FillInv'
  <1> DEFINE st == stack[g]
             top == Top(g)
             next == [top EXCEPT !.i = @ + 1]
             up == Advanced(g)
             t == root[g]
             s0 == start[g]
             ps == pointers[g]
             sc == scalars[g]
  <1>1. top.call = "set" /\ Running(g)
    BY DEF InCall
  <1>2. /\ st \in Seq(Frames) /\ st # << >> /\ top = Last(st)
        /\ FillOK(st, t, s0, ps, sc, "none") /\ Becomes(result, result, g, "none")
    BY <1>1, TopFills
  <1>3. up = [st EXCEPT ![Len(st)] = next] /\ next = [top EXCEPT !.i = @ + 1]
    BY DEF Advanced, Top, Last
  <1>4. /\ Kept(s0, ps, more)
        /\ Tame(t) => /\ Walked(Fr(st), t, s0, ps, more)
                      /\ top.i \notin Held(Spot(top), ps)
                      /\ top.i \in Seen(top.typ) => Filled(FieldAt(Spot(top), top.i), s0, ps, more)
        /\ top.i \in Seen(top.typ) /\ Fields[top.typ][top.i].kind # "scalar" => Tame(Fields[top.typ][top.i].of)
    OBVIOUS
  <1>5. /\ \A h \in Goroutines : stack'[h] = IF h = g THEN up ELSE stack[h]
        /\ Becomes(start', start, g, s0) /\ Becomes(pointers', pointers, g, ps)
        /\ Becomes(result', result, g, "none") /\ root' = root
    BY <1>2 DEF Becomes, FillInv, CacheInv
  <1> HIDE DEF st, top, next, up, t, s0, ps, sc
  <1>6. FillOK(up, t, s0, ps, more, "none")
    BY <1>1, <1>2, <1>3, <1>4, FillOn
  <1> QED BY <1>5, <1>6, FillMoves DEF t

\* The running frame of a walk returns.
LEMMA WalkReturnsFills ==
    ASSUME CacheInv, FillInv, NEW g \in Goroutines, InCall(g, "set"), SetReturns(g),
           Ended(g) \/ Plain(Top(g).typ)
    PROVE  FillInv'
  <1> DEFINE st == stack[g]
             top == Top(g)
             up == Front(st)
             res == IF Len(st) = 1 THEN "ok" ELSE "none"
  <1>1. top.call = "set" /\ Running(g) /\ (top.i > Len(Fields[top.typ]) \/ Plain(top.typ))
    BY DEF InCall, Ended
  <1>2. /\ st \in Seq(Frames) /\ st # << >> /\ top = Last(st)
        /\ FillOK(st, root[g], start[g], pointers[g], scalars[g], "none")
        /\ Becomes(result, result, g, "none")
    BY <1>1, TopFills
  <1>3. /\ stack' = [stack EXCEPT ![g] = up] /\ ValueKept
        /\ Becomes(result', result, g, res)
    BY <1>2 DEF SetReturns, Goes, Becomes
  <1> HIDE DEF st, top, res
  <1>4. FillOK(up, root[g], start[g], pointers[g], scalars[g], res)
    BY <1>1, <1>2, FillOut DEF res
  <1> HIDE DEF up
  <1> QED BY <1>3, <1>4, FillGoes

\* The running frame of a walk goes on after its field, whose struct is entered.
LEMMA WalkEntersFills ==
    ASSUME CacheInv, FillInv, NEW g \in Goroutines, InField(g, "set"), Field(g).exported,
           Enter(g), UNCHANGED <<root, start, scalars, result>>,
           \/ Field(g).kind = "struct" /\ pointers' = pointers
           \/ Field(g).kind = "pointer" /\ Place(g) \in pointers[g] /\ pointers' = pointers
           \/ /\ Field(g).kind = "pointer" /\ Field(g).of \in Carriers
              /\ pointers' = [pointers EXCEPT ![g] = @ \cup {Place(g)}]
    PROVE  FillInv'
  <1> DEFINE st == stack[g]
             top == Top(g)
             next == [top EXCEPT !.i = @ + 1]
             up == Advanced(g)
             kid == Frame("set", Field(g).of, Place(g))
             t == root[g]
             s0 == start[g]
             ps == pointers[g]
             sc == scalars[g]
             more == pointers'[g]
             fl == FieldAt(Spot(top), top.i)
  <1>1. top.call = "set" /\ Running(g) /\ top.i > 0 /\ ~Ended(g)
    BY DEF InField, InCall
  <1>2. /\ st \in Seq(Frames) /\ st # << >> /\ top = Last(st) /\ top \in Frames
        /\ FillOK(st, t, s0, ps, sc, "none") /\ Becomes(result, result, g, "none")
        /\ top.i \in Seen(top.typ) /\ Field(g) = Fields[top.typ][top.i]
        /\ fl = <<Place(g), Field(g)>>
    BY <1>1, TopFills
  <1>3. /\ next = [top EXCEPT !.i = @ + 1]
        /\ up \in Seq(Frames) /\ Fr(up) = Fr(Front(st)) \cup {next}
    <2>1. next \in Frames
      BY <1>2, FrameGoesOn
    <2>2. up = [st EXCEPT ![Len(st)] = next]
      BY DEF Advanced, Top, Last
    <2>3. st \in Seq(Frames) /\ st # << >>
      BY <1>2
    <2> HIDE DEF next, up, st, top
    <2>4. up \in Seq(Frames) /\ up # << >> /\ Fr(up) = Fr(Front(st)) \cup {next}
      BY <2>1, <2>2, <2>3, FrAdvance
    <2> QED BY <2>4 DEF next
  <1>4. kid \in Frames /\ kid.call = "set" /\ kid.i = 0 /\ Spot(kid) = Kid(Spot(top), top.i)
    <2>1. kid \in Frames /\ kid.call = "set" /\ kid.i = 0
      BY FieldTyped DEF Frame, Frames
    <2>2. Spot(kid) = Kid(Spot(top), top.i)
      BY DEF Frame, Spot, Kid, Field, Place
    <2> QED BY <2>1, <2>2
  <1>5. DOMAIN pointers = Goroutines /\ DOMAIN stack = Goroutines
    BY DEF FillInv, CacheInv
  <1>6. /\ more = ps \/ more = ps \cup {Place(g)}
        /\ Becomes(pointers', pointers, g, more)
    BY <1>5 DEF Becomes
  <1>7. Place(g) = Append(top.path, top.i) /\ Spot(top)[1] = top.path /\ Spot(top)[2] = top.typ
    BY DEF Place, Spot
  <1>8. /\ \A h \in Goroutines : stack'[h] = IF h = g THEN Append(up, kid) ELSE stack[h]
        /\ Becomes(start', start, g, s0) /\ Becomes(scalars', scalars, g, sc)
        /\ Becomes(result', result, g, "none") /\ root' = root
    BY <1>2, <1>5 DEF Becomes, FillInv, Enter, Goes
  <1>9. \/ /\ Field(g).kind = "struct" \/ (Field(g).kind = "pointer" /\ Place(g) \in ps)
           /\ more = ps
        \/ Field(g).kind = "pointer" /\ Field(g).of \in Carriers /\ more = ps \cup {Place(g)}
    BY <1>5
  <1>10. Kept(s0, more, sc)
    BY <1>2, <1>6 DEF FillOK, Kept
  <1> HIDE DEF st, top, next, up, kid, t, s0, ps, sc, more
  <1>11. ASSUME Tame(t)
         PROVE  /\ Walked(Fr(st), t, s0, more, sc) \/ Walked(Fr(st) \cup {kid}, t, s0, more, sc)
                /\ top.i \in Held(Spot(top), more)
                /\ Filled(fl, s0, more, sc)
    <2>1. Walked(Fr(st), t, s0, ps, sc)
      BY <1>2, <1>11 DEF FillOK
    <2>2. CASE /\ Field(g).kind = "struct" \/ (Field(g).kind = "pointer" /\ Place(g) \in ps)
               /\ more = ps
      <3>1. top.i \in Held(Spot(top), more)
        BY <1>2, <1>7, <2>2 DEF Held
      <3>2. Filled(fl, s0, more, sc)
        BY <1>2, <2>2 DEF Filled
      <3> QED BY <2>1, <2>2, <3>1, <3>2
    <2>3. CASE Field(g).kind = "pointer" /\ Field(g).of \in Carriers /\ more = ps \cup {Place(g)}
      <3> DEFINE F == Fr(st)
      <3>1. top \in F
        BY <1>2, FrPop
      <3> HIDE DEF F
      <3>2. Walked(F, t, s0, ps, sc)
        BY <2>1 DEF F
      <3>3. Fields[top.typ][top.i].kind = "pointer" /\ Fields[top.typ][top.i].of \in Carriers
            /\ more = ps \cup {Append(top.path, top.i)}
        BY <1>2, <1>7, <2>3
      <3>4. /\ top \in Frames /\ top.call = "set" /\ Tame(t) /\ top.i \in Seen(top.typ)
            /\ kid.call = "set" /\ kid.i = 0 /\ Spot(kid) = Kid(Spot(top), top.i)
        BY <1>1, <1>2, <1>4, <1>11
      <3>5. Walked(F \cup {kid}, t, s0, more, sc)
        BY <3>1, <3>2, <3>3, <3>4, WalkedMore, Zenon
      <3>6. top.i \in Held(Spot(top), more)
        BY <1>2, <1>7, <2>3 DEF Held
      <3>7. Filled(fl, s0, more, sc)
        BY <1>2, <2>3 DEF Filled
      <3> QED BY <3>5, <3>6, <3>7 DEF F
    <2> QED BY <1>9, <2>2, <2>3
  <1>12. FillOK(Append(up, kid), t, s0, more, sc, "none")
    BY <1>1, <1>2, <1>3, <1>4, <1>10, <1>11, FillIn
  <1> QED BY <1>6, <1>8, <1>12, FillMoves DEF t

\* A scalar keeps its value, gets its default, or its tag does not parse.
LEMMA SetScalarFills ==
    ASSUME CacheInv, FillInv, NEW g \in Goroutines, SetScalar(g)
    PROVE  FillInv'
  <1> DEFINE top == Top(g)
             f == FieldAt(Spot(top), top.i)
             t == root[g]
             s0 == start[g]
             ps == pointers[g]
             sc == scalars[g]
             F == Fr(stack[g])
  <1>1. /\ InCall(g, "set") /\ Running(g) /\ top.call = "set" /\ top.i > 0 /\ ~Ended(g)
    BY DEF SetScalar, InField, InCall
  <1>2. /\ stack[g] \in Seq(Frames) /\ stack[g] # << >> /\ top = Last(stack[g]) /\ top \in Frames
        /\ FillOK(stack[g], t, s0, ps, sc, "none") /\ Becomes(result, result, g, "none")
        /\ top.i \in Seen(top.typ) <=> Field(g).exported
        /\ Field(g) = Fields[top.typ][top.i] /\ Field(g) \in FieldSet
        /\ f = <<Place(g), Field(g)>>
    BY <1>1, TopFills
  <1>3. top \in F
    BY <1>2, FrPop
  <1>4. DOMAIN scalars = Goroutines /\ DOMAIN stack = Goroutines /\ Kept(s0, ps, sc)
        /\ (Tame(t) => Walked(F, t, s0, ps, sc)) /\ Spot(top)[2] = top.typ
    BY <1>2 DEF FillInv, CacheInv, FillOK, Spot
  <1>5. ASSUME ~Field(g).exported \/ Field(g).kind = "scalar" PROVE top.i \notin Held(Spot(top), ps)
    BY <1>2, <1>4, <1>5 DEF Held
  <1>6. CASE /\ ~Field(g).exported \/ (Field(g).kind = "scalar"
                                         /\ (Field(g).tag = "none" \/ Place(g) \in DOMAIN scalars[g]))
             /\ SkipField(g)
    <2>1. /\ stack' = [stack EXCEPT ![g] = Advanced(g)] /\ UNCHANGED <<root, start, pointers, result>>
          /\ Becomes(scalars', scalars, g, sc)
      BY <1>4, <1>6 DEF SkipField, Goes, ValueKept, Becomes
    <2>2. top.i \in Seen(top.typ) => Fields[top.typ][top.i].kind = "scalar"
      BY <1>2, <1>6
    <2>3. ASSUME Tame(t), top.i \in Seen(top.typ) PROVE Filled(f, s0, ps, sc)
      <3>1. CASE Field(g).tag = "none"
        BY <1>2, <2>2, <2>3, <3>1 DEF Filled
      <3>2. CASE Place(g) \in DOMAIN sc
        <4>1. f[1] \in DOMAIN sc /\ f[2].kind = "scalar" /\ Walked(F, t, s0, ps, sc)
          BY <1>2, <1>4, <2>2, <2>3, <3>2
        <4> HIDE DEF top, F, t, s0, ps, sc
        <4> QED BY <1>1, <1>2, <1>3, <2>3, <4>1, WalkedAlready
      <3> QED BY <1>2, <1>6, <2>3, <3>1, <3>2
    <2> QED BY <1>1, <1>4, <1>5, <1>6, <2>1, <2>2, <2>3, WalkGoesOnFills
  <1>7. CASE /\ Field(g).exported /\ Field(g).kind = "scalar" /\ Place(g) \notin DOMAIN scalars[g]
             /\ Field(g).tag = "good"
             /\ scalars' = [scalars EXCEPT ![g] = WithScalar(g, SetDefaultValue(Field(g)))]
             /\ Goes(g, Advanced(g))
             /\ UNCHANGED <<defaultsCache, root, start, pointers, result>>
    <2> DEFINE n == SetDefaultValue(Field(g))
               more == WithScalar(g, n)
    <2>1. /\ stack' = [stack EXCEPT ![g] = Advanced(g)] /\ UNCHANGED <<root, start, pointers, result>>
          /\ Becomes(scalars', scalars, g, more)
      BY <1>4, <1>7 DEF Goes, Becomes
    <2>2. /\ top.i \in Seen(top.typ) /\ Fields[top.typ][top.i].kind = "scalar"
          /\ f[2].kind = "scalar" /\ f[2].tag = "good" /\ f[1] \notin DOMAIN sc /\ n = SetDefaultValue(f[2])
      BY <1>2, <1>7
    <2>3. more = With(sc, f[1], n)
      BY <1>2 DEF WithScalar, With
    <2> HIDE DEF n, more
    <2>4. Kept(s0, ps, more)
      BY <1>4, <2>2, <2>3 DEF Kept, With
    <2>5. ASSUME Tame(t) PROVE Walked(F, t, s0, ps, more) /\ Filled(f, s0, ps, more)
      <3>1. Walked(F, t, s0, ps, sc)
        BY <1>4, <2>5
      <3>2. top \in Frames /\ top \in F /\ top.call = "set" /\ f = FieldAt(Spot(top), top.i)
        BY <1>1, <1>2, <1>3
      <3> HIDE DEF top, F, t, s0, ps, sc, f
      <3>3. Walked(F, t, s0, ps, more)
        BY <2>2, <2>3, <2>5, <3>1, <3>2, WalkedScalar, Zenon
      <3>4. Filled(f, s0, ps, more)
        BY <2>2, <2>3, <2>5, <3>1, <3>2, WalkedScalar, Zenon
      <3> QED BY <3>3, <3>4
    <2> QED BY <1>1, <1>5, <1>7, <2>1, <2>2, <2>4, <2>5, WalkGoesOnFills
  <1>8. CASE /\ Goes(g, << >>) /\ result' = [result EXCEPT ![g] = "error"] /\ ValueKept
    <2>1. FillOK(<< >>, t, s0, ps, sc, "error")
      BY <1>4 DEF FillOK
    <2>2. stack' = [stack EXCEPT ![g] = << >>] /\ Becomes(result', result, g, "error")
      BY <1>2, <1>8 DEF Goes, Becomes
    <2> QED BY <1>8, <2>1, <2>2, FillGoes
  <1> QED BY <1>6, <1>7, <1>8 DEF SetScalar

\* A walk begins.
LEMMA ApplyDefaultsFills ==
    ASSUME CacheInv, FillInv, NEW g \in Goroutines, ApplyDefaults(g)
    PROVE  FillInv'
  <1> DEFINE f == Frame("set", root[g], << >>)
             s0 == start'[g]
  <1>1. /\ DOMAIN start = Goroutines /\ DOMAIN pointers = Goroutines /\ DOMAIN scalars = Goroutines
        /\ DOMAIN result = Goroutines /\ DOMAIN stack = Goroutines /\ root[g] \in Types
    BY DEF FillInv, CacheInv
  <1>2. PICK s \in Starts[root[g]] : start' = [start EXCEPT ![g] = s]
    BY DEF ApplyDefaults
  <1>3. Becomes(start', start, g, s0)
    BY <1>1, <1>2 DEF Becomes
  <1>4. /\ \A h \in Goroutines : stack'[h] = IF h = g THEN <<f>> ELSE stack[h]
        /\ Becomes(pointers', pointers, g, s0.pointers) /\ Becomes(scalars', scalars, g, s0.scalars)
        /\ Becomes(result', result, g, "none") /\ root' = root
    BY <1>1 DEF ApplyDefaults, Becomes
  <1>5. FillOK(<<f>>, root[g], s0, s0.pointers, s0.scalars, "none")
    BY <1>1, FillStarts
  <1> HIDE DEF f, s0
  <1> QED BY <1>3, <1>4, <1>5, FillMoves

\* The struct of the running frame: its type is asked for.
LEMMA SetBeginsFills ==
    ASSUME CacheInv, FillInv, NEW g \in Goroutines, SetBegins(g)
    PROVE  FillInv'
  <1>1. InCall(g, "set") /\ Running(g) /\ Top(g).i = 0
    BY DEF SetBegins, InCall
  <1>2. Top(g).typ \in Types /\ Asked(Top(g)) = Top(g).typ
    BY <1>1, TopTyped DEF Asked
  <1>3. CASE Scan(g, Top(g).typ)
    BY <1>1, <1>2, <1>3, ScanFills
  <1>4. CASE Answers(g, Top(g).typ, FALSE) /\ SetReturns(g)
    <2>1. Plain(Top(g).typ)
      BY <1>2, <1>4, AnswerIsRight
    <2> QED BY <1>1, <1>4, <2>1, WalkReturnsFills
  <1>5. CASE Goes(g, Advanced(g)) /\ ValueKept /\ UNCHANGED result
    <2>1. Top(g).i \notin Seen(Top(g).typ) /\ Top(g).i \notin Held(Spot(Top(g)), pointers[g])
      <3>1. \A j \in Seen(Top(g).typ) : j # 0
        BY <1>2, FieldsTyped
      <3>2. Spot(Top(g))[2] = Top(g).typ
        BY DEF Spot
      <3> QED BY <1>1, <3>1, <3>2 DEF Held
    <2>2. FillOK(stack[g], root[g], start[g], pointers[g], scalars[g], "none") /\ stack[g] # << >>
      BY <1>1, TopFills
    <2>3. Kept(start[g], pointers[g], scalars[g])
          /\ (Tame(root[g]) => Walked(Fr(stack[g]), root[g], start[g], pointers[g], scalars[g]))
      BY <2>2 DEF FillOK
    <2>4. /\ stack' = [stack EXCEPT ![g] = Advanced(g)] /\ UNCHANGED <<root, start, pointers, result>>
          /\ Becomes(scalars', scalars, g, scalars[g])
      BY <1>5 DEF Goes, ValueKept, FillInv, Becomes
    <2> QED BY <1>1, <2>1, <2>3, <2>4, WalkGoesOnFills
  <1> QED BY <1>3, <1>4, <1>5 DEF SetBegins

\* A nil pointer: its type is asked for, and it stays or is given a struct.
LEMMA SetNilPointerFills ==
    ASSUME CacheInv, FillInv, NEW g \in Goroutines, SetNilPointer(g)
    PROVE  FillInv'
  <1> DEFINE top == Top(g)
  <1>1. /\ InField(g, "set") /\ InCall(g, "set") /\ Running(g) /\ top.i > 0 /\ ~Ended(g)
        /\ Field(g).exported /\ Field(g).kind = "pointer" /\ Place(g) \notin pointers[g]
    BY DEF SetNilPointer, InField, InCall
  <1>2. Field(g).of \in Types /\ Asked(top) = Field(g).of
    BY <1>1, FieldTyped
  <1>3. CASE Scan(g, Field(g).of)
    BY <1>1, <1>2, <1>3, ScanFills
  <1>4. CASE Answers(g, Field(g).of, FALSE) /\ SkipField(g)
    <2>1. Plain(Field(g).of)
      BY <1>2, <1>4, AnswerIsRight
    <2>2. /\ FillOK(stack[g], root[g], start[g], pointers[g], scalars[g], "none") /\ stack[g] # << >>
          /\ Field(g) = Fields[top.typ][top.i]
          /\ FieldAt(Spot(top), top.i) = <<Place(g), Field(g)>>
      BY <1>1, TopFills
    <2>3. Kept(start[g], pointers[g], scalars[g])
          /\ (Tame(root[g]) => Walked(Fr(stack[g]), root[g], start[g], pointers[g], scalars[g]))
      BY <2>2 DEF FillOK
    <2>4. /\ stack' = [stack EXCEPT ![g] = Advanced(g)] /\ UNCHANGED <<root, start, pointers, result>>
          /\ Becomes(scalars', scalars, g, scalars[g])
      BY <1>4 DEF SkipField, Goes, ValueKept, FillInv, Becomes
    <2>5. top.i \notin Held(Spot(top), pointers[g])
      <3>1. Spot(top)[1] = top.path /\ Spot(top)[2] = top.typ /\ Place(g) = Append(top.path, top.i)
        BY DEF Spot, Place
      <3> QED BY <1>1, <2>2, <3>1 DEF Held
    <2>6. Filled(FieldAt(Spot(top), top.i), start[g], pointers[g], scalars[g])
      BY <1>1, <2>1, <2>2 DEF Filled, Plain
    <2>7. Tame(Fields[top.typ][top.i].of)
      BY <2>1, <2>2 DEF Plain
    <2> QED BY <1>1, <2>3, <2>4, <2>5, <2>6, <2>7, WalkGoesOnFills
  <1>5. CASE /\ Answers(g, Field(g).of, TRUE)
             /\ pointers' = [pointers EXCEPT ![g] = @ \cup {Place(g)}]
             /\ Enter(g)
             /\ UNCHANGED <<defaultsCache, root, start, scalars, result>>
    <2>1. Field(g).of \in Carriers
      BY <1>2, <1>5, AnswerIsRight
    <2> QED BY <1>1, <1>5, <2>1, WalkEntersFills
  <1> QED BY <1>3, <1>4, <1>5 DEF SetNilPointer

\* Every step keeps the invariant.
LEMMA NextFillInv == CacheInv /\ FillInv /\ [Next]_vars => FillInv'
  <1> SUFFICES ASSUME CacheInv, FillInv, [Next]_vars PROVE FillInv'
    OBVIOUS
  <1>1. ASSUME NEW g \in Goroutines, ApplyDefaults(g) PROVE FillInv'
    BY <1>1, ApplyDefaultsFills
  <1>2. ASSUME NEW g \in Goroutines, ScanField(g) \/ ScanEnds(g) PROVE FillInv'
    BY <1>2, ScanStepFills
  <1>3. ASSUME NEW g \in Goroutines, SetBegins(g) PROVE FillInv'
    BY <1>3, SetBeginsFills
  <1>4. ASSUME NEW g \in Goroutines, SetEnds(g) PROVE FillInv'
    BY <1>4, WalkReturnsFills DEF SetEnds
  <1>5. ASSUME NEW g \in Goroutines, SetStruct(g) PROVE FillInv'
    BY <1>5, WalkEntersFills DEF SetStruct, ValueKept
  <1>6. ASSUME NEW g \in Goroutines, SetNilPointer(g) PROVE FillInv'
    BY <1>6, SetNilPointerFills
  <1>7. ASSUME NEW g \in Goroutines, SetScalar(g) PROVE FillInv'
    BY <1>7, SetScalarFills
  <1>8. ASSUME NEW g \in Goroutines, Overflow(g) PROVE FillInv'
    <2>1. /\ UNCHANGED <<stack, root, start, pointers, scalars>>
          /\ result' = [h \in Goroutines |-> "overflow"]
      BY <1>8 DEF Overflow
    <2>2. ASSUME NEW h \in Goroutines
          PROVE  FillOK(stack[h], root[h], start[h], pointers[h], scalars[h], "overflow")
      BY DEF FillInv, FillOK
    <2> QED BY <2>1, <2>2 DEF FillInv
  <1>9. CASE UNCHANGED vars
    BY <1>9 DEF vars, FillInv
  <1> QED BY <1>1, <1>2, <1>3, <1>4, <1>5, <1>6, <1>7, <1>8, <1>9 DEF Next, Step

\* What a walk that ended made of a value.
LEMMA WalkedIsComplete == FillInv => DefaultsAreComplete
  <1> SUFFICES ASSUME FillInv, NEW g \in Goroutines, result[g] = "ok"
               PROVE  /\ \A f \in FieldsIn(g) :
                           /\ f[2].kind = "scalar" /\ f[2].tag # "none" /\ f[1] \notin DOMAIN start[g].scalars
                                /\ Fits(f[2]) => Number(f[2], ScalarAt(scalars[g], f[1])) = f[2].num
                           /\ f[2].kind = "pointer" /\ f[2].of \in Carriers => f[1] \in pointers[g]
                      /\ start[g].pointers \subseteq pointers[g]
                      /\ \A p \in DOMAIN start[g].scalars : ScalarAt(scalars[g], p) = start[g].scalars[p]
                      /\ \A p \in pointers[g] \ start[g].pointers :
                           \E f \in FieldsIn(g) : f[1] = p /\ f[2].of \in Carriers
                      /\ \A p \in DOMAIN scalars[g] \ DOMAIN start[g].scalars :
                           \E f \in FieldsIn(g) : f[1] = p /\ f[2].tag = "good"
    BY DEF DefaultsAreComplete
  <1> DEFINE V == FieldsIn(g)
             s0 == start[g]
             ps == pointers[g]
             sc == scalars[g]
  <1>1. Kept(s0, ps, sc) /\ Walked(Fr(<< >>), root[g], s0, ps, sc) /\ V = Slots(root[g], ps)
    BY FieldsInAre DEF FillInv, FillOK
  <1>2. \A q : ~Ahead(q, Fr(<< >>))
    BY EmptySeq DEF Ahead, Fr
  <1> HIDE DEF V, s0, ps, sc
  <1>3. \A f \in V : Filled(f, s0, ps, sc)
    BY <1>1, <1>2 DEF Walked
  <1>4. /\ \A p \in ps \ s0.pointers : \E f \in V : f[1] = p /\ f[2].of \in Carriers
        /\ \A p \in DOMAIN sc \ DOMAIN s0.scalars : \E f \in V : f[1] = p /\ f[2].tag = "good"
    BY <1>1 DEF Walked, Made
  <1>5. /\ s0.pointers \subseteq ps
        /\ \A p \in DOMAIN s0.scalars : ScalarAt(sc, p) = s0.scalars[p]
    BY <1>1 DEF Kept, ScalarAt
  <1>6. \A f \in V :
           /\ f[2].kind = "scalar" /\ f[2].tag # "none" /\ f[1] \notin DOMAIN s0.scalars
                /\ Fits(f[2]) => Number(f[2], ScalarAt(sc, f[1])) = f[2].num
           /\ f[2].kind = "pointer" /\ f[2].of \in Carriers => f[1] \in ps
    BY <1>3 DEF Filled
  <1> QED BY <1>4, <1>5, <1>6 DEF V, s0, ps, sc

\* A walk that succeeds gives every tagged scalar that was zero its number, in the
\* structs that were there and behind the nil pointers whose types have defaults,
\* and makes nothing else, however the types are nested, whatever decoding left in
\* the struct and whatever other goroutines put in the cache meanwhile
\* (src/binding.go:56-184).
THEOREM DefaultsComplete == Spec => []DefaultsAreComplete
  <1>1. Init => CacheInv /\ FillInv
    <2> SUFFICES ASSUME Init PROVE FillInv
      BY InitCacheInv
    <2>1. ASSUME NEW g \in Goroutines
          PROVE  FillOK(stack[g], root[g], start[g], pointers[g], scalars[g], result[g])
      <3>1. /\ stack[g] = << >> /\ start[g] = [pointers |-> {}, scalars |-> << >>]
            /\ pointers[g] = {} /\ scalars[g] = << >> /\ result[g] = "none"
        BY DEF Init
      <3>2. Kept(start[g], pointers[g], scalars[g])
        BY <3>1 DEF Kept
      <3> QED BY <3>1, <3>2 DEF FillOK
    <2> QED BY <2>1 DEF Init, FillInv
  <1>2. CacheInv /\ FillInv /\ [Next]_vars => CacheInv' /\ FillInv'
    BY NextCacheInv, NextFillInv
  <1> QED BY <1>1, <1>2, WalkedIsComplete, PTL DEF Spec
=============================================================================
