------------------------- MODULE ConstructionProofs -------------------------
(***************************************************************************)
(* Theorems about Construction, for every set of options, however many a   *)
(* list has and however deep they are nested.                              *)
(***************************************************************************)
EXTENDS Construction, SequenceTheorems, WellFoundedInduction, TLAPS

-----------------------------------------------------------------------------
(* Induction over the natural numbers, and functions defined by recursion  *)
(* over them, for sets and functions                                       *)

\* A set with 0 and with the successor of each of its numbers has all numbers:
\* there is no smallest one outside.
LEMMA NatSetInduction ==
    ASSUME NEW S, 0 \in S, \A n \in Nat : n \in S => n + 1 \in S
    PROVE  Nat \subseteq S
  <1> DEFINE T == Nat \ S
             R == {ss \in Nat \X Nat : ss[1] < ss[2]}
  <1> SUFFICES ASSUME T # {} PROVE FALSE
    OBVIOUS
  <1>1. IsWellFoundedOn(R, Nat)
    BY NatLessThanWellFounded, Zenon DEF OpToRel
  <1>2. PICK x \in T : \A y \in T : ~(<<y, x>> \in R)
    <2>1. T \subseteq Nat
      OBVIOUS
    <2> HIDE DEF T, R
    <2> QED BY <1>1, <2>1, WFMin
  <1>3. \A y \in Nat : y < x => y \notin T
    BY <1>2
  <1>4. x # 0 /\ x - 1 \in Nat /\ x - 1 < x
    OBVIOUS
  <1> QED BY <1>3, <1>4

\* g starts with a value and goes on by a step from each value to the next.
FollowsSteps(g, N, first, step) ==
    \A n \in 0..N : g[n] = IF n = 0 THEN first ELSE step[<<g[n - 1], n>>]

\* A value for 0 and a step from each value to the next define a function on
\* 0..N.
LEMMA RecursiveFunctionExists ==
    ASSUME NEW N \in Nat, NEW D, NEW first \in D, NEW step \in [D \X Nat -> D]
    PROVE  \E g \in [0..N -> D] : FollowsSteps(g, N, first, step)
  <1> DEFINE Good(g, k) == \A n \in 0..k : g[n] = IF n = 0 THEN first ELSE step[<<g[n - 1], n>>]
             S == {k \in Nat : \E g \in [0..k -> D] : Good(g, k)}
  <1>1. 0 \in S
    <2>1. Good([n \in 0..0 |-> first], 0) /\ [n \in 0..0 |-> first] \in [0..0 -> D]
      OBVIOUS
    <2> QED BY <2>1
  <1>2. ASSUME NEW k \in Nat, k \in S PROVE k + 1 \in S
    <2>1. PICK g \in [0..k -> D] : Good(g, k)
      BY <1>2
    <2> DEFINE h == [n \in 0..k + 1 |-> IF n = k + 1 THEN step[<<g[k], k + 1>>] ELSE g[n]]
    <2>2. step[<<g[k], k + 1>>] \in D
      OBVIOUS
    <2>3. h \in [0..k + 1 -> D]
      BY <2>2
    <2>4. \A n \in 0..k : h[n] = g[n]
      OBVIOUS
    <2>5. h[k + 1] = step[<<g[k], k + 1>>]
      OBVIOUS
    <2> HIDE DEF h
    <2>6. ASSUME NEW n \in 0..k + 1
          PROVE  h[n] = IF n = 0 THEN first ELSE step[<<h[n - 1], n>>]
      <3>1. CASE n = k + 1
        <4>1. n - 1 = k /\ n # 0 /\ k \in 0..k
          BY <3>1
        <4>2. h[n - 1] = g[k]
          BY <2>4, <4>1
        <4> QED BY <2>5, <3>1, <4>1, <4>2
      <3>2. CASE n \in 0..k
        <4>1. n # 0 => n - 1 \in 0..k
          BY <3>2
        <4>2. g[n] = IF n = 0 THEN first ELSE step[<<g[n - 1], n>>]
          BY <2>1, <3>2
        <4> QED BY <2>4, <3>2, <4>1, <4>2
      <3> QED BY <3>1, <3>2
    <2>7. Good(h, k + 1)
      BY <2>6
    <2> HIDE DEF Good
    <2> QED BY <2>3, <2>7
  <1>3. N \in S
    <2> HIDE DEF S
    <2> QED BY <1>1, <1>2, NatSetInduction
  <1>4. PICK g \in [0..N -> D] : Good(g, N)
    BY <1>3
  <1> WITNESS g \in [0..N -> D]
  <1> QED BY <1>4 DEF FollowsSteps

-----------------------------------------------------------------------------
(* The concatenation of a sequence of sequences                            *)

\* It is built up one sequence after the other.
Builds(f, seqs) ==
    \A i \in 1..Len(seqs) : f[i] = IF i = 1 THEN seqs[1] ELSE f[i - 1] \o seqs[i]

\* FlattenSeq folds a sequence of sequences from the left.
LEMMA FlattenBuilds ==
    ASSUME NEW D, NEW seqs \in Seq(Seq(D)), seqs # << >>
    PROVE  \E f \in [1..Len(seqs) -> Seq(D)] : Builds(f, seqs) /\ FlattenSeq(seqs) = f[Len(seqs)]
  <1> DEFINE N == Len(seqs)
             Goes(f) == f = [i \in 1..N |-> IF i = 1 THEN seqs[i] ELSE f[i - 1] \o seqs[i]]
             step == [x \in Seq(D) \X Nat |-> IF x[2] \in 1..N THEN x[1] \o seqs[x[2]] ELSE x[1]]
  <1>1. N \in Nat /\ N # 0 /\ \A i \in 1..N : seqs[i] \in Seq(D)
    OBVIOUS
  <1>2. \A s, t \in Seq(D) : s \o t \in Seq(D)
    BY ConcatProperties
  <1>3. << >> \in Seq(D) /\ \A s \in Seq(D) : << >> \o s = s
    BY EmptySeq, ConcatEmptySeq
  <1>4. step \in [Seq(D) \X Nat -> Seq(D)]
    BY <1>1, <1>2
  <1>5. \A s \in Seq(D), n \in 1..N : step[<<s, n>>] = s \o seqs[n]
    <2> TAKE s \in Seq(D), n \in 1..N
    <2>1. <<s, n>> \in Seq(D) \X Nat /\ <<s, n>>[1] = s /\ <<s, n>>[2] = n
      BY <1>1
    <2> HIDE DEF N
    <2> QED BY <2>1, Zenon
  <1>6. PICK g \in [0..N -> Seq(D)] : FollowsSteps(g, N, << >>, step)
    <2> HIDE DEF N, step
    <2> QED BY <1>1, <1>3, <1>4, RecursiveFunctionExists
  <1> HIDE DEF step
  <1>7. g[0] = << >> /\ \A n \in 1..N : g[n] = g[n - 1] \o seqs[n]
    <2>1. g[0] = << >>
      <3>1. 0 \in 0..N
        BY <1>1
      <3> QED BY <1>6, <3>1, Zenon DEF FollowsSteps
    <2>2. ASSUME NEW n \in 1..N PROVE g[n] = g[n - 1] \o seqs[n]
      <3>1. n \in 0..N /\ n # 0 /\ n - 1 \in 0..N
        BY <1>1
      <3>2. g[n] = step[<<g[n - 1], n>>]
        BY <1>6, <3>1 DEF FollowsSteps
      <3> QED BY <1>5, <3>1, <3>2
    <2> QED BY <2>1, <2>2
  <1> DEFINE f == [i \in 1..N |-> g[i]]
  <1>8. f \in [1..N -> Seq(D)]
    BY <1>1
  <1>9. ASSUME NEW i \in 1..N PROVE f[i] = IF i = 1 THEN seqs[i] ELSE f[i - 1] \o seqs[i]
    <2>1. CASE i = 1
      <3>1. g[1] = g[0] \o seqs[1] /\ seqs[1] \in Seq(D)
        <4>1. 1 \in 1..N /\ 1 - 1 = 0
          BY <1>1
        <4> HIDE DEF N
        <4> QED BY <1>1, <1>7, <4>1
      <3>2. g[1] = seqs[1]
        BY <1>3, <1>7, <3>1
      <3> QED BY <2>1, <3>2
    <2>2. CASE i # 1
      <3>1. i - 1 \in 1..N
        BY <2>2
      <3> QED BY <1>7, <2>2, <3>1
    <2> QED BY <2>1, <2>2
  <1>10. Goes(f)
    <2> HIDE DEF N
    <2>1. f = [i \in 1..N |-> f[i]]
      OBVIOUS
    <2> HIDE DEF f
    <2> QED BY <1>9, <2>1
  <1>11. ASSUME NEW h, Goes(h) PROVE h = f
    <2> DEFINE S == {n \in Nat : n + 1 \in 1..N => h[n + 1] = f[n + 1]}
    <2>1. \A i \in 1..N : h[i] = IF i = 1 THEN seqs[i] ELSE h[i - 1] \o seqs[i]
      BY <1>11, Zenon
    <2> HIDE DEF f, N
    <2>2. 0 \in S
      BY <1>9, <2>1
    <2>3. ASSUME NEW n \in Nat, n \in S PROVE n + 1 \in S
      <3>1. CASE n + 2 \in 1..N
        <4>1. n + 1 \in 1..N /\ (n + 2) - 1 = n + 1 /\ n + 2 # 1
          BY <1>1, <3>1
        <4>2. h[n + 1] = f[n + 1]
          BY <2>3, <4>1
        <4>3. h[n + 2] = h[n + 1] \o seqs[n + 2]
          BY <2>1, <3>1, <4>1
        <4>4. f[n + 2] = f[n + 1] \o seqs[n + 2]
          BY <1>9, <3>1, <4>1
        <4>5. (n + 1) + 1 = n + 2
          OBVIOUS
        <4>6. h[n + 2] = f[n + 2]
          BY <4>2, <4>3, <4>4
        <4>7. h[(n + 1) + 1] = f[(n + 1) + 1] /\ n + 1 \in Nat
          BY <4>5, <4>6
        <4> QED BY <4>7
      <3>2. CASE ~(n + 2 \in 1..N)
        BY <3>2
      <3> QED BY <3>1, <3>2
    <2>4. Nat \subseteq S
      <3> HIDE DEF S
      <3> QED BY <2>2, <2>3, NatSetInduction
    <2>5. \A i \in 1..N : h[i] = f[i]
      <3> TAKE i \in 1..N
      <3>1. i - 1 \in Nat /\ (i - 1) + 1 = i
        BY <1>1
      <3>2. i - 1 \in S
        BY <2>4, <3>1
      <3> QED BY <3>1, <3>2
    <2>6. h = [i \in 1..N |-> h[i]]
      BY <1>11
    <2>7. f = [i \in 1..N |-> f[i]]
      BY <1>8
    <2> QED BY <2>5, <2>6, <2>7
  <1>12. (CHOOSE h : Goes(h)) = f
    <2> HIDE DEF Goes, f
    <2> QED BY <1>10, <1>11
  <1>13. FlattenSeq(seqs) = (CHOOSE h : Goes(h))[N]
    BY <1>1, Zenon DEF FlattenSeq
  <1>14. Builds(f, seqs)
    <2> HIDE DEF f
    <2> QED BY <1>9 DEF Builds
  <1> HIDE DEF f, Goes
  <1> QED BY <1>8, <1>12, <1>13, <1>14

\* It makes a sequence of what these hold.
LEMMA FlattenTyped ==
    ASSUME NEW D, NEW seqs \in Seq(Seq(D))
    PROVE  FlattenSeq(seqs) \in Seq(D)
  <1>1. CASE seqs = << >>
    <2>1. FlattenSeq(seqs) = << >>
      BY <1>1 DEF FlattenSeq
    <2> QED BY <2>1, EmptySeq
  <1>2. CASE seqs # << >>
    <2>1. Len(seqs) \in 1..Len(seqs)
      BY <1>2
    <2>2. PICK f \in [1..Len(seqs) -> Seq(D)] : FlattenSeq(seqs) = f[Len(seqs)]
      BY <1>2, FlattenBuilds
    <2> QED BY <2>1, <2>2
  <1> QED BY <1>1, <1>2

\* There is nothing in no sequences.
LEMMA FlattenEmpty == FlattenSeq(<< >>) = << >>
  BY DEF FlattenSeq

\* One more sequence comes after all the others.
LEMMA FlattenAppend ==
    ASSUME NEW D, NEW seqs \in Seq(Seq(D)), NEW s \in Seq(D)
    PROVE  FlattenSeq(Append(seqs, s)) = FlattenSeq(seqs) \o s
  <1> DEFINE more == Append(seqs, s)
             N == Len(seqs)
  <1>1. /\ more \in Seq(Seq(D)) /\ more # << >> /\ Len(more) = N + 1 /\ N \in Nat
        /\ \A i \in 1..N : more[i] = seqs[i]
        /\ more[N + 1] = s
    BY AppendProperties
  <1> HIDE DEF more
  <1>2. PICK h \in [1..N + 1 -> Seq(D)] : Builds(h, more) /\ FlattenSeq(more) = h[N + 1]
    BY <1>1, FlattenBuilds
  <1>3. N + 1 \in 1..N + 1 /\ (N + 1) - 1 = N
    BY <1>1
  <1>4. CASE seqs = << >>
    <2>1. N = 0 /\ FlattenSeq(seqs) = << >> /\ << >> \o s = s
      BY <1>4, FlattenEmpty, ConcatEmptySeq
    <2>2. h[1] = more[1]
      BY <1>1, <1>2, <1>3, <2>1 DEF Builds
    <2> QED BY <1>1, <1>2, <2>1, <2>2 DEF more
  <1>5. CASE seqs # << >>
    <2>1. PICK f \in [1..N -> Seq(D)] : Builds(f, seqs) /\ FlattenSeq(seqs) = f[N]
      BY <1>5, FlattenBuilds
    <2>2. N # 0
      BY <1>5
    <2> HIDE DEF N
    <2> DEFINE S == {n \in Nat : n + 1 \in 1..N => h[n + 1] = f[n + 1]}
    <2>3. 0 \in S
      <3>1. 1 \in 1..N /\ 1 \in 1..N + 1 /\ Len(more) = N + 1 /\ 0 + 1 = 1
        BY <1>1, <2>2
      <3>2. h[1] = more[1] /\ f[1] = seqs[1]
        BY <1>2, <2>1, <3>1 DEF Builds, N
      <3> QED BY <1>1, <3>1, <3>2
    <2>4. ASSUME NEW n \in Nat, n \in S PROVE n + 1 \in S
      <3>1. CASE n + 2 \in 1..N
        <4>1. n + 1 \in 1..N /\ n + 2 \in 1..N + 1 /\ (n + 2) - 1 = n + 1 /\ n + 2 # 1 /\ (n + 1) + 1 = n + 2
          BY <1>1, <3>1
        <4>2. h[n + 1] = f[n + 1]
          BY <2>4, <4>1
        <4>3. h[n + 2] = h[n + 1] \o more[n + 2]
          BY <1>1, <1>2, <4>1 DEF Builds
        <4>4. f[n + 2] = f[n + 1] \o seqs[n + 2]
          BY <2>1, <3>1, <4>1 DEF Builds, N
        <4>5. h[n + 2] = f[n + 2]
          BY <1>1, <3>1, <4>2, <4>3, <4>4
        <4>6. h[(n + 1) + 1] = f[(n + 1) + 1] /\ n + 1 \in Nat
          BY <4>1, <4>5
        <4> QED BY <4>6
      <3>2. CASE ~(n + 2 \in 1..N)
        BY <3>2
      <3> QED BY <3>1, <3>2
    <2>5. Nat \subseteq S
      <3> HIDE DEF S
      <3> QED BY <2>3, <2>4, NatSetInduction
    <2>6. h[N] = f[N]
      <3>1. N - 1 \in Nat /\ (N - 1) + 1 = N /\ N \in 1..N
        BY <1>1, <2>2
      <3>2. N - 1 \in S
        BY <2>5, <3>1
      <3> QED BY <3>1, <3>2
    <2>7. h[N + 1] = h[N] \o more[N + 1]
      <3>1. N + 1 # 1
        BY <1>1, <2>2
      <3> QED BY <1>1, <1>2, <1>3, <3>1 DEF Builds
    <2> QED BY <1>1, <1>2, <2>1, <2>6, <2>7 DEF more
  <1> QED BY <1>4, <1>5

\* A single sequence is what it is.
LEMMA FlattenOne ==
    ASSUME NEW D, NEW s \in Seq(D)
    PROVE  FlattenSeq(<<s>>) = s
  <1>1. << >> \in Seq(Seq(D)) /\ Append(<< >>, s) = <<s>>
    BY EmptySeq
  <1>2. FlattenSeq(<<s>>) = << >> \o s
    BY <1>1, FlattenAppend, FlattenEmpty
  <1> QED BY <1>2, ConcatEmptySeq

\* FlattenSeq distributes over concatenation.
LEMMA FlattenConcat ==
    ASSUME NEW D, NEW a \in Seq(Seq(D)), NEW b \in Seq(Seq(D))
    PROVE  FlattenSeq(a \o b) = FlattenSeq(a) \o FlattenSeq(b)
  <1>5. \A x, y, z \in Seq(D) : (x \o y) \o z = x \o (y \o z)
    BY ConcatAssociative, SMTT(30)
  <1> DEFINE E == Seq(D)
             S == {n \in Nat : \A t \in Seq(E) : Len(t) = n =>
                                  FlattenSeq(a \o t) = FlattenSeq(a) \o FlattenSeq(t)}
  <1>1. 0 \in S
    <2>1. ASSUME NEW t \in Seq(E), Len(t) = 0 PROVE FlattenSeq(a \o t) = FlattenSeq(a) \o FlattenSeq(t)
      <3>1. t = << >> /\ FlattenSeq(a) \in Seq(D)
        BY <2>1, EmptySeq, FlattenTyped
      <3> QED BY <3>1, ConcatEmptySeq, FlattenEmpty
    <2> QED BY <2>1
  <1>2. ASSUME NEW n \in Nat, n \in S PROVE n + 1 \in S
    <2>1. ASSUME NEW t \in Seq(E), Len(t) = n + 1
          PROVE  FlattenSeq(a \o t) = FlattenSeq(a) \o FlattenSeq(t)
      <3>1. t # << >>
        BY <2>1
      <3>2. PICK u \in Seq(E), s \in E : t = Append(u, s)
        BY <3>1, SequenceEmptyOrAppend
      <3>3. Len(u) = n
        BY <2>1, <3>2, AppendProperties
      <3>4. FlattenSeq(a \o u) = FlattenSeq(a) \o FlattenSeq(u)
        BY <1>2, <3>3
      <3>5. a \o t = Append(a \o u, s) /\ a \o u \in Seq(E)
        <4>1. <<s>> \in Seq(E) /\ u \o <<s>> = t
          BY <3>2, AppendIsConcat
        <4>2. a \o u \in Seq(E)
          BY ConcatProperties
        <4>3. (a \o u) \o <<s>> = Append(a \o u, s)
          BY <4>2, AppendIsConcat
        <4> HIDE DEF E
        <4>4. (a \o u) \o <<s>> = a \o (u \o <<s>>)
          BY <4>1, ConcatAssociative, SMTT(30)
        <4> QED BY <4>1, <4>2, <4>3, <4>4
      <3>6. FlattenSeq(a \o t) = (FlattenSeq(a) \o FlattenSeq(u)) \o s
        <4>1. FlattenSeq(Append(a \o u, s)) = FlattenSeq(a \o u) \o s
          BY <3>2, <3>5, FlattenAppend
        <4> QED BY <3>4, <3>5, <4>1
      <3>7. FlattenSeq(t) = FlattenSeq(u) \o s
        BY <3>2, FlattenAppend
      <3>8. FlattenSeq(a) \in Seq(D) /\ FlattenSeq(u) \in Seq(D)
        BY FlattenTyped
      <3>9. (FlattenSeq(a) \o FlattenSeq(u)) \o s = FlattenSeq(a) \o (FlattenSeq(u) \o s)
        <4>1. \A x, y, z \in Seq(D) : (x \o y) \o z = x \o (y \o z)
          BY <1>5
        <4>2. s \in Seq(D)
          OBVIOUS
        <4> QED BY <3>8, <4>1, <4>2, Zenon
      <3> QED BY <3>6, <3>7, <3>9
    <2> QED BY <2>1
  <1>3. Nat \subseteq S
    <2> HIDE DEF S
    <2> QED BY <1>1, <1>2, NatSetInduction
  <1>4. Len(b) \in S
    BY <1>3
  <1> QED BY <1>4

\* Each element of a sequence is replaced by what g has for it, and by the
\* elements of that.
Images(g, items) == [i \in DOMAIN items |-> g[items[i]]]
Mapped(g, items) == FlattenSeq(Images(g, items))

\* The images of a sequence, one by one.
LEMMA ImagesAre ==
    ASSUME NEW I, NEW g, NEW a \in Seq(I)
    PROVE  /\ Len(Images(g, a)) = Len(a)
           /\ \A i \in 1..Len(a) : Images(g, a)[i] = g[a[i]]
  BY DEF Images

\* The images are values of the function.
LEMMA ImagesTyped ==
    ASSUME NEW I, NEW Y, NEW g \in [I -> Y], NEW a \in Seq(I)
    PROVE  Images(g, a) \in Seq(Y)
  <1>1. DOMAIN a = 1..Len(a) /\ Len(a) \in Nat /\ \A i \in 1..Len(a) : a[i] \in I
    OBVIOUS
  <1>2. [i \in 1..Len(a) |-> g[a[i]]] \in [1..Len(a) -> Y]
    BY <1>1
  <1> QED BY <1>1, <1>2 DEF Images

\* Mapped makes a sequence of what the values of g hold.
LEMMA MappedTyped ==
    ASSUME NEW I, NEW D, NEW g \in [I -> Seq(D)], NEW a \in Seq(I)
    PROVE  Mapped(g, a) \in Seq(D)
  <1>1. Images(g, a) \in Seq(Seq(D))
    BY ImagesTyped
  <1> QED BY <1>1, FlattenTyped DEF Mapped

\* Mapped distributes over concatenation.
LEMMA MappedConcat ==
    ASSUME NEW I, NEW D, NEW g \in [I -> Seq(D)], NEW a \in Seq(I), NEW b \in Seq(I)
    PROVE  Mapped(g, a \o b) = Mapped(g, a) \o Mapped(g, b)
  <1> DEFINE Seqs == Seq(D)
  <1>1. \A s \in Seq(I) : /\ Images(g, s) \in Seq(Seqs)
                          /\ Len(Images(g, s)) = Len(s)
                          /\ \A i \in 1..Len(s) : Images(g, s)[i] = g[s[i]]
    <2>1. g \in [I -> Seqs]
      OBVIOUS
    <2> HIDE DEF Seqs
    <2> TAKE s \in Seq(I)
    <2>2. Images(g, s) \in Seq(Seqs)
      BY <2>1, ImagesTyped
    <2>3. Len(Images(g, s)) = Len(s) /\ \A i \in 1..Len(s) : Images(g, s)[i] = g[s[i]]
      BY ImagesAre
    <2> QED BY <2>2, <2>3
  <1>2. /\ a \o b \in Seq(I) /\ Len(a \o b) = Len(a) + Len(b)
        /\ \A i \in 1..Len(a) + Len(b) : (a \o b)[i] = IF i <= Len(a) THEN a[i] ELSE b[i - Len(a)]
    BY ConcatProperties
  <1>3. \A u, v \in Seq(Seqs) :
           /\ u \o v \in Seq(Seqs) /\ Len(u \o v) = Len(u) + Len(v)
           /\ \A i \in 1..Len(u) + Len(v) : (u \o v)[i] = IF i <= Len(u) THEN u[i] ELSE v[i - Len(u)]
    BY ConcatProperties
  <1> HIDE DEF Seqs
  <1> DEFINE u == Images(g, a)
             v == Images(g, b)
             w == Images(g, a \o b)
  <1>4. u \in Seq(Seqs) /\ v \in Seq(Seqs) /\ w \in Seq(Seqs)
    BY <1>1, <1>2
  <1>5. Len(u) = Len(a) /\ Len(v) = Len(b) /\ Len(w) = Len(a) + Len(b)
    BY <1>1, <1>2
  <1>6. ASSUME NEW i \in 1..Len(a) + Len(b) PROVE w[i] = (u \o v)[i]
    <2>1. w[i] = g[(a \o b)[i]]
      BY <1>1, <1>2
    <2>2. CASE i <= Len(a)
      <3>1. i \in 1..Len(a)
        BY <2>2
      <3>2. u[i] = g[a[i]]
        BY <1>1, <3>1
      <3> HIDE DEF u, v, w
      <3> QED BY <1>2, <1>3, <1>4, <1>5, <2>1, <2>2, <3>2
    <2>3. CASE ~(i <= Len(a))
      <3>1. i - Len(a) \in 1..Len(b)
        BY <2>3
      <3>2. v[i - Len(a)] = g[b[i - Len(a)]]
        BY <1>1, <3>1
      <3> HIDE DEF u, v, w
      <3> QED BY <1>2, <1>3, <1>4, <1>5, <2>1, <2>3, <3>2
    <2> QED BY <2>2, <2>3
  <1> HIDE DEF u, v, w
  <1>7. w = u \o v
    <2>1. /\ u \o v \in Seq(Seqs) /\ Len(w) = Len(u \o v)
          /\ \A i \in 1..Len(w) : w[i] = (u \o v)[i]
      BY <1>3, <1>4, <1>5, <1>6, SMTT(30)
    <2> QED BY <1>4, <2>1, SeqEqual
  <1>8. FlattenSeq(u \o v) = FlattenSeq(u) \o FlattenSeq(v)
    BY <1>4, FlattenConcat DEF Seqs
  <1> QED BY <1>7, <1>8 DEF Mapped, u, v, w

\* Mapped of one item, and of none.
LEMMA MappedOne ==
    ASSUME NEW I, NEW D, NEW g \in [I -> Seq(D)], NEW x \in I
    PROVE  Mapped(g, <<x>>) = g[x] /\ Mapped(g, << >>) = << >>
  <1>1. Images(g, <<x>>) = <<g[x]>>
    BY DEF Images
  <1>2. Images(g, << >>) = << >>
    BY DEF Images
  <1>3. g[x] \in Seq(D)
    OBVIOUS
  <1>4. FlattenSeq(<<g[x]>>) = g[x]
    BY <1>3, FlattenOne
  <1> QED BY <1>1, <1>2, <1>4, FlattenEmpty DEF Mapped

-----------------------------------------------------------------------------
(* The options of a call, flattened                                        *)

\* A list of options makes items, wherever it is nested.
LEMMA ItemsTyped ==
    ASSUME NEW list \in Seq(Options), NEW under \in Seq(Nat)
    PROVE  Items(list, under) \in Seq(Item)
  <1>1. DOMAIN list = 1..Len(list) /\ Len(list) \in Nat /\ \A i \in 1..Len(list) : list[i] \in Options
    OBVIOUS
  <1>2. \A i \in 1..Len(list) : Append(under, i) \in Seq(Nat) \ {<< >>}
    BY AppendProperties
  <1>3. \A i \in 1..Len(list) : [at |-> Append(under, i), opt |-> list[i]] \in Item
    BY <1>1, <1>2 DEF Item
  <1>4. Items(list, under) \in [1..Len(list) -> Item]
    BY <1>1, <1>3 DEF Items
  <1> QED BY <1>1, <1>4

\* What the assumption on the options says of one of them.
LEMMA OptionFields ==
    ASSUME NEW o \in Options
    PROVE  /\ o.kind \in ReadsPath \cup Plain \cup {"if", "nil"}
           /\ o.usable \in BOOLEAN
           /\ o.inner \in Seq(Options)
           /\ o.kind \in {"file", "fileAs", "fileDumper", "fileDumperAs"} => o.usable
           /\ o.kind = "nil" => ~o.usable
  BY OptionsAssumption DEF NilOption

\* An item stands for items.
LEMMA InnerTyped == ASSUME NEW x \in Item PROVE Inner(x) \in Seq(Item)
  <1>1. x.opt \in Options /\ x.at \in Seq(Nat)
    BY DEF Item
  <1>2. Items(x.opt.inner, x.at) \in Seq(Item)
    BY <1>1, OptionFields, ItemsTyped
  <1> QED BY <1>2 DEF Inner

\* Opening items makes items.
LEMMA OpenedTyped == ASSUME NEW a \in Seq(Item) PROVE Opened(a) \in Seq(Item)
  <1> DEFINE g == [x \in Item |-> Inner(x)]
  <1>1. g \in [Item -> Seq(Item)]
    BY InnerTyped
  <1>2. [i \in DOMAIN a |-> Inner(a[i])] = [i \in DOMAIN a |-> g[a[i]]]
    OBVIOUS
  <1>3. Opened(a) = Mapped(g, a)
    BY <1>2 DEF Opened, Mapped, Images
  <1> HIDE DEF g
  <1> QED BY <1>1, <1>3, MappedTyped

\* Lists of items are opened one after the other.
LEMMA OpenedConcat ==
    ASSUME NEW a \in Seq(Item), NEW b \in Seq(Item)
    PROVE  Opened(a \o b) = Opened(a) \o Opened(b)
  <1> DEFINE g == [x \in Item |-> Inner(x)]
  <1>1. g \in [Item -> Seq(Item)]
    BY InnerTyped
  <1>2. ASSUME NEW s \in Seq(Item) PROVE Opened(s) = Mapped(g, s)
    <2>1. [i \in DOMAIN s |-> Inner(s[i])] = [i \in DOMAIN s |-> g[s[i]]]
      OBVIOUS
    <2> QED BY <2>1 DEF Opened, Mapped, Images
  <1>3. a \o b \in Seq(Item)
    BY ConcatProperties
  <1> HIDE DEF g
  <1>4. Mapped(g, a \o b) = Mapped(g, a) \o Mapped(g, b)
    BY <1>1, MappedConcat
  <1>5. Opened(a) = Mapped(g, a) /\ Opened(b) = Mapped(g, b) /\ Opened(a \o b) = Mapped(g, a \o b)
    BY <1>2, <1>3
  <1> QED BY <1>4, <1>5

\* One item is opened, and none.
LEMMA OpenedOne ==
    ASSUME NEW x \in Item
    PROVE  Opened(<<x>>) = Inner(x) /\ Opened(<< >>) = << >>
  <1>1. [i \in DOMAIN <<x>> |-> Inner(<<x>>[i])] = <<Inner(x)>>
    OBVIOUS
  <1>2. FlattenSeq(<<Inner(x)>>) = Inner(x)
    BY InnerTyped, FlattenOne
  <1>3. [i \in DOMAIN << >> |-> Inner(<< >>[i])] = << >>
    OBVIOUS
  <1> QED BY <1>1, <1>2, <1>3, FlattenEmpty DEF Opened

\* No WithIf is left in the items.
Plainly(items) == \A i \in 1..Len(items) : items[i].opt.kind # "if"

\* A list without WithIf is open already.
LEMMA OpenedPlain ==
    ASSUME NEW a \in Seq(Item), Plainly(a)
    PROVE  Opened(a) = a
  <1> DEFINE S == {n \in Nat : \A s \in Seq(Item) : Len(s) = n /\ Plainly(s) => Opened(s) = s}
  <1>1. 0 \in S
    <2>1. ASSUME NEW s \in Seq(Item), Len(s) = 0 PROVE Opened(s) = s
      <3>1. s = << >>
        BY <2>1
      <3> QED BY <3>1, FlattenEmpty DEF Opened
    <2> QED BY <2>1
  <1>2. ASSUME NEW n \in Nat, n \in S PROVE n + 1 \in S
    <2>1. ASSUME NEW s \in Seq(Item), Len(s) = n + 1, Plainly(s) PROVE Opened(s) = s
      <3>1. s # << >>
        BY <2>1
      <3>2. PICK t \in Seq(Item), x \in Item : s = Append(t, x)
        BY <3>1, SequenceEmptyOrAppend
      <3>3. Len(t) = n /\ Len(s) = n + 1 /\ \A i \in 1..n : s[i] = t[i]
        BY <2>1, <3>2, AppendProperties
      <3>4. s[n + 1] = x
        BY <3>2, <3>3, AppendProperties
      <3>5. Plainly(t) /\ x.opt.kind # "if"
        BY <2>1, <3>3, <3>4 DEF Plainly
      <3>6. Opened(t) = t
        BY <1>2, <3>3, <3>5
      <3>7. Opened(<<x>>) = <<x>>
        BY <3>5, OpenedOne DEF Inner
      <3>8. s = t \o <<x>> /\ <<x>> \in Seq(Item)
        BY <3>2, AppendIsConcat
      <3> QED BY <3>6, <3>7, <3>8, OpenedConcat
    <2> QED BY <2>1
  <1>3. Nat \subseteq S
    <2> HIDE DEF S
    <2> QED BY <1>1, <1>2, NatSetInduction
  <1>4. Len(a) \in S
    BY <1>3
  <1> QED BY <1>4

\* f opens the items again and again.
Opens(f, items) ==
    /\ f \in [0..Nesting -> Seq(Item)]
    /\ f[0] = items
    /\ \A n \in 1..Nesting : f[n] = Opened(f[n - 1])

\* Flat opens a list Nesting times.
LEMMA FlatOpens ==
    ASSUME NEW a \in Seq(Item)
    PROVE  \E f : Opens(f, a) /\ Flat(a) = f[Nesting]
  <1> DEFINE N == Nesting
             Goes(f) == f = [n \in 0..N |-> IF n = 0 THEN a ELSE Opened(f[n - 1])]
             step == [x \in Seq(Item) \X Nat |-> Opened(x[1])]
  <1>1. N \in Nat
    BY NestingAssumption
  <1>2. step \in [Seq(Item) \X Nat -> Seq(Item)]
    BY OpenedTyped
  <1>3. \A s \in Seq(Item), n \in Nat : step[<<s, n>>] = Opened(s)
    OBVIOUS
  <1> HIDE DEF N, step
  <1>4. PICK g \in [0..N -> Seq(Item)] : FollowsSteps(g, N, a, step)
    BY <1>1, <1>2, RecursiveFunctionExists
  <1>5. ASSUME NEW n \in 0..N PROVE g[n] = IF n = 0 THEN a ELSE Opened(g[n - 1])
    <2>1. g[n] = IF n = 0 THEN a ELSE step[<<g[n - 1], n>>]
      BY <1>4 DEF FollowsSteps
    <2>2. n # 0 => n - 1 \in 0..N /\ n \in Nat
      BY <1>1
    <2> QED BY <1>3, <2>1, <2>2
  <1>6. Goes(g)
    <2>1. g = [n \in 0..N |-> g[n]]
      OBVIOUS
    <2> QED BY <1>5, <2>1
  <1>7. ASSUME NEW h, Goes(h) PROVE h = g
    <2> DEFINE T == {n \in Nat : n \in 0..N => h[n] = g[n]}
    <2>1. \A n \in 0..N : h[n] = IF n = 0 THEN a ELSE Opened(h[n - 1])
      BY <1>7, Zenon
    <2>2. 0 \in T
      BY <1>5, <2>1
    <2>3. ASSUME NEW n \in Nat, n \in T PROVE n + 1 \in T
      <3>1. CASE n + 1 \in 0..N
        <4>1. n \in 0..N /\ (n + 1) - 1 = n /\ n + 1 # 0
          BY <1>1, <3>1
        <4> QED BY <1>5, <2>1, <2>3, <3>1, <4>1
      <3>2. CASE ~(n + 1 \in 0..N)
        BY <3>2
      <3> QED BY <3>1, <3>2
    <2>4. Nat \subseteq T
      <3> HIDE DEF T
      <3> QED BY <2>2, <2>3, NatSetInduction
    <2>5. \A n \in 0..N : h[n] = g[n]
      BY <2>4
    <2>6. h = [n \in 0..N |-> h[n]] /\ g = [n \in 0..N |-> g[n]]
      BY <1>7
    <2> QED BY <2>5, <2>6
  <1>8. (CHOOSE h : Goes(h)) = g
    <2> HIDE DEF Goes
    <2> QED BY <1>6, <1>7
  <1>9. Flat(a) = (CHOOSE h : Goes(h))[N]
    BY Zenon DEF Flat, N
  <1>10. Opens(g, a)
    <2>1. \A n \in 1..N : n \in 0..N /\ n # 0
      OBVIOUS
    <2>2. 0 \in 0..N
      BY <1>1
    <2>3. g[0] = a /\ \A n \in 1..N : g[n] = Opened(g[n - 1])
      BY <1>5, <2>1, <2>2
    <2> QED BY <2>3 DEF Opens, N
  <1> QED BY <1>8, <1>9, <1>10 DEF N

\* A flat list is one of items.
LEMMA FlatTyped == ASSUME NEW a \in Seq(Item) PROVE Flat(a) \in Seq(Item)
  <1>1. PICK f : Opens(f, a) /\ Flat(a) = f[Nesting]
    BY FlatOpens
  <1> QED BY <1>1, NestingAssumption DEF Opens

\* A property of the numbers up to Nesting, as the set that has it.
LEMMA UpToNesting ==
    ASSUME NEW S, 0 \in S, \A n \in 1..Nesting : n - 1 \in S => n \in S
    PROVE  Nesting \in S
  <1> DEFINE T == {n \in Nat : n \in 0..Nesting => n \in S}
  <1>1. 0 \in T
    OBVIOUS
  <1>2. ASSUME NEW n \in Nat, n \in T PROVE n + 1 \in T
    <2>1. CASE n + 1 \in 0..Nesting
      <3>1. n \in 0..Nesting /\ n + 1 \in 1..Nesting /\ (n + 1) - 1 = n
        BY <2>1, NestingAssumption
      <3>2. n \in S
        BY <1>2, <3>1
      <3>3. n + 1 \in S
        BY <3>1, <3>2
      <3> QED BY <3>3
    <2>2. CASE ~(n + 1 \in 0..Nesting)
      BY <2>2
    <2> QED BY <2>1, <2>2
  <1>3. Nat \subseteq T
    <2> HIDE DEF T
    <2> QED BY <1>1, <1>2, NatSetInduction
  <1>4. Nesting \in T
    BY <1>3, NestingAssumption
  <1> QED BY <1>4, NestingAssumption

\* Lists of items are made flat one after the other.
LEMMA FlatConcat ==
    ASSUME NEW a \in Seq(Item), NEW b \in Seq(Item)
    PROVE  Flat(a \o b) = Flat(a) \o Flat(b)
  <1>1. a \o b \in Seq(Item)
    BY ConcatProperties
  <1>2. PICK f : Opens(f, a) /\ Flat(a) = f[Nesting]
    BY FlatOpens
  <1>3. PICK g : Opens(g, b) /\ Flat(b) = g[Nesting]
    BY FlatOpens
  <1>4. PICK h : Opens(h, a \o b) /\ Flat(a \o b) = h[Nesting]
    BY <1>1, FlatOpens
  <1> DEFINE S == {n \in 0..Nesting : h[n] = f[n] \o g[n]}
  <1>5. 0 \in S
    BY <1>2, <1>3, <1>4, NestingAssumption DEF Opens
  <1>6. ASSUME NEW n \in 1..Nesting, n - 1 \in S PROVE n \in S
    <2>1. n - 1 \in 0..Nesting /\ n \in 0..Nesting
      BY NestingAssumption
    <2>2. f[n - 1] \in Seq(Item) /\ g[n - 1] \in Seq(Item)
      BY <1>2, <1>3, <2>1 DEF Opens
    <2>3. h[n] = Opened(h[n - 1]) /\ f[n] = Opened(f[n - 1]) /\ g[n] = Opened(g[n - 1])
      BY <1>2, <1>3, <1>4 DEF Opens
    <2>4. h[n - 1] = f[n - 1] \o g[n - 1]
      BY <1>6
    <2>5. h[n] = f[n] \o g[n]
      BY <2>2, <2>3, <2>4, OpenedConcat
    <2> QED BY <2>1, <2>5
  <1>7. Nesting \in S
    <2> HIDE DEF S
    <2> QED BY <1>5, <1>6, UpToNesting
  <1> QED BY <1>2, <1>3, <1>4, <1>7

\* What is left after all the openings is the same when one is done before.
LEMMA FlatOfOpened ==
    ASSUME NEW a \in Seq(Item)
    PROVE  Flat(Opened(a)) = Opened(Flat(a))
  <1>1. PICK f : Opens(f, a) /\ Flat(a) = f[Nesting]
    BY FlatOpens
  <1>2. PICK g : Opens(g, Opened(a)) /\ Flat(Opened(a)) = g[Nesting]
    BY OpenedTyped, FlatOpens
  <1> DEFINE S == {n \in 0..Nesting : g[n] = Opened(f[n])}
  <1>3. 0 \in S
    BY <1>1, <1>2, NestingAssumption DEF Opens
  <1>4. ASSUME NEW n \in 1..Nesting, n - 1 \in S PROVE n \in S
    <2>1. n \in 0..Nesting
      OBVIOUS
    <2>2. g[n] = Opened(g[n - 1]) /\ f[n] = Opened(f[n - 1]) /\ g[n - 1] = Opened(f[n - 1])
      BY <1>1, <1>2, <1>4 DEF Opens
    <2> QED BY <2>1, <2>2
  <1>5. Nesting \in S
    <2> HIDE DEF S
    <2> QED BY <1>3, <1>4, UpToNesting
  <1> QED BY <1>1, <1>2, <1>5

\* An item that is no WithIf stays.
LEMMA FlatPlain ==
    ASSUME NEW x \in Item, x.opt.kind # "if"
    PROVE  Flat(<<x>>) = <<x>>
  <1>1. <<x>> \in Seq(Item)
    OBVIOUS
  <1>2. PICK f : Opens(f, <<x>>) /\ Flat(<<x>>) = f[Nesting]
    BY <1>1, FlatOpens
  <1>3. Opened(<<x>>) = <<x>>
    BY OpenedOne DEF Inner
  <1> DEFINE S == {n \in 0..Nesting : f[n] = <<x>>}
  <1>4. 0 \in S
    BY <1>2, NestingAssumption DEF Opens
  <1>5. ASSUME NEW n \in 1..Nesting, n - 1 \in S PROVE n \in S
    <2>1. f[n] = Opened(f[n - 1]) /\ f[n - 1] = <<x>>
      BY <1>2, <1>5 DEF Opens
    <2> QED BY <1>3, <2>1
  <1>6. Nesting \in S
    <2> HIDE DEF S
    <2> QED BY <1>4, <1>5, UpToNesting
  <1> QED BY <1>2, <1>6

\* Nothing is flat.
LEMMA FlatEmpty == Flat(<< >>) = << >>
  <1>1. << >> \in Seq(Item)
    BY EmptySeq
  <1>2. PICK f : Opens(f, << >>) /\ Flat(<< >>) = f[Nesting]
    BY <1>1, FlatOpens
  <1>3. Opened(<< >>) = << >>
    BY FlattenEmpty DEF Opened
  <1> DEFINE S == {n \in 0..Nesting : f[n] = << >>}
  <1>4. 0 \in S
    BY <1>2, NestingAssumption DEF Opens
  <1>5. ASSUME NEW n \in 1..Nesting, n - 1 \in S PROVE n \in S
    <2>1. f[n] = Opened(f[n - 1]) /\ f[n - 1] = << >>
      BY <1>2, <1>5 DEF Opens
    <2> QED BY <1>3, <2>1
  <1>6. Nesting \in S
    <2> HIDE DEF S
    <2> QED BY <1>4, <1>5, UpToNesting
  <1> QED BY <1>2, <1>6

\* When no WithIf is left in the end, a WithIf may be opened first.
LEMMA FlatOfInner ==
    ASSUME NEW x \in Item, Plainly(Flat(<<x>>))
    PROVE  Flat(Inner(x)) = Flat(<<x>>)
  <1>1. <<x>> \in Seq(Item) /\ Opened(<<x>>) = Inner(x)
    BY OpenedOne
  <1>2. Flat(Inner(x)) = Opened(Flat(<<x>>))
    BY <1>1, FlatOfOpened
  <1> QED BY <1>1, <1>2, FlatTyped, OpenedPlain

-----------------------------------------------------------------------------
(* The places of the items in a set                                        *)

AllPlaces == Seq(Nat) \ {<< >>}

\* What an item contributes to the places of those in a set.
PlaceIf(set) == [x \in Item |-> IF x \in set THEN <<x.at>> ELSE << >>]

\* An item has one place in the set, or none.
LEMMA PlaceIfTyped == ASSUME NEW set PROVE PlaceIf(set) \in [Item -> Seq(AllPlaces)]
  <1>1. \A x \in Item : <<x.at>> \in Seq(AllPlaces)
    BY DEF Item, AllPlaces
  <1>2. << >> \in Seq(AllPlaces)
    BY EmptySeq
  <1> QED BY <1>1, <1>2 DEF PlaceIf

\* Where maps the items, so that the lemmas about Mapped are about it.
LEMMA WhereIsMapped ==
    ASSUME NEW set, NEW a \in Seq(Item)
    PROVE  Where(a, set) = Mapped(PlaceIf(set), a)
  <1>1. [i \in DOMAIN a |-> IF a[i] \in set THEN <<a[i].at>> ELSE << >>] = [i \in DOMAIN a |-> PlaceIf(set)[a[i]]]
    BY DEF PlaceIf
  <1> QED BY <1>1 DEF Where, Mapped, Images

\* Where makes a list of places.
LEMMA WhereTyped == ASSUME NEW set, NEW a \in Seq(Item) PROVE Where(a, set) \in Seq(AllPlaces)
  BY WhereIsMapped, PlaceIfTyped, MappedTyped

\* No items have no places.
LEMMA WhereEmpty == ASSUME NEW set PROVE Where(<< >>, set) = << >>
  BY FlattenEmpty DEF Where

\* MappedConcat, for places.
LEMMA PlacesConcat ==
    ASSUME NEW g \in [Item -> Seq(AllPlaces)], NEW a \in Seq(Item), NEW b \in Seq(Item)
    PROVE  Mapped(g, a \o b) = Mapped(g, a) \o Mapped(g, b)
  BY MappedConcat

\* One more item adds its place when it is in the set.
LEMMA WhereMore ==
    ASSUME NEW set, NEW a \in Seq(Item), NEW x \in Item
    PROVE  Where(a \o <<x>>, set) = IF x \in set THEN Append(Where(a, set), x.at) ELSE Where(a, set)
  <1>1. <<x>> \in Seq(Item) /\ a \o <<x>> \in Seq(Item)
    OBVIOUS
  <1>2. Mapped(PlaceIf(set), a \o <<x>>) = Mapped(PlaceIf(set), a) \o Mapped(PlaceIf(set), <<x>>)
    <2>1. PlaceIf(set) \in [Item -> Seq(AllPlaces)]
      BY PlaceIfTyped
    <2> QED BY <1>1, <2>1, PlacesConcat
  <1>3. Mapped(PlaceIf(set), <<x>>) = IF x \in set THEN <<x.at>> ELSE << >>
    <2>1. Mapped(PlaceIf(set), <<x>>) = PlaceIf(set)[x]
      BY PlaceIfTyped, MappedOne
    <2> QED BY <2>1 DEF PlaceIf
  <1>4. Where(a \o <<x>>, set) = Where(a, set) \o (IF x \in set THEN <<x.at>> ELSE << >>)
    BY <1>1, <1>2, <1>3, WhereIsMapped
  <1>5. Where(a, set) \in Seq(AllPlaces) /\ x.at \in AllPlaces
    BY WhereTyped DEF Item, AllPlaces
  <1>6. /\ Where(a, set) \o << >> = Where(a, set)
        /\ Where(a, set) \o <<x.at>> = Append(Where(a, set), x.at)
    BY <1>5, ConcatEmptySeq, AppendIsConcat
  <1> QED BY <1>4, <1>6

\* Only which items of the list are in the set matters.
LEMMA WhereAgrees ==
    ASSUME NEW set, NEW other, NEW a \in Seq(Item),
           \A i \in 1..Len(a) : a[i] \in set <=> a[i] \in other
    PROVE  Where(a, set) = Where(a, other)
  <1>1. DOMAIN a = 1..Len(a)
    OBVIOUS
  <1>2. [i \in DOMAIN a |-> IF a[i] \in set THEN <<a[i].at>> ELSE << >>]
            = [i \in DOMAIN a |-> IF a[i] \in other THEN <<a[i].at>> ELSE << >>]
    BY <1>1
  <1> QED BY <1>2 DEF Where

-----------------------------------------------------------------------------
(* No place is under another                                               *)

Differ(p, q) == \E k \in 1..Len(p) : k <= Len(q) /\ p[k] # q[k]

Apart(items) == \A i, j \in 1..Len(items) : i < j => Differ(items[i].at, items[j].at)

Cross(a, b) == \A i \in 1..Len(a), j \in 1..Len(b) : Differ(a[i].at, b[j].at)

\* Two lists whose places are apart, and apart from one another.
LEMMA ApartConcat ==
    ASSUME NEW a \in Seq(Item), NEW b \in Seq(Item)
    PROVE  Apart(a \o b) <=> Apart(a) /\ Apart(b) /\ Cross(a, b)
  <1> DEFINE n == Len(a)
             m == Len(b)
             c == a \o b
  <1>1. n \in Nat /\ m \in Nat /\ Len(c) = n + m
    OBVIOUS
  <1>2. \A i \in 1..n : c[i] = a[i]
    OBVIOUS
  <1>3. \A j \in 1..m : c[n + j] = b[j]
    OBVIOUS
  <1> HIDE DEF c, n, m
  <1>4. ASSUME Apart(c) PROVE Apart(a) /\ Apart(b) /\ Cross(a, b)
    <2>1. ASSUME NEW i \in 1..n, NEW j \in 1..n, i < j PROVE Differ(a[i].at, a[j].at)
      <3>1. i \in 1..n + m /\ j \in 1..n + m
        BY <1>1
      <3> QED BY <1>1, <1>2, <1>4, <2>1, <3>1 DEF Apart
    <2>2. ASSUME NEW i \in 1..m, NEW j \in 1..m, i < j PROVE Differ(b[i].at, b[j].at)
      <3>1. n + i \in 1..n + m /\ n + j \in 1..n + m /\ n + i < n + j
        BY <1>1, <2>2
      <3>2. Differ(c[n + i].at, c[n + j].at)
        BY <1>1, <1>4, <3>1 DEF Apart
      <3> QED BY <1>3, <3>2
    <2>3. ASSUME NEW i \in 1..n, NEW j \in 1..m PROVE Differ(a[i].at, b[j].at)
      <3>1. i \in 1..n + m /\ n + j \in 1..n + m /\ i < n + j
        BY <1>1
      <3>2. Differ(c[i].at, c[n + j].at)
        BY <1>1, <1>4, <3>1 DEF Apart
      <3> QED BY <1>2, <1>3, <3>2
    <2> QED BY <2>1, <2>2, <2>3 DEF Apart, Cross, n, m
  <1>5. ASSUME Apart(a), Apart(b), Cross(a, b) PROVE Apart(c)
    <2>1. ASSUME NEW i \in 1..n + m, NEW j \in 1..n + m, i < j PROVE Differ(c[i].at, c[j].at)
      <3>1. CASE j <= n
        <4>1. i \in 1..n /\ j \in 1..n
          BY <1>1, <2>1, <3>1
        <4> QED BY <1>2, <1>5, <2>1, <4>1 DEF Apart, n
      <3>2. CASE i <= n /\ j > n
        <4>1. i \in 1..n /\ j - n \in 1..m /\ n + (j - n) = j
          BY <1>1, <2>1, <3>2
        <4>2. Differ(a[i].at, b[j - n].at)
          BY <1>5, <4>1 DEF Cross, n, m
        <4>3. c[n + (j - n)] = b[j - n]
          BY <1>3, <4>1
        <4> QED BY <1>2, <4>1, <4>2, <4>3
      <3>3. CASE i > n
        <4>1. i - n \in 1..m /\ j - n \in 1..m /\ n + (i - n) = i /\ n + (j - n) = j /\ i - n < j - n
          BY <1>1, <2>1, <3>3
        <4>2. Differ(b[i - n].at, b[j - n].at)
          BY <1>5, <4>1 DEF Apart, m
        <4>3. c[n + (i - n)] = b[i - n] /\ c[n + (j - n)] = b[j - n]
          BY <1>3, <4>1
        <4> QED BY <4>1, <4>2, <4>3
      <3> QED BY <1>1, <3>1, <3>2, <3>3
    <2> QED BY <1>1, <2>1 DEF Apart
  <1> QED BY <1>4, <1>5 DEF c

\* To be apart from a list is to be so from its parts.
LEMMA CrossConcat ==
    ASSUME NEW a \in Seq(Item), NEW b \in Seq(Item), NEW e \in Seq(Item)
    PROVE  /\ Cross(a \o b, e) <=> Cross(a, e) /\ Cross(b, e)
           /\ Cross(e, a \o b) <=> Cross(e, a) /\ Cross(e, b)
  <1> DEFINE n == Len(a)
             m == Len(b)
             c == a \o b
  <1>1. n \in Nat /\ m \in Nat /\ Len(c) = n + m
    OBVIOUS
  <1>2. \A i \in 1..n : c[i] = a[i] /\ i \in 1..n + m
    BY <1>1
  <1>3. \A j \in 1..m : c[n + j] = b[j] /\ n + j \in 1..n + m
    BY <1>1
  <1>4. \A i \in 1..n + m : i \in 1..n \/ (i - n \in 1..m /\ n + (i - n) = i)
    BY <1>1
  <1> HIDE DEF c, n, m
  <1>5. \A i \in 1..n + m : c[i] = IF i \in 1..n THEN a[i] ELSE b[i - n]
    BY <1>2, <1>3, <1>4
  <1>6. Cross(c, e) <=> Cross(a, e) /\ Cross(b, e)
    BY <1>1, <1>2, <1>3, <1>4, <1>5, Zenon DEF Cross, n, m
  <1>7. Cross(e, c) <=> Cross(e, a) /\ Cross(e, b)
    BY <1>1, <1>2, <1>3, <1>4, <1>5 DEF Cross, n, m
  <1> QED BY <1>6, <1>7 DEF c

\* The options of one list stand at different places.
LEMMA ItemsApart ==
    ASSUME NEW list \in Seq(Options), NEW under \in Seq(Nat)
    PROVE  Apart(Items(list, under))
  <1>1. Len(Items(list, under)) = Len(list) /\ Len(under) \in Nat
    BY DEF Items
  <1>2. ASSUME NEW i \in 1..Len(list) PROVE Items(list, under)[i].at = Append(under, i)
    BY DEF Items
  <1>3. ASSUME NEW i \in 1..Len(list), NEW j \in 1..Len(list), i < j
        PROVE  Differ(Append(under, i), Append(under, j))
    <2>1. /\ Len(Append(under, i)) = Len(under) + 1 /\ Append(under, i)[Len(under) + 1] = i
          /\ Len(Append(under, j)) = Len(under) + 1 /\ Append(under, j)[Len(under) + 1] = j
      BY AppendProperties
    <2>2. Len(under) + 1 \in 1..Len(under) + 1 /\ i # j
      BY <1>1, <1>3
    <2> QED BY <2>1, <2>2 DEF Differ
  <1> QED BY <1>1, <1>2, <1>3 DEF Apart

\* The options in a WithIf are as far from the others as the WithIf.
LEMMA ItemsCross ==
    ASSUME NEW x \in Item, NEW b \in Seq(Item)
    PROVE  /\ Cross(<<x>>, b) => Cross(Items(x.opt.inner, x.at), b)
           /\ Cross(b, <<x>>) => Cross(b, Items(x.opt.inner, x.at))
  <1> DEFINE list == x.opt.inner
             p == x.at
  <1>1. list \in Seq(Options) /\ p \in Seq(Nat)
    BY OptionFields DEF Item
  <1> HIDE DEF list, p
  <1>2. Len(Items(list, p)) = Len(list)
    BY <1>1 DEF Items
  <1>3. \A i \in 1..Len(list) : Items(list, p)[i].at = Append(p, i)
    BY <1>1 DEF Items
  <1>4. ASSUME NEW q \in Seq(Nat), NEW i \in 1..Len(list)
        PROVE  /\ Differ(p, q) => Differ(Append(p, i), q)
               /\ Differ(q, p) => Differ(q, Append(p, i))
    <2>1. /\ Len(Append(p, i)) = Len(p) + 1 /\ Len(p) \in Nat
          /\ \A k \in 1..Len(p) : Append(p, i)[k] = p[k] /\ k \in 1..Len(p) + 1 /\ k <= Len(p) + 1
      BY <1>1, AppendProperties
    <2>2. ASSUME Differ(p, q) PROVE Differ(Append(p, i), q)
      BY <2>1, <2>2 DEF Differ
    <2>3. ASSUME Differ(q, p) PROVE Differ(q, Append(p, i))
      <3>1. PICK k \in 1..Len(q) : k <= Len(p) /\ q[k] # p[k]
        BY <2>3 DEF Differ
      <3>2. k \in 1..Len(p)
        BY <2>1, <3>1
      <3> QED BY <2>1, <3>1, <3>2 DEF Differ
    <2> QED BY <2>2, <2>3
  <1>5. \A j \in 1..Len(b) : b[j].at \in Seq(Nat)
    <2>1. \A j \in 1..Len(b) : b[j] \in Item
      OBVIOUS
    <2> QED BY <2>1 DEF Item
  <1>6. Len(<<x>>) = 1 /\ <<x>>[1].at = p
    BY DEF p
  <1>7. ASSUME Cross(<<x>>, b) PROVE Cross(Items(list, p), b)
    <2>1. \A j \in 1..Len(b) : Differ(p, b[j].at)
      BY <1>6, <1>7 DEF Cross
    <2> QED BY <1>2, <1>3, <1>4, <1>5, <2>1 DEF Cross
  <1>8. ASSUME Cross(b, <<x>>) PROVE Cross(b, Items(list, p))
    <2>1. \A j \in 1..Len(b) : Differ(b[j].at, p)
      BY <1>6, <1>8 DEF Cross
    <2> QED BY <1>2, <1>3, <1>4, <1>5, <2>1 DEF Cross
  <1> QED BY <1>7, <1>8 DEF list, p

-----------------------------------------------------------------------------
(* What one option makes of the config                                     *)

Entries == [at : AllPlaces, opt : Options, path : EnvPaths \cup {"none"}]
Configs == [sources : Seq(Entries), dumpers : Seq(Entries), steps : Seq(AllPlaces),
            binding : AllPlaces \cup {<< >>}, hooks : Seq(AllPlaces),
            tag : AllPlaces \cup {<< >>}, errors : Seq(AllPlaces)]

\* Config c is what the options in done ask for.
Made(c, done) ==
    /\ Ats(c.sources) = Where(done, OfKind(SourceKinds))
    /\ Ats(c.dumpers) = Where(done, OfKind(DumperKinds))
    /\ c.steps = Where(done, OfKind({"step"}))
    /\ c.binding = LastOr(Where(done, OfKind({"binding"})), << >>)
    /\ c.hooks = (IF c.binding = << >> THEN << >> ELSE <<c.binding>>)
    /\ c.tag = LastOr(Where(done, OfKind({"tag"})), << >>)

\* Option x has made d of config c, or has reported an error.
Reported(x, c, d) == d = [c EXCEPT !.errors = Append(@, x.at)]
Added(x, c, d) ==
    /\ x.opt.usable
    /\ \/ /\ x.opt.kind \in SourceKinds
          /\ \E e \in Entries : e.at = x.at /\ d = [c EXCEPT !.sources = Append(@, e)]
       \/ /\ x.opt.kind \in DumperKinds
          /\ \E e \in Entries : e.at = x.at /\ d = [c EXCEPT !.dumpers = Append(@, e)]
       \/ x.opt.kind = "step" /\ d = [c EXCEPT !.steps = Append(@, x.at)]
       \/ x.opt.kind = "tag" /\ d = [c EXCEPT !.tag = x.at]
       \/ x.opt.kind = "binding" /\ d = [c EXCEPT !.binding = x.at, !.hooks = <<x.at>>]

\* One more entry adds its place.
LEMMA AtsAppend ==
    ASSUME NEW s \in Seq(Entries), NEW e \in Entries
    PROVE  Ats(Append(s, e)) = Append(Ats(s), e.at)
  <1>1. /\ Append(s, e) \in Seq(Entries) /\ Len(Append(s, e)) = Len(s) + 1 /\ Len(s) \in Nat
        /\ \A i \in 1..Len(s) : Append(s, e)[i] = s[i]
        /\ Append(s, e)[Len(s) + 1] = e
    BY AppendProperties
  <1>2. Ats(s) \in Seq(AllPlaces) /\ Len(Ats(s)) = Len(s)
    <2>1. DOMAIN s = 1..Len(s) /\ \A i \in 1..Len(s) : s[i].at \in AllPlaces
      <3>1. \A i \in 1..Len(s) : s[i] \in Entries
        OBVIOUS
      <3> QED BY <3>1 DEF Entries
    <2>2. Ats(s) \in [1..Len(s) -> AllPlaces]
      BY <2>1 DEF Ats
    <2> QED BY <1>1, <2>2
  <1>3. e.at \in AllPlaces
    BY DEF Entries
  <1>4. /\ Len(Append(Ats(s), e.at)) = Len(s) + 1 /\ Append(Ats(s), e.at) \in Seq(AllPlaces)
        /\ \A i \in 1..Len(s) : Append(Ats(s), e.at)[i] = Ats(s)[i]
        /\ Append(Ats(s), e.at)[Len(s) + 1] = e.at
    BY <1>2, <1>3, AppendProperties
  <1>5. DOMAIN Append(s, e) = 1..Len(s) + 1 /\ DOMAIN Append(Ats(s), e.at) = 1..Len(s) + 1
    BY <1>1, <1>4
  <1>6. ASSUME NEW i \in 1..Len(s) + 1 PROVE Ats(Append(s, e))[i] = Append(Ats(s), e.at)[i]
    <2>1. Ats(Append(s, e))[i] = Append(s, e)[i].at
      BY <1>5 DEF Ats
    <2>2. CASE i \in 1..Len(s)
      <3>1. Ats(s)[i] = s[i].at
        BY <2>2 DEF Ats
      <3> QED BY <1>1, <1>4, <2>1, <2>2, <3>1
    <2>3. CASE i = Len(s) + 1
      BY <1>1, <1>4, <2>1, <2>3
    <2>4. i \in 1..Len(s) \/ i = Len(s) + 1
      OBVIOUS
    <2> QED BY <2>2, <2>3, <2>4
  <1>7. /\ Ats(Append(s, e)) = [i \in 1..Len(s) + 1 |-> Ats(Append(s, e))[i]]
        /\ Append(Ats(s), e.at) = [i \in 1..Len(s) + 1 |-> Append(Ats(s), e.at)[i]]
    <2>1. Ats(Append(s, e)) = [i \in 1..Len(s) + 1 |-> Ats(Append(s, e))[i]]
      BY <1>5, Zenon DEF Ats
    <2>2. Append(Ats(s), e.at) = [i \in 1..Len(s) + 1 |-> Append(Ats(s), e.at)[i]]
      BY <1>4
    <2> QED BY <2>1, <2>2
  <1> QED BY <1>6, <1>7

\* The last of a list is what came last.
LEMMA LastOrMore ==
    ASSUME NEW s \in Seq(AllPlaces), NEW p \in AllPlaces
    PROVE  LastOr(Append(s, p), << >>) = p
  BY AppendProperties DEF LastOr

\* An option that is added keeps the config what the options applied so far say.
LEMMA MadeMore ==
    ASSUME NEW c \in Configs, NEW d, NEW done \in Seq(Item), NEW x \in Item,
           Made(c, done), Added(x, c, d)
    PROVE  Made(d, done \o <<x>>) /\ d.errors = c.errors
  <1> DEFINE W(kinds) == Where(done, OfKind(kinds))
             V(kinds) == Where(done \o <<x>>, OfKind(kinds))
  <1>1. ASSUME NEW kinds
        PROVE  /\ V(kinds) = IF x.opt.kind \in kinds THEN Append(W(kinds), x.at) ELSE W(kinds)
               /\ W(kinds) \in Seq(AllPlaces)
    <2>1. x \in OfKind(kinds) <=> x.opt.kind \in kinds
      BY DEF OfKind
    <2> QED BY <2>1, WhereMore, WhereTyped
  <1> HIDE DEF W, V
  <1>2. x.at \in AllPlaces /\ x.at # << >>
    BY DEF Item, AllPlaces
  <1>3. /\ Ats(c.sources) = W(SourceKinds)
        /\ Ats(c.dumpers) = W(DumperKinds)
        /\ c.steps = W({"step"})
        /\ c.binding = LastOr(W({"binding"}), << >>)
        /\ c.hooks = (IF c.binding = << >> THEN << >> ELSE <<c.binding>>)
        /\ c.tag = LastOr(W({"tag"}), << >>)
    BY DEF Made, W
  <1>4. SUFFICES /\ Ats(d.sources) = V(SourceKinds)
                 /\ Ats(d.dumpers) = V(DumperKinds)
                 /\ d.steps = V({"step"})
                 /\ d.binding = LastOr(V({"binding"}), << >>)
                 /\ d.hooks = (IF d.binding = << >> THEN << >> ELSE <<d.binding>>)
                 /\ d.tag = LastOr(V({"tag"}), << >>)
                 /\ d.errors = c.errors
    BY DEF Made, V
  <1>5. CASE x.opt.kind \in SourceKinds /\ \E e \in Entries : e.at = x.at /\ d = [c EXCEPT !.sources = Append(@, e)]
    <2>1. PICK e \in Entries : e.at = x.at /\ d = [c EXCEPT !.sources = Append(@, e)]
      BY <1>5
    <2>2. d.sources = Append(c.sources, e) /\ c.sources \in Seq(Entries)
      BY <2>1 DEF Configs
    <2>3. Ats(d.sources) = Append(Ats(c.sources), x.at)
      BY <2>1, <2>2, AtsAppend
    <2>4. /\ d.dumpers = c.dumpers /\ d.steps = c.steps /\ d.binding = c.binding
          /\ d.hooks = c.hooks /\ d.tag = c.tag /\ d.errors = c.errors
      BY <2>1 DEF Configs
    <2>5. x.opt.kind \notin DumperKinds /\ x.opt.kind \notin {"step", "binding", "tag"}
      BY <1>5 DEF SourceKinds, DumperKinds
    <2>6. /\ V(SourceKinds) = Append(W(SourceKinds), x.at)
          /\ V(DumperKinds) = W(DumperKinds) /\ V({"step"}) = W({"step"})
          /\ V({"binding"}) = W({"binding"}) /\ V({"tag"}) = W({"tag"})
      BY <1>1, <1>5, <2>5
    <2> QED BY <1>3, <2>3, <2>4, <2>6
  <1>6. CASE /\ x.opt.kind \in DumperKinds
             /\ \E e \in Entries : e.at = x.at /\ d = [c EXCEPT !.dumpers = Append(@, e)]
    <2>1. PICK e \in Entries : e.at = x.at /\ d = [c EXCEPT !.dumpers = Append(@, e)]
      BY <1>6
    <2>2. d.dumpers = Append(c.dumpers, e) /\ c.dumpers \in Seq(Entries)
      BY <2>1 DEF Configs
    <2>3. Ats(d.dumpers) = Append(Ats(c.dumpers), x.at)
      BY <2>1, <2>2, AtsAppend
    <2>4. /\ d.sources = c.sources /\ d.steps = c.steps /\ d.binding = c.binding
          /\ d.hooks = c.hooks /\ d.tag = c.tag /\ d.errors = c.errors
      BY <2>1 DEF Configs
    <2>5. x.opt.kind \notin SourceKinds /\ x.opt.kind \notin {"step", "binding", "tag"}
      BY <1>6 DEF SourceKinds, DumperKinds
    <2>6. /\ V(DumperKinds) = Append(W(DumperKinds), x.at)
          /\ V(SourceKinds) = W(SourceKinds) /\ V({"step"}) = W({"step"})
          /\ V({"binding"}) = W({"binding"}) /\ V({"tag"}) = W({"tag"})
      BY <1>1, <1>6, <2>5
    <2> QED BY <1>3, <2>3, <2>4, <2>6
  <1>7. CASE x.opt.kind \in {"step", "tag", "binding"}
    <2>1. x.opt.kind \notin SourceKinds /\ x.opt.kind \notin DumperKinds
      BY <1>7 DEF SourceKinds, DumperKinds
    <2>2. /\ d.sources = c.sources /\ d.dumpers = c.dumpers /\ d.errors = c.errors
          /\ x.opt.kind = "step" => /\ d.steps = Append(c.steps, x.at) /\ d.tag = c.tag
                                    /\ d.binding = c.binding /\ d.hooks = c.hooks
          /\ x.opt.kind = "tag" => /\ d.tag = x.at /\ d.steps = c.steps
                                   /\ d.binding = c.binding /\ d.hooks = c.hooks
          /\ x.opt.kind = "binding" => /\ d.binding = x.at /\ d.hooks = <<x.at>>
                                       /\ d.steps = c.steps /\ d.tag = c.tag
      BY <1>7, <2>1 DEF Added, Configs
    <2>3. V(SourceKinds) = W(SourceKinds) /\ V(DumperKinds) = W(DumperKinds)
      BY <1>1, <2>1
    <2>4. \A kind : V({kind}) = IF x.opt.kind = kind THEN Append(W({kind}), x.at) ELSE W({kind})
      BY <1>1
    <2>5. \A kind : LastOr(Append(W({kind}), x.at), << >>) = x.at
      BY <1>1, <1>2, LastOrMore
    <2>6. CASE x.opt.kind = "step"
      BY <1>3, <2>2, <2>3, <2>4, <2>6
    <2>7. CASE x.opt.kind = "tag"
      BY <1>3, <2>2, <2>3, <2>4, <2>5, <2>7
    <2>8. CASE x.opt.kind = "binding"
      BY <1>2, <1>3, <2>2, <2>3, <2>4, <2>5, <2>8
    <2> QED BY <1>7, <2>6, <2>7, <2>8
  <1> QED BY <1>5, <1>6, <1>7 DEF Added

-----------------------------------------------------------------------------
(* A call of New, option by option                                         *)

\* The options asked for are those done and those still to flatten.  The config
\* is what the first make, unless there are errors: those are of the options
\* done, in their order, and of each that is not usable.
Follows(all, done, rest, c) ==
    /\ all = done \o Flat(rest)
    /\ Plainly(all)
    /\ Apart(done) /\ Apart(rest) /\ Cross(done, rest)
    /\ c.errors = << >> => Made(c, done)
    /\ \A i \in 1..Len(done) : ~done[i].opt.usable =>
          \E k \in 1..Len(c.errors) : c.errors[k] = done[i].at
    /\ \A k \in 1..Len(c.errors) : \E i \in 1..Len(done) : c.errors[k] = done[i].at
    /\ c.errors = Where(done, At(ToSet(c.errors)))

\* Each of the places is one of an item in the set.
LEMMA WhereElements ==
    ASSUME NEW set, NEW a \in Seq(Item), NEW k \in 1..Len(Where(a, set))
    PROVE  \E i \in 1..Len(a) : a[i] \in set /\ Where(a, set)[k] = a[i].at
  <1> DEFINE From(s) == \A j \in 1..Len(Where(s, set)) :
                           \E i \in 1..Len(s) : s[i] \in set /\ Where(s, set)[j] = s[i].at
             T == {n \in Nat : \A s \in Seq(Item) : Len(s) = n => From(s)}
  <1>1. 0 \in T
    <2>1. ASSUME NEW s \in Seq(Item), Len(s) = 0 PROVE From(s)
      <3>1. s = << >>
        BY <2>1
      <3>2. Len(Where(s, set)) = 0
        BY <3>1, WhereEmpty
      <3> QED BY <3>2
    <2> QED BY <2>1
  <1>2. ASSUME NEW n \in Nat, n \in T PROVE n + 1 \in T
    <2>1. ASSUME NEW s \in Seq(Item), Len(s) = n + 1 PROVE From(s)
      <3>1. s # << >>
        BY <2>1
      <3>2. PICK t \in Seq(Item), x \in Item : s = Append(t, x)
        BY <3>1, SequenceEmptyOrAppend
      <3>3. Len(t) = n /\ Len(s) = n + 1 /\ \A i \in 1..n : s[i] = t[i]
        BY <2>1, <3>2, AppendProperties
      <3>4. s[n + 1] = x
        BY <3>2, <3>3, AppendProperties
      <3>5. From(t)
        BY <1>2, <3>3
      <3>6. Where(s, set) = IF x \in set THEN Append(Where(t, set), x.at) ELSE Where(t, set)
        <4>1. s = t \o <<x>>
          BY <3>2, AppendIsConcat
        <4> QED BY <4>1, WhereMore
      <3>7. Where(t, set) \in Seq(AllPlaces) /\ x.at \in AllPlaces
        BY WhereTyped DEF Item, AllPlaces
      <3>8. ASSUME NEW j \in 1..Len(Where(s, set))
            PROVE  \E i \in 1..Len(s) : s[i] \in set /\ Where(s, set)[j] = s[i].at
        <4>1. CASE j \in 1..Len(Where(t, set))
          <5>1. PICK i \in 1..Len(t) : t[i] \in set /\ Where(t, set)[j] = t[i].at
            BY <3>5, <4>1
          <5>2. Where(s, set)[j] = Where(t, set)[j]
            BY <3>6, <3>7, <4>1, AppendProperties
          <5>3. i \in 1..Len(s) /\ s[i] = t[i]
            BY <3>3
          <5> QED BY <5>1, <5>2, <5>3
        <4>2. CASE j \notin 1..Len(Where(t, set))
          <5>1. x \in set /\ Len(Where(s, set)) = Len(Where(t, set)) + 1
            BY <3>6, <3>7, <4>2, AppendProperties
          <5>2. j = Len(Where(t, set)) + 1
            BY <3>7, <4>2, <5>1
          <5>3. Where(s, set)[j] = x.at
            BY <3>6, <3>7, <5>1, <5>2, AppendProperties
          <5> QED BY <3>3, <3>4, <5>1, <5>3
        <4> QED BY <4>1, <4>2
      <3> QED BY <3>8
    <2> QED BY <2>1
  <1>3. Nat \subseteq T
    <2> HIDE DEF T
    <2> QED BY <1>1, <1>2, NatSetInduction
  <1>4. Len(a) \in T
    BY <1>3
  <1> QED BY <1>4

\* A place differs from itself nowhere.
LEMMA NotItself == ASSUME NEW p, NEW q, Differ(p, q) PROVE p # q
  BY DEF Differ

\* The next option is done.
LEMMA FollowsItem ==
    ASSUME NEW all, NEW done \in Seq(Item), NEW x \in Item, NEW rest \in Seq(Item),
           NEW c \in Configs, NEW d,
           x.opt.kind # "if",
           Follows(all, done, <<x>> \o rest, c),
           Added(x, c, d) \/ Reported(x, c, d)
    PROVE  Follows(all, done \o <<x>>, rest, d)
  <1> DEFINE more == done \o <<x>>
             one == <<x>>
  <1>1. /\ one \in Seq(Item) /\ more \in Seq(Item) /\ Len(more) = Len(done) + 1 /\ Len(done) \in Nat
        /\ \A i \in 1..Len(done) : more[i] = done[i]
        /\ more[Len(done) + 1] = x
    OBVIOUS
  <1>2. Flat(one \o rest) = <<x>> \o Flat(rest)
    BY <1>1, FlatConcat, FlatPlain
  <1>3. all = more \o Flat(rest)
    <2>1. all = done \o (one \o Flat(rest))
      BY <1>2 DEF Follows
    <2>2. Flat(rest) \in Seq(Item)
      BY FlatTyped
    <2>3. (done \o one) \o Flat(rest) = done \o (one \o Flat(rest))
      <3> HIDE DEF one
      <3> QED BY <1>1, <2>2, ConcatAssociative, SMTT(30)
    <2> QED BY <2>1, <2>3
  <1>4. /\ Apart(done) /\ Apart(one) /\ Apart(rest)
        /\ Cross(one, rest) /\ Cross(done, one) /\ Cross(done, rest)
    <2>1. Apart(done) /\ Apart(one \o rest) /\ Cross(done, one \o rest)
      BY DEF Follows
    <2> HIDE DEF one
    <2> QED BY <1>1, <2>1, ApartConcat, CrossConcat
  <1>5. Apart(more) /\ Cross(more, rest)
    BY <1>1, <1>4, ApartConcat, CrossConcat
  <1>6. \A i \in 1..Len(done) : done[i].at # x.at
    <2>1. \A i \in 1..Len(done) : Differ(done[i].at, one[1].at)
      BY <1>4 DEF Cross
    <2> QED BY <2>1, NotItself
  <1>7. c.errors \in Seq(AllPlaces) /\ x.at \in AllPlaces
    BY DEF Configs, Item, AllPlaces
  <1>8. CASE Added(x, c, d)
    <2>1. d.errors = c.errors /\ x.opt.usable
      <3>1. d.errors = c.errors
        BY <1>8 DEF Added, Configs
      <3> QED BY <1>8, <3>1 DEF Added
    <2>2. d.errors = << >> => Made(d, more)
      BY <1>8, <2>1, MadeMore DEF Follows
    <2>3. ASSUME NEW i \in 1..Len(more), ~more[i].opt.usable
          PROVE  \E k \in 1..Len(c.errors) : c.errors[k] = more[i].at
      <3>1. i # Len(done) + 1
        BY <1>1, <2>1, <2>3
      <3>2. i \in 1..Len(done)
        BY <1>1, <3>1
      <3> QED BY <1>1, <2>3, <3>2 DEF Follows
    <2>4. \A k \in 1..Len(c.errors) : \E i \in 1..Len(done) : c.errors[k] = done[i].at
      BY DEF Follows
    <2>5. \A k \in 1..Len(c.errors) : \E i \in 1..Len(more) : c.errors[k] = more[i].at
      BY <1>1, <2>4
    <2>6. x \notin At(ToSet(c.errors))
      <3>1. DOMAIN c.errors = 1..Len(c.errors)
        BY <1>7
      <3>2. x.at \notin ToSet(c.errors)
        BY <1>6, <2>4, <3>1 DEF ToSet
      <3> QED BY <3>2 DEF At
    <2>7. c.errors = Where(more, At(ToSet(c.errors)))
      <3>1. c.errors = Where(done, At(ToSet(c.errors)))
        BY DEF Follows
      <3> QED BY <2>6, <3>1, WhereMore
    <2>8. Plainly(all)
      BY DEF Follows
    <2> HIDE DEF more
    <2>9. Follows(all, more, rest, d)
      <3>1. \A i \in 1..Len(more) : ~more[i].opt.usable =>
               \E k \in 1..Len(d.errors) : d.errors[k] = more[i].at
        BY <2>1, <2>3
      <3>2. \A k \in 1..Len(d.errors) : \E i \in 1..Len(more) : d.errors[k] = more[i].at
        BY <2>1, <2>5
      <3>3. d.errors = Where(more, At(ToSet(d.errors)))
        BY <2>1, <2>7
      <3>4. all = more \o Flat(rest) /\ Apart(more) /\ Apart(rest) /\ Cross(more, rest)
        BY <1>3, <1>4, <1>5
      <3> QED BY <2>2, <2>8, <3>1, <3>2, <3>3, <3>4, Zenon DEF Follows
    <2> QED BY <2>9 DEF more
  <1>9. CASE Reported(x, c, d)
    <2>1. d.errors = Append(c.errors, x.at)
      BY <1>9 DEF Reported, Configs
    <2>2. /\ Len(d.errors) = Len(c.errors) + 1 /\ Len(c.errors) \in Nat /\ d.errors # << >>
          /\ \A k \in 1..Len(c.errors) : d.errors[k] = c.errors[k]
          /\ d.errors[Len(c.errors) + 1] = x.at
      <3>1. \A s \in Seq(AllPlaces), p \in AllPlaces :
               /\ Len(Append(s, p)) = Len(s) + 1 /\ Len(s) \in Nat /\ Append(s, p) # << >>
               /\ \A k \in 1..Len(s) : Append(s, p)[k] = s[k]
               /\ Append(s, p)[Len(s) + 1] = p
        BY AppendProperties
      <3>2. /\ Len(Append(c.errors, x.at)) = Len(c.errors) + 1 /\ Len(c.errors) \in Nat
            /\ Append(c.errors, x.at) # << >>
            /\ \A k \in 1..Len(c.errors) : Append(c.errors, x.at)[k] = c.errors[k]
            /\ Append(c.errors, x.at)[Len(c.errors) + 1] = x.at
        BY <1>7, <3>1
      <3> QED BY <2>1, <3>2
    <2>3. ASSUME NEW i \in 1..Len(more), ~more[i].opt.usable
          PROVE  \E k \in 1..Len(d.errors) : d.errors[k] = more[i].at
      <3>1. CASE i = Len(done) + 1
        BY <1>1, <2>2, <3>1
      <3>2. CASE i # Len(done) + 1
        <4>1. i \in 1..Len(done) /\ more[i] = done[i]
          BY <1>1, <3>2
        <4>2. PICK k \in 1..Len(c.errors) : c.errors[k] = done[i].at
          BY <2>3, <4>1 DEF Follows
        <4>3. k \in 1..Len(d.errors) /\ d.errors[k] = more[i].at
          BY <2>2, <4>1, <4>2
        <4> QED BY <4>3
      <3> QED BY <3>1, <3>2
    <2>4. ASSUME NEW k \in 1..Len(d.errors) PROVE \E i \in 1..Len(more) : d.errors[k] = more[i].at
      <3>1. CASE k = Len(c.errors) + 1
        BY <1>1, <2>2, <3>1
      <3>2. CASE k # Len(c.errors) + 1
        <4>1. k \in 1..Len(c.errors)
          BY <2>2, <3>2
        <4>2. PICK i \in 1..Len(done) : c.errors[k] = done[i].at
          BY <4>1 DEF Follows
        <4>3. i \in 1..Len(more) /\ d.errors[k] = more[i].at
          BY <1>1, <2>2, <4>1, <4>2
        <4> QED BY <4>3
      <3> QED BY <3>1, <3>2
    <2>5. ToSet(d.errors) = ToSet(c.errors) \cup {x.at}
      <3>1. DOMAIN d.errors = 1..Len(c.errors) + 1 /\ DOMAIN c.errors = 1..Len(c.errors)
        BY <1>7, <2>1, <2>2
      <3>2. \A k : k \in 1..Len(c.errors) + 1 <=> k \in 1..Len(c.errors) \/ k = Len(c.errors) + 1
        BY <2>2
      <3> QED BY <2>2, <3>1, <3>2 DEF ToSet
    <2>6. Where(done, At(ToSet(d.errors))) = c.errors
      <3>1. \A i \in 1..Len(done) : done[i] \in At(ToSet(d.errors)) <=> done[i] \in At(ToSet(c.errors))
        BY <1>6, <2>5 DEF At
      <3>2. c.errors = Where(done, At(ToSet(c.errors)))
        BY DEF Follows
      <3> QED BY <3>1, <3>2, WhereAgrees
    <2>7. x \in At(ToSet(d.errors))
      BY <2>5 DEF At
    <2>8. d.errors = Where(more, At(ToSet(d.errors)))
      BY <2>1, <2>6, <2>7, WhereMore
    <2> QED BY <1>3, <1>4, <1>5, <2>2, <2>3, <2>4, <2>8 DEF Follows
  <1> QED BY <1>8, <1>9

\* A WithIf gives way to its options, or to none.
LEMMA FollowsIf ==
    ASSUME NEW all, NEW done \in Seq(Item), NEW x \in Item, NEW rest \in Seq(Item), NEW c,
           x.opt.kind = "if", Follows(all, done, <<x>> \o rest, c)
    PROVE  Follows(all, done, Inner(x) \o rest, c)
  <1> DEFINE one == <<x>>
             in == Inner(x)
  <1>1. one \in Seq(Item) /\ in \in Seq(Item)
    BY InnerTyped
  <1>2. Flat(one \o rest) = Flat(one) \o Flat(rest) /\ Flat(in \o rest) = Flat(in) \o Flat(rest)
    BY <1>1, FlatConcat
  <1>3. Flat(one) \in Seq(Item) /\ Flat(rest) \in Seq(Item)
    BY <1>1, FlatTyped
  <1>4. Plainly(Flat(one))
    <2> DEFINE b == Flat(one)
               e == Flat(rest)
               n == Len(done)
    <2>1. all = done \o (b \o e) /\ Plainly(all)
      BY <1>2 DEF Follows
    <2>2. b \in Seq(Item) /\ e \in Seq(Item) /\ n \in Nat
      BY <1>3
    <2> HIDE DEF b, e
    <2>3. \A i \in 1..Len(b) : n + i \in 1..Len(all) /\ all[n + i] = b[i]
      BY <2>1, <2>2
    <2>4. Plainly(b)
      BY <2>1, <2>3 DEF Plainly
    <2> QED BY <2>4 DEF b
  <1>5. Flat(in) = Flat(one)
    BY <1>4, FlatOfInner
  <1>6. Apart(one \o rest) /\ Cross(done, one \o rest) /\ Apart(done)
    BY DEF Follows
  <1>7. Apart(in \o rest) /\ Cross(done, in \o rest)
    <2>1. Apart(rest) /\ Cross(one, rest) /\ Cross(done, one) /\ Cross(done, rest)
      <3> HIDE DEF one
      <3> QED BY <1>1, <1>6, ApartConcat, CrossConcat
    <2>2. Apart(in) /\ Cross(in, rest) /\ Cross(done, in)
      <3>1. CASE x.opt.usable
        <4>1. in = Items(x.opt.inner, x.at) /\ x.opt.inner \in Seq(Options) /\ x.at \in Seq(Nat)
          BY <3>1, OptionFields DEF Inner, Item
        <4>2. Apart(in)
          BY <4>1, ItemsApart
        <4> QED BY <2>1, <4>1, <4>2, ItemsCross
      <3>2. CASE ~x.opt.usable
        <4>1. Len(in) = 0
          BY <3>2 DEF Inner
        <4> HIDE DEF in
        <4> QED BY <4>1 DEF Apart, Cross
      <3> QED BY <3>1, <3>2
    <2> HIDE DEF in
    <2> QED BY <1>1, <2>1, <2>2, ApartConcat, CrossConcat
  <1> HIDE DEF one, in
  <1>8. Follows(all, done, in \o rest, c)
    <2>1. Follows(all, done, one \o rest, c)
      BY DEF one
    <2> QED BY <1>2, <1>5, <1>7, <2>1 DEF Follows
  <1> QED BY <1>8 DEF in

-----------------------------------------------------------------------------
(* The inductive invariant                                                 *)

TypeInv ==
    /\ env \in EnvPaths
    /\ captured \in [DOMAIN captured -> EnvPaths]
    /\ args \in Seq(Options) /\ (args = << >> \/ args \in ArgLists)
    /\ todo \in Seq(Item)
    /\ cfg \in Configs
    /\ result \in {"none", "instance", "error", "panic"}
    /\ result # "none" => todo = << >>

\* While New runs and when it has ended, but for a panic, it follows the options.
CallInv ==
    /\ TypeInv
    /\ result = "instance" => cfg.errors = << >>
    /\ result = "error" => cfg.errors # << >>
    /\ Running \/ result \in {"instance", "error"} =>
          \E done \in Seq(Item) : Follows(All, done, todo, cfg)

\* A new config is one.
LEMMA DefaultConfigTyped == DefaultConfig \in Configs
  <1>1. /\ << >> \in Seq(Entries) /\ << >> \in Seq(AllPlaces)
    BY EmptySeq
  <1> QED BY <1>1 DEF DefaultConfig, Configs

\* A new config is what no options say.
LEMMA DefaultConfigMade == Made(DefaultConfig, << >>)
  <1>1. Ats(<< >>) = << >>
    BY DEF Ats
  <1>2. LastOr(<< >>, << >>) = << >>
    BY DEF LastOr
  <1> QED BY <1>1, <1>2, WhereEmpty DEF DefaultConfig, Made

\* Nothing is done yet.
LEMMA FollowsFirst ==
    ASSUME NEW list \in ArgLists
    PROVE  /\ Items(list, << >>) \in Seq(Item)
           /\ Follows(Flat(Items(list, << >>)), << >>, Items(list, << >>), DefaultConfig)
  <1> DEFINE items == Items(list, << >>)
  <1>1. list \in Seq(Options) /\ << >> \in Seq(Nat)
    BY ArgListsAssumption, EmptySeq
  <1>2. items \in Seq(Item) /\ Apart(items)
    BY <1>1, ItemsTyped, ItemsApart
  <1>3. Flat(items) \in Seq(Item)
    BY <1>2, FlatTyped
  <1>4. Flat(items) = << >> \o Flat(items)
    BY <1>3, ConcatEmptySeq
  <1>5. Plainly(Flat(items))
    <2>1. \A i \in DOMAIN Flat(items) : Flat(items)[i].opt.kind # "if"
      BY NestingAssumption DEF ToSet
    <2>2. DOMAIN Flat(items) = 1..Len(Flat(items))
      BY <1>3
    <2> QED BY <2>1, <2>2 DEF Plainly
  <1> HIDE DEF items
  <1>6. Apart(<< >>) /\ Cross(<< >>, items) /\ Len(<< >>) = 0
    BY DEF Apart, Cross
  <1>7. DefaultConfig.errors = << >> /\ Where(<< >>, At(ToSet(<< >>))) = << >>
    BY WhereEmpty DEF DefaultConfig
  <1>8. Follows(Flat(items), << >>, items, DefaultConfig)
    BY <1>2, <1>4, <1>5, <1>6, <1>7, DefaultConfigMade DEF Follows
  <1> QED BY <1>2, <1>8 DEF items

\* A step that takes the next option and that is no WithIf.
Takes ==
    /\ todo # << >>
    /\ Head(todo).opt.kind # "if"
    /\ Applied(cfg', Tail(todo))
    /\ cfg' \in Configs
    /\ Added(Head(todo), cfg, cfg') \/ Reported(Head(todo), cfg, cfg')
    /\ args' = args

\* A list is its first item and the others.
LEMMA HeadTail ==
    ASSUME NEW s \in Seq(Item), s # << >>
    PROVE  Head(s) \in Item /\ Tail(s) \in Seq(Item) /\ s = <<Head(s)>> \o Tail(s)
  <1>1. Head(s) \in Item /\ Tail(s) \in Seq(Item) /\ Len(s) = 1 + Len(Tail(s))
    BY HeadTailProperties
  <1>2. <<Head(s)>> \o Tail(s) \in Seq(Item) /\ Len(<<Head(s)>> \o Tail(s)) = Len(s)
    BY <1>1
  <1>3. \A i \in 1..Len(s) : s[i] = (<<Head(s)>> \o Tail(s))[i]
    BY <1>1
  <1> QED BY <1>1, <1>2, <1>3, SeqEqual

\* An error leaves a config.
LEMMA ReportedTyped ==
    ASSUME NEW c \in Configs, NEW x \in Item
    PROVE  [c EXCEPT !.errors = Append(@, x.at)] \in Configs
  <1>1. c.errors \in Seq(AllPlaces) /\ x.at \in AllPlaces
    BY DEF Configs, Item, AllPlaces
  <1>2. Append(c.errors, x.at) \in Seq(AllPlaces)
    BY <1>1, AppendProperties
  <1> QED BY <1>2 DEF Configs

\* So does what an option adds.
LEMMA AddedTyped ==
    ASSUME NEW c \in Configs, NEW x \in Item, NEW e \in Entries
    PROVE  /\ [c EXCEPT !.sources = Append(@, e)] \in Configs
           /\ [c EXCEPT !.dumpers = Append(@, e)] \in Configs
           /\ [c EXCEPT !.steps = Append(@, x.at)] \in Configs
           /\ [c EXCEPT !.tag = x.at] \in Configs
           /\ [c EXCEPT !.binding = x.at, !.hooks = <<x.at>>] \in Configs
  <1>1. x.at \in AllPlaces
    BY DEF Item, AllPlaces
  <1>2. c.sources \in Seq(Entries) /\ c.dumpers \in Seq(Entries) /\ c.steps \in Seq(AllPlaces)
    BY DEF Configs
  <1>3. /\ Append(c.sources, e) \in Seq(Entries) /\ Append(c.dumpers, e) \in Seq(Entries)
        /\ Append(c.steps, x.at) \in Seq(AllPlaces)
    BY <1>1, <1>2, AppendProperties
  <1>4. <<x.at>> \in Seq(AllPlaces)
    BY <1>1
  <1> QED BY <1>1, <1>3, <1>4 DEF Configs

\* What the option at hand puts into the config.
LEMMA EntryTyped ==
    ASSUME NEW path \in EnvPaths \cup {"none"}, Head(todo) \in Item
    PROVE  Entry(path) \in Entries /\ Entry(path).at = Head(todo).at
  BY DEF Entry, Entries, Place, Option, Item, AllPlaces

\* An option without a path adds what it is for, or an error.
LEMMA PlainTakes == TypeInv /\ ApplyPlain => Takes
  <1> SUFFICES ASSUME TypeInv, ApplyPlain PROVE Takes
    OBVIOUS
  <1> DEFINE x == Head(todo)
             kind == x.opt.kind
  <1>1. todo # << >> /\ kind \in Plain /\ args' = args /\ todo \in Seq(Item) /\ cfg \in Configs
    BY DEF ApplyPlain, Running, Option, TypeInv
  <1>2. x \in Item /\ x.opt \in Options /\ x.opt.usable \in BOOLEAN
    BY <1>1, HeadTail, OptionFields DEF Item
  <1>3. kind # "if"
    BY <1>1 DEF Plain
  <1>4. Applied(cfg', Tail(todo))
    BY DEF ApplyPlain, Applied
  <1>5. Entry("none") \in Entries /\ Entry("none").at = x.at
    BY <1>2, EntryTyped
  <1>6. CASE ~x.opt.usable
    <2>1. cfg' = [cfg EXCEPT !.errors = Append(@, x.at)]
      BY <1>6 DEF ApplyPlain, Applied, Option, Reports, Place
    <2> QED BY <1>1, <1>2, <1>3, <1>4, <2>1, ReportedTyped DEF Takes, Reported
  <1>7. CASE x.opt.usable
    <2>1. CASE kind = "source"
      <3>1. cfg' = [cfg EXCEPT !.sources = Append(@, Entry("none"))]
        BY <1>7, <2>1 DEF ApplyPlain, Applied, Option
      <3>2. Added(x, cfg, cfg')
        BY <1>5, <1>7, <2>1, <3>1 DEF Added, SourceKinds
      <3> QED BY <1>1, <1>2, <1>3, <1>4, <1>5, <3>1, <3>2, AddedTyped DEF Takes
    <2>2. CASE kind = "dumper"
      <3>1. cfg' = [cfg EXCEPT !.dumpers = Append(@, Entry("none"))]
        BY <1>7, <2>2 DEF ApplyPlain, Applied, Option
      <3>2. Added(x, cfg, cfg')
        BY <1>5, <1>7, <2>2, <3>1 DEF Added, DumperKinds
      <3> QED BY <1>1, <1>2, <1>3, <1>4, <1>5, <3>1, <3>2, AddedTyped DEF Takes
    <2>3. CASE kind = "step"
      <3>1. cfg' = [cfg EXCEPT !.steps = Append(@, x.at)]
        BY <1>7, <2>3 DEF ApplyPlain, Applied, Option, Place
      <3>2. Added(x, cfg, cfg')
        BY <1>7, <2>3, <3>1 DEF Added
      <3> QED BY <1>1, <1>2, <1>3, <1>4, <1>5, <3>1, <3>2, AddedTyped DEF Takes
    <2>4. CASE kind = "tag"
      <3>1. cfg' = [cfg EXCEPT !.tag = x.at]
        BY <1>7, <2>4 DEF ApplyPlain, Applied, Option, Place
      <3>2. Added(x, cfg, cfg')
        BY <1>7, <2>4, <3>1 DEF Added
      <3> QED BY <1>1, <1>2, <1>3, <1>4, <1>5, <3>1, <3>2, AddedTyped DEF Takes
    <2>5. CASE kind = "binding"
      <3>1. cfg' = [cfg EXCEPT !.binding = x.at, !.hooks = <<x.at>>]
        BY <1>7, <2>5 DEF ApplyPlain, Applied, Option, Place, BindConfig
      <3>2. Added(x, cfg, cfg')
        BY <1>7, <2>5, <3>1 DEF Added
      <3> QED BY <1>1, <1>2, <1>3, <1>4, <1>5, <3>1, <3>2, AddedTyped DEF Takes
    <2> QED BY <1>1, <2>1, <2>2, <2>3, <2>4, <2>5 DEF Plain
  <1> QED BY <1>2, <1>6, <1>7

\* The expansion of a path is what the environment has, or had.
LEMMA ExpandEnvTyped ==
    ASSUME TypeInv
    PROVE  /\ ExpandEnv(Captured) \in EnvPaths
           /\ ExpandEnv(Captured) = IF Head(todo) \in DOMAIN captured THEN captured[Head(todo)] ELSE env
  <1>1. Template \notin EnvPaths
    BY DEF Template, EnvPaths
  <1>2. Head(todo) \in DOMAIN captured => captured[Head(todo)] \in EnvPaths
    BY DEF TypeInv
  <1> QED BY <1>1, <1>2 DEF TypeInv, ExpandEnv, Captured

\* So does one with a path, which it may capture expanded.
LEMMA PathTakes == TypeInv /\ ApplyPath => Takes /\ captured' \in [DOMAIN captured' -> EnvPaths]
  <1> SUFFICES ASSUME TypeInv, ApplyPath PROVE Takes /\ captured' \in [DOMAIN captured' -> EnvPaths]
    OBVIOUS
  <1> DEFINE x == Head(todo)
             kind == x.opt.kind
             entry == Entry(ExpandEnv(Captured))
  <1>1. todo # << >> /\ kind \in ReadsPath /\ args' = args /\ todo \in Seq(Item) /\ cfg \in Configs
    BY DEF ApplyPath, Running, Option, TypeInv
  <1>2. x \in Item /\ x.opt \in Options
    BY <1>1, HeadTail DEF Item
  <1>3. kind # "if" /\ (kind \notin DumperKinds => kind \in SourceKinds)
    BY <1>1 DEF ReadsPath, Keeps, SourceKinds, DumperKinds
  <1>4. Applied(cfg', Tail(todo))
    <2>1. \A c : Applied(c, Tail(todo)) => Applied(cfg', Tail(todo))
      BY DEF Applied
    <2> HIDE DEF x, kind, entry
    <2>2. CASE FailsEarly
      BY <2>1, <2>2 DEF ApplyPath
    <2>3. CASE ~FailsEarly
      <3>1. \E c : Applied(c, Tail(todo))
        BY <2>3, Zenon DEF ApplyPath
      <3> QED BY <2>1, <3>1
    <2> QED BY <2>2, <2>3
  <1>5. entry \in Entries /\ entry.at = x.at
    BY <1>2, ExpandEnvTyped, EntryTyped
  <1>6. captured' \in [DOMAIN captured' -> EnvPaths]
    <2>1. CASE FailsEarly
      BY <2>1 DEF ApplyPath, TypeInv
    <2>2. CASE ~FailsEarly
      <3>1. \/ captured' = captured
            \/ captured' = [y \in DOMAIN captured \cup {x} |->
                               IF y = x THEN ExpandEnv(Captured) ELSE captured[y]]
        BY <2>2 DEF ApplyPath, Expands
      <3> QED BY <3>1, ExpandEnvTyped DEF TypeInv
    <2> QED BY <2>1, <2>2
  <1>7. CASE FailsEarly \/ FailsLate
    <2>1. cfg' = [cfg EXCEPT !.errors = Append(@, x.at)]
      BY <1>7 DEF ApplyPath, Applied, Reports, Place
    <2> QED BY <1>1, <1>2, <1>3, <1>4, <1>6, <2>1, ReportedTyped DEF Takes, Reported
  <1>8. CASE ~FailsEarly /\ ~FailsLate
    <2>1. x.opt.usable
      <3>1. x.opt.usable \in BOOLEAN /\ (kind \in {"file", "fileAs", "fileDumper", "fileDumperAs"} => x.opt.usable)
        BY <1>2, OptionFields
      <3> QED BY <1>1, <1>8, <3>1 DEF FailsEarly, FailsLate, Option, ReadsPath, Keeps
    <2>2. CASE kind \in DumperKinds
      <3>1. cfg' = [cfg EXCEPT !.dumpers = Append(@, entry)]
        BY <1>8, <2>2 DEF ApplyPath, Applied, Option
      <3>2. Added(x, cfg, cfg')
        BY <1>5, <2>1, <2>2, <3>1 DEF Added
      <3> HIDE DEF entry
      <3> QED BY <1>1, <1>2, <1>3, <1>4, <1>5, <1>6, <3>1, <3>2, AddedTyped DEF Takes
    <2>3. CASE kind \notin DumperKinds
      <3>1. cfg' = [cfg EXCEPT !.sources = Append(@, entry)]
        BY <1>8, <2>3 DEF ApplyPath, Applied, Option
      <3>2. Added(x, cfg, cfg')
        BY <1>3, <1>5, <2>1, <2>3, <3>1 DEF Added
      <3> HIDE DEF entry
      <3> QED BY <1>1, <1>2, <1>3, <1>4, <1>5, <1>6, <3>1, <3>2, AddedTyped DEF Takes
    <2> QED BY <2>2, <2>3
  <1> QED BY <1>7, <1>8

\* It holds before the first call.
LEMMA InitCallInv == Init => CallInv
  <1> SUFFICES ASSUME Init PROVE CallInv
    OBVIOUS
  <1>1. /\ args = << >> /\ todo = << >> /\ cfg = DefaultConfig /\ result = "none"
        /\ env \in EnvPaths /\ captured = NothingCaptured
    BY DEF Init
  <1>2. args \in Seq(Options) /\ todo \in Seq(Item)
    BY <1>1, EmptySeq
  <1>3. captured \in [DOMAIN captured -> EnvPaths]
    BY <1>1 DEF NothingCaptured
  <1> QED BY <1>1, <1>2, <1>3, DefaultConfigTyped DEF CallInv, TypeInv, Running

\* Every option that is no WithIf is done by one step.
LEMMA TakesCallInv ==
    ASSUME CallInv, Takes, env' = env, captured' \in [DOMAIN captured' -> EnvPaths]
    PROVE  CallInv'
  <1> DEFINE x == Head(todo)
             rest == Tail(todo)
  <1>1. x \in Item /\ rest \in Seq(Item) /\ todo = <<x>> \o rest
    BY HeadTail DEF Takes, CallInv, TypeInv
  <1>2. /\ x.opt.kind # "if" /\ cfg' \in Configs /\ args' = args
        /\ Added(x, cfg, cfg') \/ Reported(x, cfg, cfg')
        /\ todo' = rest
        /\ result' = IF rest # << >> THEN "none" ELSE IF cfg'.errors = << >> THEN "instance" ELSE "error"
    BY DEF Takes, Applied
  <1>3. PICK done \in Seq(Item) : Follows(All, done, todo, cfg)
    BY DEF CallInv, Takes, Running
  <1>4. cfg \in Configs
    BY DEF CallInv, TypeInv
  <1> HIDE DEF x, rest
  <1>5. Follows(All, done \o <<x>>, rest, cfg')
    BY <1>1, <1>2, <1>3, <1>4, FollowsItem
  <1>6. All' = All /\ done \o <<x>> \in Seq(Item)
    <2>1. done \o <<x>> \in Seq(Item)
      BY <1>1
    <2> QED BY <1>2, <2>1 DEF All
  <1>7. \E all \in Seq(Item) : Follows(All', all, todo', cfg')
    BY <1>2, <1>5, <1>6
  <1>8. TypeInv'
    BY <1>1, <1>2 DEF CallInv, TypeInv
  <1> QED BY <1>2, <1>7, <1>8 DEF CallInv

\* Every step of a call, and what the program does between calls, keeps it.
LEMMA NextCallInv == CallInv /\ [Next]_vars => CallInv'
  <1> SUFFICES ASSUME CallInv, [Next]_vars PROVE CallInv'
    OBVIOUS
  <1> USE DEF CallInv
  <1>1. CASE EnvChange
    <2>1. UNCHANGED <<captured, args, todo, cfg, result>> /\ env' \in EnvPaths
      BY <1>1 DEF EnvChange
    <2> QED BY <2>1 DEF TypeInv, Running, All
  <1>2. CASE ConsulChange
    BY <1>2 DEF ConsulChange, TypeInv, Running, All
  <1>3. CASE Call
    <2>1. PICK list \in (IF args = << >> THEN ArgLists ELSE {args}) :
             /\ args' = list
             /\ todo' = Items(list, << >>)
             /\ result' = IF list = << >> THEN "instance" ELSE "none"
      BY <1>3 DEF Call
    <2>2. list \in ArgLists /\ list \in Seq(Options)
      BY ArgListsAssumption, <2>1 DEF TypeInv
    <2>3. cfg' = DefaultConfig /\ UNCHANGED <<env, captured>>
      BY <1>3 DEF Call
    <2>4. todo' \in Seq(Item) /\ Follows(All', << >>, todo', cfg')
      BY <2>1, <2>2, <2>3, FollowsFirst DEF All
    <2>5. << >> \in Seq(Item)
      BY EmptySeq
    <2>6. \E done \in Seq(Item) : Follows(All', done, todo', cfg')
      BY <2>4, <2>5
    <2>7. list = << >> => todo' = << >>
      BY <2>1 DEF Items
    <2>8. TypeInv'
      BY <2>1, <2>2, <2>3, <2>4, <2>7, DefaultConfigTyped DEF TypeInv
    <2>9. cfg'.errors = << >>
      BY <2>3 DEF DefaultConfig
    <2> QED BY <2>1, <2>6, <2>8, <2>9
  <1>4. CASE Return
    <2>1. result' = "none" /\ todo' = todo /\ todo = << >> /\ cfg' = DefaultConfig /\ env' = env
      BY <1>4 DEF Return, TypeInv
    <2>2. \/ args' = args /\ captured' = captured
          \/ args' = << >> /\ captured' = NothingCaptured
      BY <1>4 DEF Return
    <2>3. captured' \in [DOMAIN captured' -> EnvPaths] /\ args' \in Seq(Options)
          /\ (args' = << >> \/ args' \in ArgLists)
      BY <2>2, EmptySeq DEF TypeInv, NothingCaptured
    <2> QED BY <2>1, <2>3, DefaultConfigTyped DEF TypeInv, Running
  <1>5. CASE ApplyNil
    <2> DEFINE x == Head(todo)
    <2>1. /\ todo # << >> /\ x.opt = NilOption /\ UNCHANGED <<env, captured, args>>
      BY <1>5 DEF ApplyNil, Running, Option
    <2>2. x \in Item /\ cfg \in Configs
      BY <2>1, HeadTail DEF TypeInv
    <2>3. CASE Len(Place) = 1
      <3>1. Applied(cfg', Tail(todo)) /\ cfg' = [cfg EXCEPT !.errors = Append(@, x.at)]
        BY <1>5, <2>3 DEF ApplyNil, Applied, Reports, Place
      <3>2. Takes
        BY <2>1, <2>2, <3>1, ReportedTyped DEF Takes, Reported, NilOption
      <3> QED BY <2>1, <3>2, TakesCallInv DEF TypeInv
    <2>4. CASE Len(Place) # 1
      <3>1. result' = "panic" /\ todo' = << >> /\ cfg' = DefaultConfig
        BY <1>5, <2>4 DEF ApplyNil
      <3> QED BY <2>1, <3>1, EmptySeq, DefaultConfigTyped DEF TypeInv, Running
    <2> QED BY <2>3, <2>4
  <1>6. CASE ApplyIf
    <2> DEFINE x == Head(todo)
               rest == Tail(todo)
    <2>1. todo # << >> /\ x.opt.kind = "if" /\ UNCHANGED <<env, captured, args>>
      BY <1>6 DEF ApplyIf, Running, Option
    <2>2. x \in Item /\ rest \in Seq(Item) /\ todo = <<x>> \o rest
      BY <2>1, HeadTail DEF TypeInv
    <2>3. Applied(cfg, Inner(x) \o rest)
      BY <1>6, <2>1 DEF ApplyIf, Option, Place, Inner
    <2>4. PICK done \in Seq(Item) : Follows(All, done, todo, cfg)
      BY <2>1 DEF Running
    <2> HIDE DEF x, rest
    <2>5. Follows(All, done, Inner(x) \o rest, cfg)
      <3>1. x.opt.kind = "if" /\ Follows(All, done, <<x>> \o rest, cfg)
        BY <2>1, <2>2, <2>4
      <3> QED BY <2>2, <3>1, FollowsIf
    <2>6. cfg' = cfg /\ todo' = Inner(x) \o rest
      BY <2>3 DEF Applied
    <2>7. \E d \in Seq(Item) : Follows(All', d, todo', cfg')
      BY <2>1, <2>5, <2>6 DEF All
    <2>8. todo' \in Seq(Item)
      <3>1. Inner(x) \in Seq(Item)
        BY <2>2, InnerTyped
      <3> QED BY <2>2, <2>6, <3>1, ConcatProperties
    <2>9. result' = IF todo' # << >> THEN "none" ELSE IF cfg'.errors = << >> THEN "instance" ELSE "error"
      BY <2>3, <2>6 DEF Applied
    <2>10. TypeInv'
      BY <2>1, <2>6, <2>8, <2>9 DEF TypeInv
    <2> QED BY <2>7, <2>9, <2>10
  <1>7. CASE ApplyPlain
    <2>1. Takes /\ UNCHANGED <<env, captured>>
      BY <1>7, PlainTakes DEF ApplyPlain
    <2> QED BY <2>1, TakesCallInv DEF TypeInv
  <1>8. CASE ApplyPath
    <2>1. Takes /\ env' = env /\ captured' \in [DOMAIN captured' -> EnvPaths]
      BY <1>8, PathTakes DEF ApplyPath
    <2> QED BY <2>1, TakesCallInv
  <1>9. CASE UNCHANGED vars
    BY <1>9 DEF vars, TypeInv, Running, All
  <1> QED BY <1>1, <1>2, <1>3, <1>4, <1>5, <1>6, <1>7, <1>8, <1>9 DEF Next

\* A call that ended without a panic has done what All has.
LEMMA EndFollows ==
    ASSUME CallInv, result \in {"instance", "error"}
    PROVE  All \in Seq(Item) /\ Follows(All, All, << >>, cfg)
  <1>1. PICK done \in Seq(Item) : Follows(All, done, todo, cfg)
    BY DEF CallInv
  <1>2. todo = << >>
    BY DEF CallInv, TypeInv
  <1>3. All = done
    <2>1. done \o << >> = done
      BY ConcatEmptySeq
    <2> QED BY <1>1, <1>2, <2>1, FlatEmpty DEF Follows
  <1> QED BY <1>1, <1>2, <1>3

\* An instance has one source, dumper and step for each option that asks for one,
\* in their order, whatever is nested in WithIf, and the last binding with its own
\* hooks (src/synthra.go:104-137, src/options.go:420-447).
THEOREM OptionsFollowed == Spec => []InstanceFollowsOptions
  <1>1. CallInv => InstanceFollowsOptions
    <2> SUFFICES ASSUME CallInv, result = "instance"
                 PROVE  /\ Ats(cfg.sources) = Where(All, OfKind(SourceKinds))
                        /\ Ats(cfg.dumpers) = Where(All, OfKind(DumperKinds))
                        /\ cfg.steps = Where(All, OfKind({"step"}))
                        /\ cfg.binding = LastOr(Where(All, OfKind({"binding"})), << >>)
                        /\ cfg.hooks = (IF cfg.binding = << >> THEN << >> ELSE <<cfg.binding>>)
                        /\ cfg.tag = LastOr(Where(All, OfKind({"tag"})), << >>)
      BY DEF InstanceFollowsOptions
    <2>1. Made(cfg, All)
      BY EndFollows DEF Follows, CallInv
    <2> QED BY <2>1 DEF Made
  <1> QED BY <1>1, InitCallInv, NextCallInv, PTL DEF Spec

\* New reports each option that cannot be used once and in their order, also those
\* after the first, and then yields no instance (src/synthra.go:104-108).
THEOREM ErrorsReported == Spec => []ErrorsAreComplete
  <1>1. CallInv => ErrorsAreComplete
    <2> DEFINE bad == Where(All, Unusable)
               reported == Where(All, At(ToSet(cfg.errors)))
    <2> SUFFICES ASSUME CallInv
                 PROVE  /\ result = "instance" => bad = << >>
                        /\ result = "error" => /\ ToSet(bad) \subseteq ToSet(cfg.errors)
                                               /\ cfg.errors = reported
                                               /\ cfg.errors # << >>
      BY Zenon DEF ErrorsAreComplete
    <2>1. cfg.errors \in Seq(AllPlaces)
      BY DEF CallInv, TypeInv, Configs
    <2>2. ASSUME result \in {"instance", "error"}
          PROVE  /\ bad \in Seq(AllPlaces)
                 /\ \A k \in 1..Len(bad) : \E i \in 1..Len(cfg.errors) : bad[k] = cfg.errors[i]
                 /\ cfg.errors = reported
      <3>1. All \in Seq(Item) /\ Follows(All, All, << >>, cfg)
        BY <2>2, EndFollows
      <3>2. bad \in Seq(AllPlaces)
        BY <3>1, WhereTyped
      <3>3. ASSUME NEW k \in 1..Len(bad) PROVE \E i \in 1..Len(cfg.errors) : bad[k] = cfg.errors[i]
        <4>1. PICK j \in 1..Len(All) : All[j] \in Unusable /\ bad[k] = All[j].at
          BY <3>1, WhereElements
        <4>2. PICK i \in 1..Len(cfg.errors) : cfg.errors[i] = All[j].at
          BY <3>1, <4>1 DEF Follows, Unusable
        <4> QED BY <4>1, <4>2
      <3>4. cfg.errors = reported
        BY <3>1 DEF Follows
      <3> QED BY <3>2, <3>3, <3>4
    <2>3. ASSUME result = "instance" PROVE bad = << >>
      <3>1. cfg.errors = << >>
        BY <2>3 DEF CallInv
      <3> HIDE DEF bad, reported
      <3>2. bad \in Seq(AllPlaces) /\ \A k \in 1..Len(bad) : FALSE
        BY <2>2, <2>3, <3>1
      <3> QED BY <3>2
    <2>4. ASSUME result = "error"
          PROVE  ToSet(bad) \subseteq ToSet(cfg.errors) /\ cfg.errors = reported /\ cfg.errors # << >>
      <3> HIDE DEF bad, reported
      <3>1. DOMAIN bad = 1..Len(bad) /\ DOMAIN cfg.errors = 1..Len(cfg.errors)
        BY <2>1, <2>2, <2>4
      <3>2. ToSet(bad) \subseteq ToSet(cfg.errors)
        BY <2>2, <2>4, <3>1 DEF ToSet
      <3> QED BY <2>2, <2>4, <3>2 DEF CallInv
    <2> QED BY <2>3, <2>4
  <1> QED BY <1>1, InitCallInv, NextCallInv, PTL DEF Spec

-----------------------------------------------------------------------------
(* The paths                                                               *)

EntriesOf(c) == ToSet(c.sources) \cup ToSet(c.dumpers)

\* The path of an entry is the one its option has from an earlier call, or was in
\* the environment during this one, and told the format where it had to.
Fresh(e) ==
    e.path # "none" =>
        /\ IF e.opt.kind # "consul" /\ ItemOf(e) \in DOMAIN before
           THEN e.path = before[ItemOf(e)] ELSE e.path \in envs
        /\ e.path = "" => e.opt.kind \notin Detects

\* During a call the captured paths of earlier calls stay, and the others are of the
\* environment of this one.  None is that of a Consul option.
PathInv ==
    /\ Running =>
          /\ env \in envs
          /\ DOMAIN before \subseteq DOMAIN captured
          /\ \A x \in DOMAIN before : captured[x] = before[x]
          /\ \A x \in DOMAIN captured \ DOMAIN before : captured[x] \in envs
    /\ \A x \in DOMAIN captured : x.opt.kind # "consul"
    /\ Running \/ result = "instance" => \A e \in EntriesOf(cfg) : Fresh(e)

\* One more entry is in the set of the entries.
LEMMA ToSetAppend ==
    ASSUME NEW s \in Seq(Entries), NEW e \in Entries
    PROVE  ToSet(Append(s, e)) = ToSet(s) \cup {e}
  <1>1. /\ DOMAIN Append(s, e) = 1..Len(s) + 1 /\ DOMAIN s = 1..Len(s)
        /\ \A i \in 1..Len(s) : Append(s, e)[i] = s[i]
        /\ Append(s, e)[Len(s) + 1] = e
    BY AppendProperties
  <1>2. \A i : i \in 1..Len(s) + 1 <=> i \in 1..Len(s) \/ i = Len(s) + 1
    OBVIOUS
  <1> QED BY <1>1, <1>2 DEF ToSet

\* A new config has no sources and dumpers.
LEMMA NoEntries == EntriesOf(DefaultConfig) = {}
  BY DEF EntriesOf, DefaultConfig, ToSet

\* An option without a path makes no entry with one.
LEMMA PlainEntries ==
    ASSUME CallInv, ApplyPlain
    PROVE  \A e \in EntriesOf(cfg') : e \in EntriesOf(cfg) \/ e.path = "none"
  <1>1. todo # << >> /\ todo \in Seq(Item) /\ cfg \in Configs
    BY DEF ApplyPlain, Running, CallInv, TypeInv
  <1>2. Head(todo) \in Item
    BY <1>1, HeadTail
  <1>3. Entry("none") \in Entries /\ Entry("none").path = "none"
    <2>1. Entry("none") \in Entries
      BY <1>2, EntryTyped
    <2> QED BY <2>1 DEF Entry
  <1>4. cfg.sources \in Seq(Entries) /\ cfg.dumpers \in Seq(Entries)
    BY <1>1 DEF Configs
  <1>5. /\ cfg'.sources = cfg.sources \/ cfg'.sources = Append(cfg.sources, Entry("none"))
        /\ cfg'.dumpers = cfg.dumpers \/ cfg'.dumpers = Append(cfg.dumpers, Entry("none"))
    <2>1. Option.kind \in Plain
      BY DEF ApplyPlain
    <2>2. \/ cfg' = Reports
          \/ cfg' = [cfg EXCEPT !.sources = Append(@, Entry("none"))]
          \/ cfg' = [cfg EXCEPT !.dumpers = Append(@, Entry("none"))]
          \/ cfg' = [cfg EXCEPT !.steps = Append(@, Place)]
          \/ cfg' = [cfg EXCEPT !.tag = Place]
          \/ cfg' = BindConfig
      <3> HIDE DEF Option
      <3>1. CASE ~Option.usable
        BY <3>1 DEF ApplyPlain, Applied
      <3>2. CASE Option.usable
        BY <2>1, <3>2 DEF ApplyPlain, Applied, Plain
      <3> QED BY <3>1, <3>2
    <2> QED BY <1>1, <2>2 DEF Reports, BindConfig, Configs
  <1> HIDE DEF Entry
  <1>6. /\ ToSet(cfg'.sources) \subseteq ToSet(cfg.sources) \cup {Entry("none")}
        /\ ToSet(cfg'.dumpers) \subseteq ToSet(cfg.dumpers) \cup {Entry("none")}
    BY <1>3, <1>4, <1>5, ToSetAppend
  <1> QED BY <1>3, <1>6 DEF EntriesOf

\* An option with a path makes at most one entry, with the path expanded.
LEMMA PathEntries ==
    ASSUME CallInv, ApplyPath
    PROVE  \A e \in EntriesOf(cfg') :
              \/ e \in EntriesOf(cfg)
              \/ ~FailsEarly /\ ~FailsLate /\ e = Entry(ExpandEnv(Captured))
  <1> DEFINE entry == Entry(ExpandEnv(Captured))
  <1>1. todo # << >> /\ todo \in Seq(Item) /\ cfg \in Configs
    BY DEF ApplyPath, Running, CallInv, TypeInv
  <1>2. entry \in Entries
    <2>1. Head(todo) \in Item
      BY <1>1, HeadTail
    <2> QED BY <2>1, ExpandEnvTyped, EntryTyped DEF CallInv
  <1>3. cfg.sources \in Seq(Entries) /\ cfg.dumpers \in Seq(Entries)
    BY <1>1 DEF Configs
  <1>4. CASE FailsEarly \/ FailsLate
    <2>1. cfg' = Reports
      BY <1>4 DEF ApplyPath, Applied
    <2>2. cfg'.sources = cfg.sources /\ cfg'.dumpers = cfg.dumpers
      BY <1>1, <2>1 DEF Reports, Configs
    <2> QED BY <2>2 DEF EntriesOf
  <1>5. CASE ~FailsEarly /\ ~FailsLate
    <2>1. \/ cfg' = [cfg EXCEPT !.dumpers = Append(@, entry)]
          \/ cfg' = [cfg EXCEPT !.sources = Append(@, entry)]
      BY <1>5 DEF ApplyPath, Applied
    <2> HIDE DEF entry
    <2>2. /\ cfg'.sources = cfg.sources \/ cfg'.sources = Append(cfg.sources, entry)
          /\ cfg'.dumpers = cfg.dumpers \/ cfg'.dumpers = Append(cfg.dumpers, entry)
      BY <1>1, <2>1 DEF Configs
    <2>3. /\ ToSet(cfg'.sources) \subseteq ToSet(cfg.sources) \cup {entry}
          /\ ToSet(cfg'.dumpers) \subseteq ToSet(cfg.dumpers) \cup {entry}
      BY <1>2, <1>3, <2>2, ToSetAppend
    <2>4. \A e \in EntriesOf(cfg') : e \in EntriesOf(cfg) \/ e = entry
      BY <2>3 DEF EntriesOf
    <2> QED BY <1>5, <2>4 DEF entry
  <1> QED BY <1>4, <1>5

\* It holds before the first call.
LEMMA InitPathInv == Init => PathInv
  BY DEF Init, PathInv, Running, NothingCaptured

\* Only ApplyPath makes an entry with a path, and it captures that path.
LEMMA NextPathInv == CallInv /\ PathInv /\ [Next]_vars => PathInv'
  <1> SUFFICES ASSUME CallInv, PathInv, [Next]_vars PROVE PathInv'
    OBVIOUS
  <1>1. CASE EnvChange
    <2>1. /\ UNCHANGED <<captured, todo, cfg, result, before>>
          /\ envs' = IF Running THEN envs \cup {env'} ELSE envs
      BY <1>1 DEF EnvChange
    <2>2. ASSUME NEW e, Fresh(e) PROVE Fresh(e)'
      BY <2>1, <2>2 DEF Fresh
    <2>3. Running' <=> Running
      BY <2>1 DEF Running
    <2>4. Running' \/ result' = "instance" => \A e \in EntriesOf(cfg') : Fresh(e)'
      BY <2>1, <2>2, <2>3 DEF PathInv
    <2> QED BY <2>1, <2>3, <2>4 DEF PathInv
  <1>2. CASE ConsulChange
    <2>1. UNCHANGED <<env, captured, todo, cfg, result, envs, before>>
      BY <1>2 DEF ConsulChange
    <2> QED BY <2>1 DEF PathInv, Running, Fresh
  <1>3. CASE Call
    <2>1. cfg' = DefaultConfig /\ envs' = {env} /\ before' = captured /\ UNCHANGED <<env, captured>>
      BY <1>3 DEF Call
    <2>2. EntriesOf(cfg') = {}
      BY <2>1, NoEntries
    <2> QED BY <2>1, <2>2 DEF PathInv
  <1>4. CASE Return
    <2>1. /\ cfg' = DefaultConfig /\ result' = "none" /\ todo' = todo /\ todo = << >>
          /\ captured' = captured \/ captured' = NothingCaptured
      BY <1>4 DEF Return, CallInv, TypeInv
    <2> QED BY <2>1 DEF PathInv, Running, NothingCaptured
  <1>5. CASE ApplyNil
    <2>1. Running /\ UNCHANGED <<env, captured, envs, before>>
      BY <1>5 DEF ApplyNil
    <2>2. EntriesOf(cfg') \subseteq EntriesOf(cfg)
      <3>1. CASE Len(Place) = 1
        <4>1. cfg' = Reports
          BY <1>5, <3>1 DEF ApplyNil, Applied
        <4>2. cfg'.sources = cfg.sources /\ cfg'.dumpers = cfg.dumpers
          BY <4>1 DEF Reports, CallInv, TypeInv, Configs
        <4> QED BY <4>2 DEF EntriesOf
      <3>2. CASE Len(Place) # 1
        BY <1>5, <3>2, NoEntries DEF ApplyNil
      <3> QED BY <3>1, <3>2
    <2> QED BY <2>1, <2>2 DEF PathInv, Fresh
  <1>6. CASE ApplyIf
    <2>1. Running /\ cfg' = cfg /\ UNCHANGED <<env, captured, envs, before>>
      BY <1>6 DEF ApplyIf, Applied
    <2> QED BY <2>1 DEF PathInv, Fresh
  <1>7. CASE ApplyPlain
    <2>1. Running /\ UNCHANGED <<env, captured, envs, before>>
      BY <1>7 DEF ApplyPlain
    <2>2. \A e \in EntriesOf(cfg') : e \in EntriesOf(cfg) \/ e.path = "none"
      BY <1>7, PlainEntries
    <2>3. \A e \in EntriesOf(cfg') : Fresh(e)'
      BY <2>1, <2>2 DEF PathInv, Fresh
    <2> QED BY <2>1, <2>3 DEF PathInv
  <1>8. CASE ApplyPath
    <2> DEFINE path == ExpandEnv(Captured)
    <2>1. Running /\ UNCHANGED <<env, envs, before>>
      BY <1>8 DEF ApplyPath
    <2> DEFINE x == Head(todo)
    <2>2. path = IF x \in DOMAIN captured THEN captured[x] ELSE env
      BY ExpandEnvTyped DEF CallInv
    <2>3. IF x.opt.kind # "consul" /\ x \in DOMAIN before THEN path = before[x] ELSE path \in envs
      BY <2>1, <2>2 DEF PathInv
    <2>4. \/ captured' = captured
          \/ /\ x.opt.kind # "consul"
             /\ captured' = [y \in DOMAIN captured \cup {x} |-> IF y = x THEN path ELSE captured[y]]
      BY <1>8 DEF ApplyPath, Expands, Option, Keeps
    <2>5. \A e \in EntriesOf(cfg') :
             e \in EntriesOf(cfg) \/ (~FailsEarly /\ ~FailsLate /\ e = Entry(path))
      BY <1>8, PathEntries
    <2>6. ~FailsLate /\ x.opt.kind \in Detects => path # ""
      BY DEF FailsLate, Option, DetectFormat
    <2>7. Entry(path).opt = x.opt /\ Entry(path).path = path /\ ItemOf(Entry(path)) = x
      <3>1. x \in Item
        BY <2>1, HeadTail DEF Running, CallInv, TypeInv
      <3> HIDE DEF path
      <3> QED BY <3>1 DEF Entry, ItemOf, Place, Option, Item
    <2> HIDE DEF path, x
    <2>8. \A e \in EntriesOf(cfg') : Fresh(e)'
      <3> TAKE e \in EntriesOf(cfg')
      <3>1. CASE e \in EntriesOf(cfg)
        BY <2>1, <3>1 DEF PathInv, Fresh
      <3>2. CASE ~FailsLate /\ e = Entry(path)
        BY <2>1, <2>3, <2>6, <2>7, <3>2 DEF Fresh
      <3> QED BY <2>5, <3>1, <3>2
    <2>9. /\ DOMAIN before \subseteq DOMAIN captured'
          /\ \A y \in DOMAIN before : captured'[y] = before[y]
          /\ \A y \in DOMAIN captured' \ DOMAIN before : captured'[y] \in envs
          /\ \A y \in DOMAIN captured' : y.opt.kind # "consul"
      BY <2>1, <2>3, <2>4 DEF PathInv
    <2> QED BY <2>1, <2>8, <2>9 DEF PathInv
  <1>9. CASE UNCHANGED vars
    BY <1>9 DEF vars, PathInv, Running, Fresh
  <1> QED BY <1>1, <1>2, <1>3, <1>4, <1>5, <1>6, <1>7, <1>8, <1>9 DEF Next

\* Each path is expanded in the environment of the New that made the source, those of
\* Consul always, those of files but for the options an earlier New applied; and where
\* it is empty the format was given (src/options.go:93, 132-134, 264, 285-290, 320-326).
THEOREM PathsCurrent == Spec => []PathsAreCurrent
  <1>1. PathInv => PathsAreCurrent
    BY DEF PathInv, PathsAreCurrent, Fresh, EntriesOf
  <1> QED BY <1>1, InitCallInv, NextCallInv, InitPathInv, NextPathInv, PTL DEF Spec
=============================================================================
