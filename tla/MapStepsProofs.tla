--------------------------- MODULE MapStepsProofs ---------------------------
(***************************************************************************)
(* Theorems about MapSteps, for maps nested to any depth, any number of    *)
(* sources and transforms, and every order of iteration.                   *)
(***************************************************************************)
EXTENDS MapSteps, SequenceTheorems, WellFoundedInduction, TLAPS

-----------------------------------------------------------------------------
(* Induction over the natural numbers, for a set of them                   *)

\* A set with 0 and with the successor of each of its numbers has all numbers:
\* there is no smallest one outside.
LEMMA NatSetInduction ==
    ASSUME NEW S, 0 \in S, \A n \in Nat : n \in S => n + 1 \in S
    PROVE  Nat \subseteq S
  <1> DEFINE T == Nat \ S
             R == {ss \in Nat \X Nat : ss[1] < ss[2]}
  <1> SUFFICES ASSUME T # {} PROVE FALSE
    OBVIOUS
  <1>1. IsWellFoundedOn(R, Nat)
    BY NatLessThanWellFounded, Zenon DEF OpToRel
  <1>2. PICK x \in T : \A y \in T : ~(<<y, x>> \in R)
    <2>1. T \subseteq Nat
      OBVIOUS
    <2> HIDE DEF T, R
    <2> QED BY <1>1, <2>1, WFMin
  <1>3. \A y \in Nat : y < x => y \notin T
    BY <1>2
  <1>4. x # 0 /\ x - 1 \in Nat /\ x - 1 < x
    OBVIOUS
  <1> QED BY <1>3, <1>4

-----------------------------------------------------------------------------
(* Lookups along a path                                                    *)

\* g is what the first 0..n keys lead to.
LeadsTo(g, m, keys, n) ==
    \A i \in 0..n : g[i] = IF i = 0 THEN {Node(m)} ELSE FoundIn(g[i - 1], keys[i])

\* The recursive function in Along exists.
LEMMA AlongExists ==
    ASSUME NEW m, NEW keys, Len(keys) \in Nat
    PROVE  \E g : LeadsTo(g, m, keys, Len(keys)) /\ Along(m, keys) = g[Len(keys)]
  <1> DEFINE N == Len(keys)
             Goes(f, k) == f = [i \in 0..k |-> IF i = 0 THEN {Node(m)}
                                               ELSE FoundIn(f[i - 1], keys[i])]
             S == {k \in Nat : \E f : Goes(f, k)}
  <1>1. 0 \in S
    <2>1. Goes([i \in 0..0 |-> {Node(m)}], 0)
      OBVIOUS
    <2> QED BY <2>1
  <1>2. ASSUME NEW k \in Nat, k \in S PROVE k + 1 \in S
    <2>1. PICK f : Goes(f, k)
      BY <1>2
    <2> DEFINE h == [i \in 0..(k + 1) |-> IF i = k + 1 THEN FoundIn(f[k], keys[i]) ELSE f[i]]
    <2>2. \A i \in 0..k : h[i] = f[i]
      OBVIOUS
    <2>3. h[k + 1] = FoundIn(h[k], keys[k + 1])
      BY <2>2
    <2>4. \A i \in 0..k : h[i] = IF i = 0 THEN {Node(m)} ELSE FoundIn(h[i - 1], keys[i])
      <3> TAKE i \in 0..k
      <3>1. h[i] = f[i] /\ (i # 0 => h[i - 1] = f[i - 1])
        BY <2>2
      <3>2. f[i] = IF i = 0 THEN {Node(m)} ELSE FoundIn(f[i - 1], keys[i])
        BY <2>1
      <3> HIDE DEF h
      <3> QED BY <3>1, <3>2
    <2>5. \A i \in 0..(k + 1) : i # k + 1 => i \in 0..k
      OBVIOUS
    <2>6. h = [i \in 0..(k + 1) |-> h[i]]
      OBVIOUS
    <2>7. \A i \in 0..(k + 1) : h[i] = IF i = 0 THEN {Node(m)} ELSE FoundIn(h[i - 1], keys[i])
      <3> HIDE DEF h
      <3> TAKE i \in 0..(k + 1)
      <3>1. CASE i = k + 1
        <4>1. i # 0 /\ i - 1 = k
          BY <3>1
        <4> QED BY <2>3, <3>1, <4>1
      <3>2. CASE i # k + 1
        BY <2>4, <2>5, <3>2
      <3> QED BY <3>1, <3>2
    <2>8. Goes(h, k + 1)
      <3> HIDE DEF h
      <3> QED BY <2>6, <2>7
    <2> HIDE DEF h, Goes
    <2> QED BY <2>8
  <1>3. N \in S
    <2> HIDE DEF S
    <2> QED BY <1>1, <1>2, NatSetInduction
  <1> DEFINE g == CHOOSE f : Goes(f, N)
  <1>4. Goes(g, N)
    BY <1>3
  <1>5. Along(m, keys) = g[N]
    BY DEF Along
  <1> HIDE DEF g
  <1> QED BY <1>4, <1>5 DEF LeadsTo

\* What leads to two functions by the same keys is the same.
LEMMA LeadsToOne ==
    ASSUME NEW m, NEW p, NEW q, NEW g, NEW h, NEW n \in Nat,
           LeadsTo(g, m, p, n), LeadsTo(h, m, q, n), \A i \in 1..n : p[i] = q[i]
    PROVE  g[n] = h[n]
  <1> DEFINE S == {k \in Nat : k <= n => g[k] = h[k]}
  <1>1. 0 \in S
    <2>1. 0 \in 0..n
      OBVIOUS
    <2>2. g[0] = {Node(m)} /\ h[0] = {Node(m)}
      BY <2>1 DEF LeadsTo
    <2> QED BY <2>2
  <1>2. ASSUME NEW k \in Nat, k \in S PROVE k + 1 \in S
    <2>1. SUFFICES ASSUME k + 1 <= n PROVE g[k + 1] = h[k + 1]
      OBVIOUS
    <2>2. k + 1 \in 0..n /\ k + 1 \in 1..n /\ k + 1 # 0 /\ (k + 1) - 1 = k
      BY <2>1
    <2>3. g[k] = h[k]
      BY <1>2, <2>1
    <2>4. g[k + 1] = FoundIn(g[k], p[k + 1])
      BY <2>2 DEF LeadsTo
    <2>5. h[k + 1] = FoundIn(h[k], q[k + 1])
      BY <2>2 DEF LeadsTo
    <2>6. p[k + 1] = q[k + 1]
      BY <2>2
    <2> QED BY <2>3, <2>4, <2>5, <2>6
  <1>3. n \in S
    <2> HIDE DEF S
    <2> QED BY <1>1, <1>2, NatSetInduction
  <1> QED BY <1>3

\* No key leads to the map itself.
LEMMA AlongEmpty ==
    ASSUME NEW m
    PROVE  Along(m, << >>) = {Node(m)}
  <1>1. Len(<< >>) = 0
    OBVIOUS
  <1>2. PICK g : LeadsTo(g, m, << >>, 0) /\ Along(m, << >>) = g[0]
    BY <1>1, AlongExists
  <1> QED BY <1>2 DEF LeadsTo

\* One key more is one step more.
LEMMA AlongAppend ==
    ASSUME NEW m, NEW K, NEW p \in Seq(K), NEW k \in K
    PROVE  Along(m, Append(p, k)) = FoundIn(Along(m, p), k)
  <1> DEFINE N == Len(p)
             q == Append(p, k)
  <1>1. N \in Nat /\ Len(q) = N + 1 /\ q[N + 1] = k /\ \A i \in 1..N : p[i] = q[i]
    BY AppendProperties
  <1>2. PICK g : LeadsTo(g, m, p, N) /\ Along(m, p) = g[N]
    BY <1>1, AlongExists
  <1>3. PICK h : LeadsTo(h, m, q, N + 1) /\ Along(m, q) = h[N + 1]
    <2> HIDE DEF q
    <2>1. Len(q) \in Nat
      BY <1>1
    <2> QED BY <1>1, <2>1, AlongExists
  <1> HIDE DEF q, N
  <1>4. LeadsTo(h, m, q, N)
    <2>1. \A i \in 0..N : i \in 0..(N + 1)
      BY <1>1
    <2> QED BY <1>3, <2>1 DEF LeadsTo
  <1>5. g[N] = h[N]
    BY <1>1, <1>2, <1>4, LeadsToOne
  <1>6. h[N + 1] = FoundIn(h[N], q[N + 1])
    <2>1. N + 1 \in 0..(N + 1) /\ N + 1 # 0 /\ (N + 1) - 1 = N
      BY <1>1
    <2> QED BY <1>3, <2>1 DEF LeadsTo
  <1>7. Along(m, q) = FoundIn(Along(m, p), k)
    BY <1>1, <1>2, <1>3, <1>5, <1>6
  <1> QED BY <1>7 DEF q

\* What the rest p of a path leads to from value v.
Onward(v, p) == IF p = << >> THEN {v} ELSE IF IsNode(v) THEN Along(v.map, p) ELSE {Missing}

\* The same from several values.
OnwardAll(vs, p) == UNION {Onward(v, p) : v \in vs}

\* Looking into one value.
LEMMA FoundInOne ==
    \A v, k : FoundIn({v}, k) = Found(v, k)
  BY DEF FoundIn

\* One key more is one step more from any value.
LEMMA OnwardAppend ==
    ASSUME NEW K, NEW p \in Seq(K), NEW k \in K, NEW v
    PROVE  Onward(v, Append(p, k)) = FoundIn(Onward(v, p), k)
  <1>1. Append(p, k) # << >>
    <2>1. Len(Append(p, k)) = Len(p) + 1 /\ Len(p) \in Nat /\ Len(<< >>) = 0
      BY AppendProperties
    <2> QED BY <2>1
  <1>4. \A x : \A q \in Seq(K), l \in K : Along(x, Append(q, l)) = FoundIn(Along(x, q), l)
    BY AlongAppend
  <1>2. CASE IsNode(v)
    <2>1. Onward(v, Append(p, k)) = FoundIn(Along(v.map, p), k)
      <3> DEFINE m == v.map
      <3>1. Onward(v, Append(p, k)) = Along(m, Append(p, k))
        BY <1>1, <1>2 DEF Onward
      <3> HIDE DEF m
      <3>2. Along(m, Append(p, k)) = FoundIn(Along(m, p), k)
        BY <1>4
      <3>3. Onward(v, Append(p, k)) = FoundIn(Along(m, p), k)
        BY <3>1, <3>2
      <3> QED BY <3>3 DEF m
    <2>2. CASE p = << >>
      <3>1. Along(v.map, p) = {Node(v.map)}
        BY <2>2, AlongEmpty
      <3>2. Found(Node(v.map), k) = Found(v, k)
        BY <1>2 DEF Found, Node, IsNode
      <3>3. Onward(v, p) = {v}
        BY <2>2 DEF Onward
      <3> QED BY <2>1, <3>1, <3>2, <3>3, FoundInOne
    <2>3. CASE p # << >>
      BY <1>2, <2>1, <2>3 DEF Onward
    <2> QED BY <2>2, <2>3
  <1>3. CASE ~IsNode(v)
    <2>1. Onward(v, Append(p, k)) = {Missing}
      BY <1>1, <1>3 DEF Onward
    <2>2. Onward(v, p) = {v} \/ Onward(v, p) = {Missing}
      BY <1>3 DEF Onward
    <2>3. Found(v, k) = {Missing}
      BY <1>3 DEF Found
    <2>4. Found(Missing, k) = {Missing}
      BY DEF Found, Missing, IsNode
    <2> QED BY <2>1, <2>2, <2>3, <2>4, FoundInOne
  <1> QED BY <1>2, <1>3

\* The first key, and then the rest from what it leads to.
LEMMA AlongHead ==
    ASSUME NEW K, NEW m, NEW k \in K, NEW p \in Seq(K)
    PROVE  Along(m, <<k>> \o p) = OnwardAll(Found(Node(m), k), p)
  <1> DEFINE Splits(q) == Along(m, <<k>> \o q) = OnwardAll(Found(Node(m), k), q)
             S == {n \in Nat : \A q \in Seq(K) : Len(q) = n => Splits(q)}
  <1>4. \A x : \A q \in Seq(K), l \in K : Along(x, Append(q, l)) = FoundIn(Along(x, q), l)
    BY AlongAppend
  <1>1. 0 \in S
    <2>1. ASSUME NEW q \in Seq(K), Len(q) = 0 PROVE Splits(q)
      <3>1. q = << >> /\ <<k>> \o q = Append(<< >>, k) /\ << >> \in Seq(K)
        BY <2>1
      <3>2. Along(m, Append(<< >>, k)) = FoundIn(Along(m, << >>), k)
        BY <1>4, <3>1, Zenon
      <3>3. Along(m, << >>) = {Node(m)}
        BY AlongEmpty
      <3>4. \A v : Onward(v, q) = {v}
        BY <3>1 DEF Onward
      <3>5. Along(m, <<k>> \o q) = Found(Node(m), k)
        BY <3>1, <3>2, <3>3, FoundInOne
      <3>6. OnwardAll(Found(Node(m), k), q) = Found(Node(m), k)
        BY <3>4 DEF OnwardAll
      <3> QED BY <3>5, <3>6
    <2> HIDE DEF Splits
    <2> QED BY <2>1
  <1>2. ASSUME NEW n \in Nat, n \in S PROVE n + 1 \in S
    <2>1. ASSUME NEW q \in Seq(K), Len(q) = n + 1 PROVE Splits(q)
      <3> DEFINE r == SubSeq(q, 1, n)
                 l == q[n + 1]
      <3>1. q = Append(r, l) /\ r \in Seq(K) /\ l \in K /\ Len(r) = n
        BY <2>1
      <3>2. <<k>> \o r \in Seq(K) /\ <<k>> \o q = Append(<<k>> \o r, l)
        BY <2>1
      <3> HIDE DEF r, l
      <3>3. Along(m, <<k>> \o r) = OnwardAll(Found(Node(m), k), r)
        BY <1>2, <3>1
      <3>4. Along(m, Append(<<k>> \o r, l)) = FoundIn(Along(m, <<k>> \o r), l)
        BY <1>4, <3>1, <3>2, Zenon
      <3>5. \A v : Onward(v, Append(r, l)) = FoundIn(Onward(v, r), l)
        BY <3>1, OnwardAppend
      <3>6. Along(m, <<k>> \o q) = FoundIn(OnwardAll(Found(Node(m), k), r), l)
        BY <3>2, <3>3, <3>4
      <3>7. @ = UNION {FoundIn(Onward(v, r), l) : v \in Found(Node(m), k)}
        BY DEF FoundIn, OnwardAll
      <3>8. @ = OnwardAll(Found(Node(m), k), q)
        BY <3>1, <3>5 DEF OnwardAll
      <3> QED BY <3>6, <3>7, <3>8
    <2> HIDE DEF Splits
    <2> QED BY <2>1
  <1>3. Len(p) \in S
    <2> HIDE DEF S
    <2>1. Len(p) \in Nat
      OBVIOUS
    <2> QED BY <1>1, <1>2, <2>1, NatSetInduction
  <1> QED BY <1>3

-----------------------------------------------------------------------------
(* The pairs of maps in the same place of two maps                         *)

\* g is the pairs of the first levels.
Levels(g, x, y, n) == \A i \in 0..n : g[i] = IF i = 0 THEN {<<x, y>>} ELSE CommonIn(g[i - 1])

\* The recursive function in PairsAt exists.
LEMMA PairsExist ==
    ASSUME NEW x, NEW y, NEW n \in Nat
    PROVE  \E g : Levels(g, x, y, n) /\ PairsAt(x, y, n) = g[n]
  <1> DEFINE Goes(f, k) == f = [i \in 0..k |-> IF i = 0 THEN {<<x, y>>} ELSE CommonIn(f[i - 1])]
             S == {k \in Nat : \E f : Goes(f, k)}
  <1>1. 0 \in S
    <2>1. Goes([i \in 0..0 |-> {<<x, y>>}], 0)
      OBVIOUS
    <2> QED BY <2>1
  <1>2. ASSUME NEW k \in Nat, k \in S PROVE k + 1 \in S
    <2>1. PICK f : Goes(f, k)
      BY <1>2
    <2> DEFINE h == [i \in 0..(k + 1) |-> IF i = k + 1 THEN CommonIn(f[k]) ELSE f[i]]
    <2>2. \A i \in 0..k : h[i] = f[i]
      OBVIOUS
    <2>3. h[k + 1] = CommonIn(h[k])
      BY <2>2
    <2>4. \A i \in 0..k : h[i] = IF i = 0 THEN {<<x, y>>} ELSE CommonIn(h[i - 1])
      <3> TAKE i \in 0..k
      <3>1. h[i] = f[i] /\ (i # 0 => h[i - 1] = f[i - 1])
        BY <2>2
      <3>2. f[i] = IF i = 0 THEN {<<x, y>>} ELSE CommonIn(f[i - 1])
        BY <2>1
      <3> HIDE DEF h
      <3> QED BY <3>1, <3>2
    <2>5. \A i \in 0..(k + 1) : i # k + 1 => i \in 0..k
      OBVIOUS
    <2>6. h = [i \in 0..(k + 1) |-> h[i]]
      OBVIOUS
    <2>7. \A i \in 0..(k + 1) : h[i] = IF i = 0 THEN {<<x, y>>} ELSE CommonIn(h[i - 1])
      <3> HIDE DEF h
      <3> TAKE i \in 0..(k + 1)
      <3>1. CASE i = k + 1
        <4>1. i # 0 /\ i - 1 = k
          BY <3>1
        <4> QED BY <2>3, <3>1, <4>1
      <3>2. CASE i # k + 1
        BY <2>4, <2>5, <3>2
      <3> QED BY <3>1, <3>2
    <2>8. Goes(h, k + 1)
      <3> HIDE DEF h
      <3> QED BY <2>6, <2>7
    <2> HIDE DEF h, Goes
    <2> QED BY <2>8
  <1>3. n \in S
    <2> HIDE DEF S
    <2> QED BY <1>1, <1>2, NatSetInduction
  <1> DEFINE g == CHOOSE f : Goes(f, n)
  <1>4. Goes(g, n)
    BY <1>3
  <1>5. PairsAt(x, y, n) = g[n]
    BY DEF PairsAt
  <1> HIDE DEF g
  <1> QED BY <1>4, <1>5 DEF Levels

\* There is one such function.
LEMMA LevelsAreOne ==
    ASSUME NEW x, NEW y, NEW g, NEW h, NEW n \in Nat, Levels(g, x, y, n), Levels(h, x, y, n)
    PROVE  g[n] = h[n]
  <1> DEFINE S == {k \in Nat : k <= n => g[k] = h[k]}
  <1>1. 0 \in S
    <2>1. 0 \in 0..n
      OBVIOUS
    <2>2. g[0] = {<<x, y>>} /\ h[0] = {<<x, y>>}
      BY <2>1 DEF Levels
    <2> QED BY <2>2
  <1>2. ASSUME NEW k \in Nat, k \in S PROVE k + 1 \in S
    <2>1. SUFFICES ASSUME k + 1 <= n PROVE g[k + 1] = h[k + 1]
      OBVIOUS
    <2>2. k + 1 \in 0..n /\ k + 1 # 0 /\ (k + 1) - 1 = k
      BY <2>1
    <2>3. g[k] = h[k]
      BY <1>2, <2>1
    <2>4. g[k + 1] = CommonIn(g[k]) /\ h[k + 1] = CommonIn(h[k])
      BY <2>2 DEF Levels
    <2> QED BY <2>3, <2>4
  <1>3. n \in S
    <2> HIDE DEF S
    <2> QED BY <1>1, <1>2, NatSetInduction
  <1> QED BY <1>3

\* The first level is the pair of the maps themselves.
LEMMA PairsZero ==
    ASSUME NEW x, NEW y
    PROVE  PairsAt(x, y, 0) = {<<x, y>>}
  <1>1. PICK g : Levels(g, x, y, 0) /\ PairsAt(x, y, 0) = g[0]
    BY PairsExist
  <1> QED BY <1>1 DEF Levels

\* One level more.
LEMMA PairsNext ==
    ASSUME NEW x, NEW y, NEW n \in Nat
    PROVE  PairsAt(x, y, n + 1) = CommonIn(PairsAt(x, y, n))
  <1>1. PICK g : Levels(g, x, y, n) /\ PairsAt(x, y, n) = g[n]
    BY PairsExist
  <1>2. PICK h : Levels(h, x, y, n + 1) /\ PairsAt(x, y, n + 1) = h[n + 1]
    <2> DEFINE N == n + 1
    <2>1. N \in Nat
      OBVIOUS
    <2> HIDE DEF N
    <2>2. PICK h : Levels(h, x, y, N) /\ PairsAt(x, y, N) = h[N]
      BY <2>1, PairsExist
    <2> QED BY <2>2 DEF N
  <1>3. Levels(h, x, y, n)
    <2>1. \A i \in 0..n : i \in 0..(n + 1)
      OBVIOUS
    <2> QED BY <1>2, <2>1 DEF Levels
  <1>4. g[n] = h[n]
    BY <1>1, <1>3, LevelsAreOne
  <1>5. h[n + 1] = CommonIn(h[n])
    <2>1. n + 1 \in 0..(n + 1) /\ n + 1 # 0 /\ (n + 1) - 1 = n
      OBVIOUS
    <2> QED BY <1>2, <2>1 DEF Levels
  <1> QED BY <1>1, <1>2, <1>4, <1>5

\* The pairs n levels inside those of a set.
PairsFrom(pairs, n) == UNION {PairsAt(w[1], w[2], n) : w \in pairs}

\* The first level, and then the others from there.
LEMMA PairsHead ==
    ASSUME NEW x, NEW y, NEW n \in Nat
    PROVE  PairsAt(x, y, n + 1) = PairsFrom(Common(x, y), n)
  <1> DEFINE S == {k \in Nat : PairsAt(x, y, k + 1) = PairsFrom(Common(x, y), k)}
  <1>1. 0 \in S
    <2>1. PairsAt(x, y, 0 + 1) = CommonIn({<<x, y>>})
      BY PairsZero, PairsNext
    <2>2. CommonIn({<<x, y>>}) = Common(x, y)
      BY DEF CommonIn
    <2>3. \A w \in Common(x, y) : PairsAt(w[1], w[2], 0) = {w}
      <3>1. \A w \in Common(x, y) : w = <<w[1], w[2]>>
        BY DEF Common
      <3>2. \A w \in Common(x, y) : PairsAt(w[1], w[2], 0) = {<<w[1], w[2]>>}
        BY PairsZero
      <3> QED BY <3>1, <3>2
    <2>4. PairsFrom(Common(x, y), 0) = Common(x, y)
      BY <2>3 DEF PairsFrom
    <2> QED BY <2>1, <2>2, <2>4
  <1>2. ASSUME NEW k \in Nat, k \in S PROVE k + 1 \in S
    <2>1. PairsAt(x, y, k + 1) = PairsFrom(Common(x, y), k)
      BY <1>2
    <2>2. PairsAt(x, y, (k + 1) + 1) = CommonIn(PairsAt(x, y, k + 1))
      <3> DEFINE N == k + 1
      <3>1. N \in Nat
        OBVIOUS
      <3> HIDE DEF N
      <3>2. PairsAt(x, y, N + 1) = CommonIn(PairsAt(x, y, N))
        BY <3>1, PairsNext
      <3> QED BY <3>2 DEF N
    <2>3. CommonIn(PairsFrom(Common(x, y), k)) = UNION {CommonIn(PairsAt(w[1], w[2], k)) : w \in Common(x, y)}
      BY DEF CommonIn, PairsFrom
    <2>4. \A w : CommonIn(PairsAt(w[1], w[2], k)) = PairsAt(w[1], w[2], k + 1)
      BY PairsNext
    <2>5. UNION {CommonIn(PairsAt(w[1], w[2], k)) : w \in Common(x, y)} = PairsFrom(Common(x, y), k + 1)
      BY <2>4 DEF PairsFrom
    <2>6. PairsAt(x, y, (k + 1) + 1) = PairsFrom(Common(x, y), k + 1)
      BY <2>1, <2>2, <2>3, <2>5
    <2> QED BY <2>6
  <1>3. n \in S
    <2> HIDE DEF S
    <2> QED BY <1>1, <1>2, NatSetInduction
  <1> QED BY <1>3

-----------------------------------------------------------------------------
(* Maps whose keys do not differ in case only, and keys that are kept      *)

\* A key a lookup can find.
Named(k) == k.fold # Nameless.fold

\* FoldUniqueTo for the map itself.
HereOK(m) == FoldUniqueHere(m) /\ \A k \in DOMAIN m : m[k] # Missing

\* x and y have maps under key k, where a lookup can find them.
Shared(x, y, k) == k \in DOMAIN x /\ k \in DOMAIN y /\ Named(k) /\ IsNode(x[k]) /\ IsNode(y[k])

\* A key at which both have maps makes a pair.
LEMMA InCommon ==
    \A x, y, k : Shared(x, y, k) => <<x[k].map, y[k].map>> \in Common(x, y)
  BY DEF Common, Shared, Named

\* Every pair comes from such a key.
LEMMA FromCommon ==
    \A x, y : \A v \in Common(x, y) : \E k : Shared(x, y, k) /\ v[1] = x[k].map /\ v[2] = y[k].map
  BY DEF Common, Shared, Named

\* The keys of the first n + 1 levels are unique when those of the map are, and n
\* levels of the maps a lookup can find under them.
LEMMA FoldUniqueHead ==
    ASSUME NEW m, NEW n \in Nat
    PROVE  FoldUniqueTo(m, n + 1) <=>
              /\ HereOK(m)
              /\ \A k \in DOMAIN m : Named(k) /\ IsNode(m[k]) => FoldUniqueTo(m[k].map, n)
  <1> DEFINE Good(i) == \A w \in PairsAt(m, m, i) : HereOK(w[1])
  <1>1. FoldUniqueTo(m, n + 1) <=> \A i \in 0..n : Good(i)
    <2>1. (n + 1) - 1 = n
      OBVIOUS
    <2> QED BY <2>1 DEF FoldUniqueTo, HereOK
  <1>2. Good(0) <=> HereOK(m)
    <2>1. PairsAt(m, m, 0) = {<<m, m>>}
      BY PairsZero
    <2>2. <<m, m>>[1] = m
      OBVIOUS
    <2>3. Good(0) <=> \A w \in {<<m, m>>} : HereOK(w[1])
      BY <2>1
    <2> HIDE DEF Good
    <2> QED BY <2>2, <2>3
  <1>3. ASSUME NEW i \in Nat
        PROVE  Good(i + 1) <=>
                  \A k \in DOMAIN m : Named(k) /\ IsNode(m[k]) =>
                      \A w \in PairsAt(m[k].map, m[k].map, i) : HereOK(w[1])
    <2>1. PairsAt(m, m, i + 1) = PairsFrom(Common(m, m), i)
      BY PairsHead
    <2>2. Good(i + 1) <=> \A v \in Common(m, m) : \A w \in PairsAt(v[1], v[2], i) : HereOK(w[1])
      BY <2>1 DEF PairsFrom
    <2> DEFINE Deep(x, y) == \A w \in PairsAt(x, y, i) : HereOK(w[1])
    <2>3. Good(i + 1) <=> \A v \in Common(m, m) : Deep(v[1], v[2])
      BY <2>2
    <2> HIDE DEF Good, Deep
    <2>4. (\A v \in Common(m, m) : Deep(v[1], v[2])) <=>
              \A k \in DOMAIN m : Named(k) /\ IsNode(m[k]) => Deep(m[k].map, m[k].map)
      <3>1. ASSUME \A v \in Common(m, m) : Deep(v[1], v[2]),
                   NEW k \in DOMAIN m, Named(k), IsNode(m[k])
            PROVE  Deep(m[k].map, m[k].map)
        <4>1. Shared(m, m, k)
          BY <3>1 DEF Shared
        <4> DEFINE x == m[k].map
        <4>2. <<x, x>> \in Common(m, m)
          BY <4>1, InCommon
        <4> HIDE DEF x
        <4>3. Deep(x, x)
          <5> DEFINE v == <<x, x>>
          <5>1. v[1] = x /\ v[2] = x
            OBVIOUS
          <5> HIDE DEF v
          <5>2. v \in Common(m, m)
            BY <4>2 DEF v
          <5> QED BY <3>1, <5>1, <5>2
        <4> QED BY <4>3 DEF x
      <3>2. ASSUME \A k \in DOMAIN m : Named(k) /\ IsNode(m[k]) => Deep(m[k].map, m[k].map),
                   NEW v \in Common(m, m)
            PROVE  Deep(v[1], v[2])
        BY <3>2, FromCommon DEF Shared
      <3> QED BY <3>1, <3>2
    <2>5. Good(i + 1) <=> \A k \in DOMAIN m : Named(k) /\ IsNode(m[k]) => Deep(m[k].map, m[k].map)
      BY <2>3, <2>4
    <2> QED BY <2>5 DEF Deep
  <1>4. \A x : FoldUniqueTo(x, n) <=> \A i \in 0..(n - 1) : \A w \in PairsAt(x, x, i) : HereOK(w[1])
    BY DEF FoldUniqueTo, HereOK
  <1> HIDE DEF Good
  <1>5. (\A i \in 0..n : Good(i)) <=> Good(0) /\ \A i \in 0..(n - 1) : Good(i + 1)
    <2>1. ASSUME Good(0), \A i \in 0..(n - 1) : Good(i + 1), NEW i \in 0..n PROVE Good(i)
      <3>1. CASE i = 0
        BY <2>1, <3>1
      <3>2. CASE i # 0
        <4> DEFINE j == i - 1
        <4>1. j \in 0..(n - 1) /\ j + 1 = i
          BY <3>2
        <4> HIDE DEF j
        <4> QED BY <2>1, <4>1
      <3> QED BY <3>1, <3>2
    <2>2. 0 \in 0..n /\ \A i \in 0..(n - 1) : i + 1 \in 0..n
      OBVIOUS
    <2> QED BY <2>1, <2>2
  <1>6. (\A i \in 0..(n - 1) : Good(i + 1)) <=>
           \A k \in DOMAIN m : Named(k) /\ IsNode(m[k]) => FoldUniqueTo(m[k].map, n)
    <2>1. \A i \in 0..(n - 1) : i \in Nat
      OBVIOUS
    <2> QED BY <1>3, <1>4, <2>1
  <1> QED BY <1>1, <1>2, <1>5, <1>6

\* The keys of the first n + 1 levels are kept when those of the map are, and n
\* levels of the maps both have under them.
LEMMA KeysKeptHead ==
    ASSUME NEW x, NEW y, NEW n \in Nat
    PROVE  KeysKept(x, y, n + 1) <=>
              /\ DOMAIN x \subseteq DOMAIN y
              /\ \A k \in DOMAIN x \cap DOMAIN y : Named(k) /\ IsNode(x[k]) /\ IsNode(y[k]) =>
                    KeysKept(x[k].map, y[k].map, n)
  <1> DEFINE Here(w) == DOMAIN w[1] \subseteq DOMAIN w[2]
             Good(i) == \A w \in PairsAt(x, y, i) : Here(w)
  <1>1. KeysKept(x, y, n + 1) <=> \A i \in 0..n : Good(i)
    <2>1. (n + 1) - 1 = n
      OBVIOUS
    <2> QED BY <2>1 DEF KeysKept
  <1>2. Good(0) <=> DOMAIN x \subseteq DOMAIN y
    <2>1. PairsAt(x, y, 0) = {<<x, y>>}
      BY PairsZero
    <2>2. Good(0) <=> Here(<<x, y>>)
      <3> HIDE DEF Here
      <3> QED BY <2>1
    <2> HIDE DEF Good
    <2> QED BY <2>2
  <1>3. \A v, w : KeysKept(v, w, n) <=> \A i \in 0..(n - 1) : \A u \in PairsAt(v, w, i) : Here(u)
    BY DEF KeysKept
  <1> HIDE DEF Here
  <1>4. ASSUME NEW i \in Nat
        PROVE  Good(i + 1) <=>
                  \A k \in DOMAIN x \cap DOMAIN y : Named(k) /\ IsNode(x[k]) /\ IsNode(y[k]) =>
                      \A w \in PairsAt(x[k].map, y[k].map, i) : Here(w)
    <2>1. PairsAt(x, y, i + 1) = PairsFrom(Common(x, y), i)
      BY PairsHead
    <2>2. Good(i + 1) <=> \A v \in Common(x, y) : \A w \in PairsAt(v[1], v[2], i) : Here(w)
      BY <2>1 DEF PairsFrom
    <2> DEFINE Deep(a, b) == \A w \in PairsAt(a, b, i) : Here(w)
    <2>3. Good(i + 1) <=> \A v \in Common(x, y) : Deep(v[1], v[2])
      BY <2>2
    <2> HIDE DEF Good, Deep
    <2>4. (\A v \in Common(x, y) : Deep(v[1], v[2])) <=>
              \A k \in DOMAIN x \cap DOMAIN y : Named(k) /\ IsNode(x[k]) /\ IsNode(y[k]) => Deep(x[k].map, y[k].map)
      <3>1. ASSUME \A v \in Common(x, y) : Deep(v[1], v[2]),
                   NEW k \in DOMAIN x \cap DOMAIN y, Named(k), IsNode(x[k]), IsNode(y[k])
            PROVE  Deep(x[k].map, y[k].map)
        <4>1. Shared(x, y, k)
          BY <3>1 DEF Shared
        <4> DEFINE a == x[k].map
                   b == y[k].map
        <4>2. <<a, b>> \in Common(x, y)
          BY <4>1, InCommon
        <4> HIDE DEF a, b
        <4>3. Deep(a, b)
          <5> DEFINE v == <<a, b>>
          <5>1. v[1] = a /\ v[2] = b
            OBVIOUS
          <5> HIDE DEF v
          <5>2. v \in Common(x, y)
            BY <4>2 DEF v
          <5> QED BY <3>1, <5>1, <5>2
        <4> QED BY <4>3 DEF a, b
      <3>2. ASSUME \A k \in DOMAIN x \cap DOMAIN y :
                       Named(k) /\ IsNode(x[k]) /\ IsNode(y[k]) => Deep(x[k].map, y[k].map),
                   NEW v \in Common(x, y)
            PROVE  Deep(v[1], v[2])
        BY <3>2, FromCommon DEF Shared
      <3> QED BY <3>1, <3>2
    <2>5. Good(i + 1) <=>
              \A k \in DOMAIN x \cap DOMAIN y :
                  Named(k) /\ IsNode(x[k]) /\ IsNode(y[k]) => Deep(x[k].map, y[k].map)
      BY <2>3, <2>4
    <2> QED BY <2>5 DEF Deep
  <1> HIDE DEF Good
  <1>5. (\A i \in 0..n : Good(i)) <=> Good(0) /\ \A i \in 0..(n - 1) : Good(i + 1)
    <2>1. ASSUME Good(0), \A i \in 0..(n - 1) : Good(i + 1), NEW i \in 0..n PROVE Good(i)
      <3>1. CASE i = 0
        BY <2>1, <3>1
      <3>2. CASE i # 0
        <4> DEFINE j == i - 1
        <4>1. j \in 0..(n - 1) /\ j + 1 = i
          BY <3>2
        <4> HIDE DEF j
        <4> QED BY <2>1, <4>1
      <3> QED BY <3>1, <3>2
    <2>2. 0 \in 0..n /\ \A i \in 0..(n - 1) : i + 1 \in 0..n
      OBVIOUS
    <2> QED BY <2>1, <2>2
  <1>6. (\A i \in 0..(n - 1) : Good(i + 1)) <=>
           \A k \in DOMAIN x \cap DOMAIN y : Named(k) /\ IsNode(x[k]) /\ IsNode(y[k]) =>
               KeysKept(x[k].map, y[k].map, n)
    <2>1. \A i \in 0..(n - 1) : i \in Nat
      OBVIOUS
    <2> QED BY <1>3, <1>4, <2>1
  <1> QED BY <1>1, <1>2, <1>5, <1>6

\* A map keeps its own keys.
LEMMA KeysKeptSelf ==
    ASSUME NEW n \in Nat
    PROVE  \A x : KeysKept(x, x, n)
  <1> DEFINE S == {i \in Nat : \A x : \A w \in PairsAt(x, x, i) : w[1] = w[2]}
  <1>1. 0 \in S
    BY PairsZero
  <1>2. ASSUME NEW i \in Nat, i \in S PROVE i + 1 \in S
    <2>1. ASSUME NEW x, NEW w \in PairsAt(x, x, i + 1) PROVE w[1] = w[2]
      <3>1. PICK v \in PairsAt(x, x, i) : w \in Common(v[1], v[2])
        BY PairsNext DEF CommonIn
      <3>2. v[1] = v[2]
        BY <1>2
      <3> QED BY <3>1, <3>2 DEF Common
    <2> QED BY <2>1
  <1>3. Nat \subseteq S
    <2> HIDE DEF S
    <2> QED BY <1>1, <1>2, NatSetInduction
  <1>4. \A i \in 0..(n - 1) : i \in Nat
    OBVIOUS
  <1> QED BY <1>3, <1>4 DEF KeysKept

-----------------------------------------------------------------------------
(* Lookups in maps whose keys do not differ in case only                   *)

\* What is found is a key of the map that folds alike, and is not the empty string.
LEMMA FindKeyFoldSound ==
    \A m, k : \A d \in FindKeyFold(m, k) : d \in DOMAIN m /\ d.fold = k.fold /\ Named(k)
  BY DEF FindKeyFold, Named

\* Nothing is found when no key folds alike.
LEMMA FindKeyFoldNone ==
    \A m, k : FindKeyFold(m, k) = {} /\ Named(k) => \A d \in DOMAIN m : d.fold # k.fold
  BY DEF FindKeyFold, Named

\* Among unique keys one is found.
LEMMA FindKeyFoldOnly ==
    ASSUME NEW m, NEW k, NEW d \in DOMAIN m, FoldUniqueHere(m), Named(k), d.fold = k.fold
    PROVE  FindKeyFold(m, k) = {d}
  <1>1. \A x \in DOMAIN m : x.fold = k.fold => x = d
    BY DEF FoldUniqueHere, Named
  <1>2. CASE k \in DOMAIN m
    BY <1>1, <1>2 DEF FindKeyFold, Named
  <1>3. CASE k \notin DOMAIN m
    BY <1>1, <1>3 DEF FindKeyFold, Named
  <1> QED BY <1>2, <1>3

\* Among unique keys a lookup finds the value of the one that folds alike.
LEMMA FoundOne ==
    ASSUME NEW m, NEW k, NEW d \in DOMAIN m, FoldUniqueHere(m), Named(k), d.fold = k.fold
    PROVE  Found(Node(m), k) = {m[d]}
  <1>1. FindKeyFold(m, k) = {d}
    BY FindKeyFoldOnly
  <1>2. IsNode(Node(m)) /\ Node(m).map = m
    BY DEF IsNode, Node
  <1> QED BY <1>1, <1>2 DEF Found

\* A lookup of a key that is not there, or of the empty string, finds nothing.
LEMMA FoundNone ==
    ASSUME NEW m, NEW k, Named(k) => \A d \in DOMAIN m : d.fold # k.fold
    PROVE  Found(Node(m), k) = {Missing}
  <1>1. FindKeyFold(m, k) = {}
    BY FindKeyFoldSound
  <1>2. IsNode(Node(m)) /\ Node(m).map = m
    BY DEF IsNode, Node
  <1> QED BY <1>1, <1>2 DEF Found

\* What a reader finds along q from value v.
ReadOn(v, q) == {SeenAs(x) : x \in Onward(v, q)}

\* Reading along a path is reading along its rest from the value under its first key.
LEMMA ReadingHead ==
    ASSUME NEW K, NEW m, NEW k \in K, NEW q \in Seq(K), NEW v, Found(Node(m), k) = {v}
    PROVE  Reading(m, <<k>> \o q) = ReadOn(v, q)
  <1>1. Along(m, <<k>> \o q) = OnwardAll({v}, q)
    BY AlongHead
  <1>2. OnwardAll({v}, q) = Onward(v, q)
    BY DEF OnwardAll
  <1> QED BY <1>1, <1>2 DEF Reading, ReadOn

\* From nothing, nothing is read.
LEMMA ReadOnMissing ==
    \A q : ReadOn(Missing, q) = {Missing}
  <1>1. ~IsNode(Missing) /\ SeenAs(Missing) = Missing
    BY DEF IsNode, Missing, SeenAs
  <1>2. \A q : Onward(Missing, q) = {Missing}
    BY <1>1 DEF Onward
  <1> QED BY <1>1, <1>2 DEF ReadOn

\* At the end of a path the value itself is read.
LEMMA ReadOnEnd ==
    \A v : ReadOn(v, << >>) = {SeenAs(v)}
  BY DEF ReadOn, Onward

\* From a map, reading goes on in it.
LEMMA ReadOnNode ==
    \A v, q : IsNode(v) /\ q # << >> => ReadOn(v, q) = Reading(v.map, q)
  BY DEF ReadOn, Onward, Reading

\* From anything else nothing is read further on.
LEMMA ReadOnLeaf ==
    \A v, q : ~IsNode(v) /\ q # << >> => ReadOn(v, q) = {Missing}
  <1>1. SeenAs(Missing) = Missing
    BY DEF IsNode, Missing, SeenAs
  <1> QED BY <1>1 DEF ReadOn, Onward

\* A value that is not a map is at v or on the way from v along q.
BlockedOn(v, q) ==
    \E n \in 0..(Len(q) - 1) : \E x \in ReadOn(v, SubSeq(q, 1, n)) : x # Missing /\ ~IsNode(x)

\* A path is blocked where the value under its first key blocks the rest.
LEMMA BlockedHead ==
    ASSUME NEW K, NEW s, NEW k \in K, NEW q \in Seq(K), NEW v, Found(Node(s), k) = {v}
    PROVE  Blocked(s, <<k>> \o q) <=> BlockedOn(v, q)
  <1> DEFINE p == <<k>> \o q
             Stops(r) == \E x \in r : x # Missing /\ ~IsNode(x)
  <1>1. Len(p) - 1 = Len(q) /\ Len(q) \in Nat
    OBVIOUS
  <1>2. \A i \in 1..Len(q) :
            SubSeq(p, 1, i) = <<k>> \o SubSeq(q, 1, i - 1) /\ SubSeq(q, 1, i - 1) \in Seq(K)
    OBVIOUS
  <1>3. \A r \in Seq(K) : Reading(s, <<k>> \o r) = ReadOn(v, r)
    BY ReadingHead
  <1>4. \A i \in 1..Len(q) : Reading(s, SubSeq(p, 1, i)) = ReadOn(v, SubSeq(q, 1, i - 1))
    <2> HIDE DEF p
    <2> QED BY <1>2, <1>3
  <1>5. Blocked(s, p) <=> \E i \in 1..Len(q) : Stops(Reading(s, SubSeq(p, 1, i)))
    BY <1>1 DEF Blocked
  <1>6. BlockedOn(v, q) <=> \E i \in 0..(Len(q) - 1) : Stops(ReadOn(v, SubSeq(q, 1, i)))
    BY DEF BlockedOn
  <1> HIDE DEF p, Stops
  <1>7. Blocked(s, p) <=> \E i \in 1..Len(q) : Stops(ReadOn(v, SubSeq(q, 1, i - 1)))
    BY <1>4, <1>5
  <1>8. (\E i \in 1..Len(q) : Stops(ReadOn(v, SubSeq(q, 1, i - 1)))) <=>
        \E i \in 0..(Len(q) - 1) : Stops(ReadOn(v, SubSeq(q, 1, i)))
    <2>1. \A i \in 1..Len(q) : i - 1 \in 0..(Len(q) - 1)
      BY <1>1
    <2>2. \A i \in 0..(Len(q) - 1) : i + 1 \in 1..Len(q) /\ (i + 1) - 1 = i
      BY <1>1
    <2> QED BY <2>1, <2>2
  <1>9. Blocked(s, p) <=> BlockedOn(v, q)
    BY <1>6, <1>7, <1>8
  <1> QED BY <1>9 DEF p

\* A map blocks what is blocked in it.
LEMMA BlockedOnNode ==
    ASSUME NEW K, NEW q \in Seq(K), NEW v, IsNode(v), q # << >>
    PROVE  BlockedOn(v, q) <=> Blocked(v.map, q)
  <1> DEFINE Stops(r) == \E x \in r : x # Missing /\ ~IsNode(x)
  <1>1. Len(q) \in Nat /\ Len(q) # 0
    BY EmptySeq
  <1>2. ~Stops(ReadOn(v, SubSeq(q, 1, 0)))
    <2>1. SubSeq(q, 1, 0) = << >>
      OBVIOUS
    <2>2. IsNode(SeenAs(v))
      BY DEF IsNode, SeenAs
    <2> QED BY <2>1, <2>2, ReadOnEnd
  <1>3. \A i \in 1..(Len(q) - 1) : ReadOn(v, SubSeq(q, 1, i)) = Reading(v.map, SubSeq(q, 1, i))
    <2>1. \A i \in 1..(Len(q) - 1) : Len(SubSeq(q, 1, i)) = i
      OBVIOUS
    <2>2. \A i \in 1..(Len(q) - 1) : SubSeq(q, 1, i) # << >>
      BY <2>1
    <2> QED BY <2>2, ReadOnNode
  <1>4. BlockedOn(v, q) <=> \E i \in 0..(Len(q) - 1) : Stops(ReadOn(v, SubSeq(q, 1, i)))
    BY DEF BlockedOn
  <1>5. Blocked(v.map, q) <=> \E i \in 1..(Len(q) - 1) : Stops(Reading(v.map, SubSeq(q, 1, i)))
    BY DEF Blocked
  <1> HIDE DEF Stops
  <1>6. \A i \in 0..(Len(q) - 1) : i = 0 \/ i \in 1..(Len(q) - 1)
    BY <1>1
  <1>7. \A i \in 1..(Len(q) - 1) : i \in 0..(Len(q) - 1)
    BY <1>1
  <1> QED BY <1>2, <1>3, <1>4, <1>5, <1>6, <1>7

\* Any other value blocks what goes on.
LEMMA BlockedOnLeaf ==
    ASSUME NEW K, NEW q \in Seq(K), NEW v, ~IsNode(v), v # Missing, q # << >>
    PROVE  BlockedOn(v, q)
  <1>1. 0 \in 0..(Len(q) - 1)
    BY EmptySeq
  <1>2. SubSeq(q, 1, 0) = << >>
    OBVIOUS
  <1>3. SeenAs(v) = v
    BY DEF SeenAs
  <1> QED BY <1>1, <1>2, <1>3, ReadOnEnd DEF BlockedOn

-----------------------------------------------------------------------------
(* The invariant of the active calls                                       *)

\* The keys of the paths.
PathKeys == UNION {{p[i] : i \in DOMAIN p} : p \in Paths}

\* m reads like s merged over w, along the paths of at most n keys.
MergedTo(w, s, m, n) ==
    \A p \in Seq(PathKeys) : Len(p) \in 1..n => Reading(m, p) = Overlay(w, s, p)

\* The map under d in w, which is empty when there is none.
MapUnder(w, d) == IF d \in DOMAIN w THEN w[d].map ELSE EmptyMap

\* What v of src makes of the value under d in w is r, as seen n levels deep.
EntryOK(w, v, d, r, n) ==
    IF IsNode(v) /\ (d \in DOMAIN w => IsNode(w[d]))
    THEN IsNode(r) /\ MergedTo(MapUnder(w, d), v.map, r.map, n)
    ELSE r = v

\* The keys of src call f is finished with.
Done(f) == DOMAIN f.src \ f.todo

\* What was in w and src has no key for is still there, and so are all keys of w.
Untouched(w, f) ==
    FoldUniqueHere(f.src) =>
        \A d \in DOMAIN f.dst :
            \/ d \in DOMAIN w /\ f.dst[d] = w[d]
            \/ \E k \in Done(f) : k.fold = d.fold

\* Every key of w is still in the map in its place.
KeepsKeys(w, f) == \A n \in Nat : FoldUniqueTo(f.src, n) => KeysKept(w, f.dst, n)

\* The keys of dst are as unique as those of w and src.
StaysUnique(w, f) ==
    \A n \in Nat : FoldUniqueTo(w, n) /\ FoldUniqueTo(f.src, n) => FoldUniqueTo(f.dst, n)

\* The keys of src that are finished are merged.
DoneAreMerged(w, f) ==
    \A n \in Nat : FoldUniqueTo(w, n + 1) /\ FoldUniqueTo(f.src, n + 1) =>
        \A k \in Done(f) : Named(k) =>
            \E d \in DOMAIN f.dst : d.fold = k.fold /\ EntryOK(w, f.src[k], d, f.dst[d], n)

\* Call f has merged the finished part of src into what was w when it began.
FrameOK(w, f) ==
    /\ f.todo \subseteq DOMAIN f.src
    /\ DOMAIN w \subseteq DOMAIN f.dst
    /\ Untouched(w, f)
    /\ KeepsKeys(w, f)
    /\ StaysUnique(w, f)
    /\ DoneAreMerged(w, f)

\* Call c merges the map under its key in the src of the calling f.
LinkOK(f, c) ==
    /\ c.key \in f.todo
    /\ IsNode(f.src[c.key])
    /\ c.src = f.src[c.key].map
    /\ \/ FindKeyFold(f.dst, c.key) = {} /\ c.at = c.key
       \/ c.at \in FindKeyFold(f.dst, c.key) /\ IsNode(f.dst[c.at])

\* f has the fields of a call, and no others.
IsFrame(f) == f = [dst |-> f.dst, src |-> f.src, todo |-> f.todo, key |-> f.key, at |-> f.at]

\* What the map of call i of st was when it began; that of the first was vs.
Was(vs, st, i) ==
    IF i = 1 THEN vs
    ELSE IF FindKeyFold(st[i - 1].dst, st[i].key) = {} THEN EmptyMap
    ELSE st[i - 1].dst[st[i].at].map

\* Every call merges, and works for the one below it; the map of the first was vs.
CallsOK(vs, st) ==
    /\ \E S : st \in Seq(S)
    /\ \A i \in 1..Len(st) : IsFrame(st[i]) /\ FrameOK(Was(vs, st, i), st[i])
    /\ \A i \in 1..(Len(st) - 1) : LinkOK(st[i], st[i + 1])

-----------------------------------------------------------------------------
(* A call that is finished with all of its keys                            *)

\* In the empty map there is nothing.
LEMMA EmptyMapFacts ==
    /\ DOMAIN EmptyMap = {}
    /\ FoldUniqueHere(EmptyMap)
    /\ \A k : Found(Node(EmptyMap), k) = {Missing}
  <1>1. DOMAIN EmptyMap = {}
    BY DEF EmptyMap
  <1>2. \A k : Found(Node(EmptyMap), k) = {Missing}
    BY <1>1, FoundNone
  <1> QED BY <1>1, <1>2 DEF FoldUniqueHere

\* A reader finds what the overlay says along a path that begins with a merged key.
LEMMA EntryReads ==
    ASSUME NEW w, NEW s, NEW m, NEW k \in PathKeys, NEW q \in Seq(PathKeys), NEW n \in Nat,
           Len(q) <= n, NEW d, NEW v, NEW r, v # Missing,
           Found(Node(s), k) = {v}, Found(Node(m), k) = {r},
           Found(Node(w), k) = {IF d \in DOMAIN w THEN w[d] ELSE Missing},
           EntryOK(w, v, d, r, n)
    PROVE  Reading(m, <<k>> \o q) = Overlay(w, s, <<k>> \o q)
  <1> DEFINE u == IF d \in DOMAIN w THEN w[d] ELSE Missing
  <1>1. Reading(m, <<k>> \o q) = ReadOn(r, q)
    BY ReadingHead
  <1>2. Overlay(w, s, <<k>> \o q) = IF ReadOn(v, q) # {Missing} THEN ReadOn(v, q)
                                    ELSE IF BlockedOn(v, q) THEN {Missing} ELSE ReadOn(u, q)
    <2>1. Found(Node(w), k) = {u}
      OBVIOUS
    <2> HIDE DEF u
    <2>2. Reading(w, <<k>> \o q) = ReadOn(u, q)
      BY <2>1, ReadingHead
    <2>3. Reading(s, <<k>> \o q) = ReadOn(v, q)
      BY ReadingHead
    <2>4. Blocked(s, <<k>> \o q) <=> BlockedOn(v, q)
      BY BlockedHead
    <2> QED BY <2>2, <2>3, <2>4 DEF Overlay
  <1>3. ~IsNode(Missing)
    BY DEF IsNode, Missing
  <1> SUFFICES ReadOn(r, q) = IF ReadOn(v, q) # {Missing} THEN ReadOn(v, q)
                              ELSE IF BlockedOn(v, q) THEN {Missing} ELSE ReadOn(u, q)
    BY <1>1, <1>2
  <1> HIDE DEF u
  <1>4. CASE q = << >>
    <2>1. ReadOn(v, q) = {SeenAs(v)} /\ ReadOn(r, q) = {SeenAs(r)}
      BY <1>4, ReadOnEnd
    <2>2. SeenAs(v) # Missing
      BY DEF SeenAs, Missing
    <2>3. SeenAs(r) = SeenAs(v)
      BY DEF EntryOK, SeenAs
    <2> QED BY <2>1, <2>2, <2>3
  <1>5. CASE q # << >> /\ ~IsNode(v)
    <2>1. r = v
      BY <1>5 DEF EntryOK
    <2>2. ReadOn(v, q) = {Missing}
      BY <1>5, ReadOnLeaf
    <2>3. BlockedOn(v, q)
      BY <1>5, BlockedOnLeaf
    <2> QED BY <2>1, <2>2, <2>3
  <1>6. CASE q # << >> /\ IsNode(v) /\ d \in DOMAIN w /\ ~IsNode(w[d])
    <2>1. r = v
      BY <1>6 DEF EntryOK
    <2>2. ReadOn(u, q) = {Missing}
      BY <1>6, ReadOnLeaf DEF u
    <2> QED BY <2>1, <2>2
  <1>7. CASE q # << >> /\ IsNode(v) /\ (d \in DOMAIN w => IsNode(w[d]))
    <2>1. IsNode(r) /\ MergedTo(MapUnder(w, d), v.map, r.map, n)
      BY <1>7 DEF EntryOK
    <2>2. ReadOn(r, q) = Reading(r.map, q) /\ ReadOn(v, q) = Reading(v.map, q)
      BY <1>7, <2>1, ReadOnNode
    <2>3. BlockedOn(v, q) <=> Blocked(v.map, q)
      BY <1>7, BlockedOnNode
    <2>4. Len(q) \in 1..n
      BY <1>7, EmptySeq
    <2>5. Reading(r.map, q) = Overlay(MapUnder(w, d), v.map, q)
      BY <2>1, <2>4 DEF MergedTo
    <2>6. ReadOn(u, q) = Reading(MapUnder(w, d), q)
      <3>1. CASE d \in DOMAIN w
        BY <1>7, <3>1, ReadOnNode DEF u, MapUnder
      <3>2. CASE d \notin DOMAIN w
        <4>1. ReadOn(u, q) = {Missing}
          BY <3>2, ReadOnMissing DEF u
        <4>2. q = <<q[1]>> \o Tail(q) /\ q[1] \in PathKeys /\ Tail(q) \in Seq(PathKeys)
          BY <1>7
        <4> DEFINE h == q[1]
                   t == Tail(q)
        <4> HIDE DEF h, t
        <4>3. q = <<h>> \o t /\ h \in PathKeys /\ t \in Seq(PathKeys)
          BY <4>2 DEF h, t
        <4>4. Found(Node(EmptyMap), h) = {Missing}
          BY EmptyMapFacts
        <4>5. Reading(EmptyMap, <<h>> \o t) = ReadOn(Missing, t)
          BY <4>3, <4>4, ReadingHead
        <4>6. Reading(EmptyMap, q) = {Missing}
          BY <4>3, <4>5, ReadOnMissing
        <4> QED BY <3>2, <4>1, <4>6 DEF MapUnder
      <3> QED BY <3>1, <3>2
    <2> QED BY <2>2, <2>3, <2>5, <2>6 DEF Overlay
  <1> QED BY <1>4, <1>5, <1>6, <1>7

\* A finished call: a path that begins with k.
LEMMA FrameReads ==
    ASSUME NEW w, NEW f, NEW s, NEW m, s = f.src, m = f.dst, FrameOK(w, f), f.todo = {}, NEW N \in Nat,
           FoldUniqueTo(w, N + 1), FoldUniqueTo(s, N + 1),
           NEW k \in PathKeys, NEW q \in Seq(PathKeys), Len(q) <= N
    PROVE  Reading(m, <<k>> \o q) = Overlay(w, s, <<k>> \o q)
  <1>1. FoldUniqueTo(m, N + 1)
    BY DEF FrameOK, StaysUnique
  <1>2. HereOK(w) /\ HereOK(s) /\ HereOK(m)
    BY <1>1, FoldUniqueHead
  <1>3. FoldUniqueHere(w) /\ FoldUniqueHere(s) /\ FoldUniqueHere(m)
    BY <1>2 DEF HereOK
  <1>4. Done(f) = DOMAIN s
    BY DEF Done
  <1>5. CASE ~Named(k)
    <2>1. Found(Node(w), k) = {Missing} /\ Found(Node(s), k) = {Missing} /\ Found(Node(m), k) = {Missing}
      BY <1>5, FoundNone
    <2>2. Reading(m, <<k>> \o q) = ReadOn(Missing, q)
      BY <2>1, ReadingHead
    <2>3. Reading(s, <<k>> \o q) = ReadOn(Missing, q)
      BY <2>1, ReadingHead
    <2>4. Reading(w, <<k>> \o q) = ReadOn(Missing, q)
      BY <2>1, ReadingHead
    <2> QED BY <2>2, <2>3, <2>4, ReadOnMissing DEF Overlay
  <1>6. CASE Named(k) /\ \A j \in DOMAIN s : j.fold # k.fold
    <2>1. Found(Node(s), k) = {Missing}
      BY <1>6, FoundNone
    <2>2. \A d \in DOMAIN m : d.fold = k.fold => d \in DOMAIN w /\ m[d] = w[d]
      BY <1>3, <1>4, <1>6 DEF FrameOK, Untouched
    <2>3. PICK u : Found(Node(w), k) = {u} /\ Found(Node(m), k) = {u}
      <3>1. CASE \E d \in DOMAIN m : d.fold = k.fold
        <4>1. PICK d \in DOMAIN m : d.fold = k.fold
          BY <3>1
        <4>2. d \in DOMAIN w /\ m[d] = w[d]
          BY <2>2, <4>1
        <4>3. Found(Node(w), k) = {w[d]}
          BY <1>3, <1>6, <4>1, <4>2, FoundOne
        <4>4. Found(Node(m), k) = {m[d]}
          BY <1>3, <1>6, <4>1, <4>2, FoundOne
        <4> QED BY <4>2, <4>3, <4>4
      <3>2. CASE \A d \in DOMAIN m : d.fold # k.fold
        <4>1. \A d \in DOMAIN w : d.fold # k.fold
          BY <3>2 DEF FrameOK
        <4>2. Found(Node(w), k) = {Missing}
          BY <4>1, FoundNone
        <4>3. Found(Node(m), k) = {Missing}
          BY <3>2, FoundNone
        <4> QED BY <4>2, <4>3
      <3> QED BY <3>1, <3>2
    <2>4. Reading(m, <<k>> \o q) = ReadOn(u, q)
      BY <2>3, ReadingHead
    <2>5. Reading(w, <<k>> \o q) = ReadOn(u, q)
      BY <2>3, ReadingHead
    <2>6. Reading(s, <<k>> \o q) = {Missing}
      <3>1. Reading(s, <<k>> \o q) = ReadOn(Missing, q)
        BY <2>1, ReadingHead
      <3> QED BY <3>1, ReadOnMissing
    <2>7. ~Blocked(s, <<k>> \o q)
      <3>1. Blocked(s, <<k>> \o q) <=> BlockedOn(Missing, q)
        BY <2>1, BlockedHead
      <3>2. ~BlockedOn(Missing, q)
        BY ReadOnMissing DEF BlockedOn
      <3> QED BY <3>1, <3>2
    <2> QED BY <2>4, <2>5, <2>6, <2>7 DEF Overlay
  <1>7. CASE Named(k) /\ \E j \in DOMAIN s : j.fold = k.fold
    <2>1. PICK j \in DOMAIN s : j.fold = k.fold
      BY <1>7
    <2>2. PICK d \in DOMAIN m : d.fold = j.fold /\ EntryOK(w, s[j], d, m[d], N)
      <3>1. Named(j)
        BY <1>7, <2>1 DEF Named
      <3> QED BY <1>4, <2>1, <3>1 DEF FrameOK, DoneAreMerged
    <2>3. Found(Node(s), k) = {s[j]}
      BY <1>3, <1>7, <2>1, FoundOne
    <2>4. Found(Node(m), k) = {m[d]}
      BY <1>3, <1>7, <2>1, <2>2, FoundOne
    <2>5. Found(Node(w), k) = {IF d \in DOMAIN w THEN w[d] ELSE Missing}
      <3>1. CASE d \in DOMAIN w
        BY <1>3, <1>7, <2>1, <2>2, <3>1, FoundOne
      <3>2. CASE d \notin DOMAIN w
        <4>1. \A x \in DOMAIN w : x.fold # k.fold
          BY <1>3, <1>7, <2>1, <2>2, <3>2 DEF FrameOK, FoldUniqueHere, Named
        <4> QED BY <3>2, <4>1, FoundNone
      <3> QED BY <3>1, <3>2
    <2>6. s[j] # Missing
      BY <1>2 DEF HereOK
    <2>7. Reading(m, <<k>> \o q) = Overlay(w, s, <<k>> \o q)
      <3> DEFINE v == s[j]
                 r == m[d]
      <3> HIDE DEF v, r
      <3>1. EntryOK(w, v, d, r, N) /\ v # Missing /\ Found(Node(s), k) = {v} /\ Found(Node(m), k) = {r}
        BY <2>2, <2>3, <2>4, <2>6 DEF v, r
      <3>3. Found(Node(w), k) = {IF d \in DOMAIN w THEN w[d] ELSE Missing}
        BY <2>5
      <3> QED BY <3>1, <3>3, EntryReads
    <2> QED BY <2>7
  <1> QED BY <1>5, <1>6, <1>7

\* A call with nothing left to do has made of its map the overlay of src, for every
\* path and at every level.
LEMMA FrameMerges ==
    ASSUME NEW w, NEW f, FrameOK(w, f), f.todo = {}, NEW n \in Nat,
           FoldUniqueTo(w, n), FoldUniqueTo(f.src, n)
    PROVE  MergedTo(w, f.src, f.dst, n)
  <1> SUFFICES ASSUME NEW p \in Seq(PathKeys), Len(p) \in 1..n
               PROVE  Reading(f.dst, p) = Overlay(w, f.src, p)
    BY DEF MergedTo
  <1>1. PICK x \in PathKeys, y \in Seq(PathKeys) : p = <<x>> \o y /\ Len(y) = Len(p) - 1
    <2>1. p = <<p[1]>> \o Tail(p) /\ p[1] \in PathKeys /\ Tail(p) \in Seq(PathKeys)
      OBVIOUS
    <2>2. Len(Tail(p)) = Len(p) - 1
      OBVIOUS
    <2> QED BY <2>1, <2>2
  <1>2. PICK i \in Nat : n = i + 1
    <2>1. n - 1 \in Nat /\ n = (n - 1) + 1
      OBVIOUS
    <2> QED BY <2>1
  <1>3. Len(y) <= i
    BY <1>1, <1>2
  <1>4. Reading(f.dst, <<x>> \o y) = Overlay(w, f.src, <<x>> \o y)
    <2>1. PICK a, b : a = f.src /\ b = f.dst
      OBVIOUS
    <2>2. FoldUniqueTo(w, i + 1) /\ FoldUniqueTo(a, i + 1)
      BY <1>2, <2>1
    <2>3. Reading(b, <<x>> \o y) = Overlay(w, a, <<x>> \o y)
      BY <1>3, <2>1, <2>2, FrameReads
    <2> QED BY <2>1, <2>3
  <1> QED BY <1>1, <1>4

-----------------------------------------------------------------------------
(* A call begins, and assigns one key after the other                      *)

\* The empty map has unique keys.
LEMMA EmptyIsUnique ==
    \A n \in Nat : FoldUniqueTo(EmptyMap, n)
  <1>1. \A n \in Nat : FoldUniqueTo(EmptyMap, n + 1)
    BY FoldUniqueHead, EmptyMapFacts DEF HereOK
  <1>2. FoldUniqueTo(EmptyMap, 0)
    BY DEF FoldUniqueTo
  <1>3. \A n \in Nat : n = 0 \/ \E i \in Nat : n = i + 1
    <2>1. \A n \in Nat : n # 0 => n - 1 \in Nat /\ n = (n - 1) + 1
      OBVIOUS
    <2> QED BY <2>1
  <1> QED BY <1>1, <1>2, <1>3

\* The fields of a call that begins.
LEMMA CallFields ==
    ASSUME NEW w, NEW s, NEW k, NEW a
    PROVE  /\ IsFrame(Call(w, s, k, a))
           /\ Call(w, s, k, a).dst = w /\ Call(w, s, k, a).src = s
           /\ Call(w, s, k, a).todo = DOMAIN s
           /\ Call(w, s, k, a).key = k /\ Call(w, s, k, a).at = a
  BY DEF IsFrame, Call

\* A call that begins has merged nothing.
LEMMA CallBegins ==
    ASSUME NEW w, NEW c, c.dst = w, c.todo = DOMAIN c.src
    PROVE  FrameOK(w, c)
  <1>1. Done(c) = {}
    BY DEF Done
  <1>2. Untouched(w, c)
    BY DEF Untouched
  <1>3. KeepsKeys(w, c)
    BY KeysKeptSelf DEF KeepsKeys
  <1>4. StaysUnique(w, c)
    BY DEF StaysUnique
  <1>5. DoneAreMerged(w, c)
    BY <1>1 DEF DoneAreMerged
  <1> QED BY <1>2, <1>3, <1>4, <1>5 DEF FrameOK

\* The fields of a call after an assignment.
LEMMA AssignFields ==
    ASSUME NEW f, IsFrame(f), NEW a, NEW v, NEW k
    PROVE  /\ IsFrame(Assign(f, a, v, k))
           /\ Assign(f, a, v, k).dst = Put(f.dst, a, v)
           /\ Assign(f, a, v, k).todo = f.todo \ {k}
           /\ Assign(f, a, v, k).src = f.src
           /\ Assign(f, a, v, k).key = f.key
           /\ Assign(f, a, v, k).at = f.at
  <1> DEFINE p == Put(f.dst, a, v)
             t == f.todo \ {k}
             g == [dst |-> p, src |-> f.src, todo |-> t, key |-> f.key, at |-> f.at]
  <1>1. Assign(f, a, v, k) = [f EXCEPT !.dst = p, !.todo = t]
    BY DEF Assign
  <1> HIDE DEF p, t
  <1>2. PICK fd, fs, ft, fk, fa : f = [dst |-> fd, src |-> fs, todo |-> ft, key |-> fk, at |-> fa]
    BY DEF IsFrame
  <1>3. [f EXCEPT !.dst = p, !.todo = t] = g
    <2>1. f.src = fs /\ f.key = fk /\ f.at = fa
      BY <1>2
    <2>2. [f EXCEPT !.dst = p, !.todo = t] = [[f EXCEPT !.dst = p] EXCEPT !.todo = t]
      OBVIOUS
    <2> DEFINE h == [f EXCEPT !.dst = p]
    <2>3. h = [dst |-> p, src |-> fs, todo |-> ft, key |-> fk, at |-> fa]
      BY <1>2
    <2> HIDE DEF h
    <2>4. [h EXCEPT !.todo = t] = [dst |-> p, src |-> fs, todo |-> t, key |-> fk, at |-> fa]
      BY <2>3
    <2> QED BY <2>1, <2>2, <2>4 DEF h
  <1>4. g.dst = p /\ g.todo = t /\ g.src = f.src /\ g.key = f.key /\ g.at = f.at
    OBVIOUS
  <1>5. IsFrame(g)
    BY DEF IsFrame
  <1> HIDE DEF g
  <1> QED BY <1>1, <1>3, <1>4, <1>5 DEF p, t

\* Assigning what source key k has under key a of dst, as seen n levels deep.
GoodEntry(w, s, k, a, v, n) ==
    /\ FoldUniqueTo(s, n + 1) /\ a \in DOMAIN w /\ Named(a) /\ IsNode(w[a]) /\ IsNode(v) =>
          KeysKept(w[a].map, v.map, n)
    /\ FoldUniqueTo(w, n + 1) /\ FoldUniqueTo(s, n + 1) =>
          /\ v # Missing
          /\ Named(k) /\ IsNode(v) => FoldUniqueTo(v.map, n)
          /\ Named(k) => EntryOK(w, s[k], a, v, n)

\* A call that assigns a value that is right for its key stays right.
LEMMA AssignKeepsFrame ==
    ASSUME NEW w, NEW f, NEW g, NEW a, NEW v, NEW k \in f.todo,
           FrameOK(w, f), IsFrame(f), g = Assign(f, a, v, k),
           a.fold = k.fold,
           Named(k) => a \in DOMAIN f.dst \/ \A d \in DOMAIN f.dst : d.fold # k.fold,
           \A n \in Nat : GoodEntry(w, f.src, k, a, v, n)
    PROVE  FrameOK(w, g)
  <1>1. g.dst = Put(f.dst, a, v) /\ g.src = f.src /\ g.todo = f.todo \ {k}
    BY AssignFields
  <1>2. /\ DOMAIN g.dst = DOMAIN f.dst \cup {a}
         /\ g.dst[a] = v
         /\ \A d \in DOMAIN f.dst : d # a => g.dst[d] = f.dst[d]
    BY <1>1 DEF Put
  <1> DEFINE m == f.dst
             h == g.dst
             s == f.src
  <1>3. /\ g.src = s /\ g.todo = f.todo \ {k}
        /\ DOMAIN h = DOMAIN m \cup {a}
        /\ h[a] = v
        /\ \A d \in DOMAIN m : d # a => h[d] = m[d]
    BY <1>1, <1>2
  <1>4. k \in DOMAIN s /\ Done(g) = Done(f) \cup {k} /\ Done(f) \subseteq DOMAIN s /\ k \notin Done(f)
    BY <1>3 DEF FrameOK, Done
  <1>5. DOMAIN w \subseteq DOMAIN m
    BY DEF FrameOK
  <1>6. Named(a) <=> Named(k)
    BY DEF Named
  <1> HIDE DEF m, h, s
  <1>7. Untouched(w, g)
    <2> SUFFICES ASSUME FoldUniqueHere(s), NEW d \in DOMAIN h
                 PROVE  (d \in DOMAIN w /\ h[d] = w[d]) \/ \E j \in Done(g) : j.fold = d.fold
      BY <1>3 DEF Untouched, h
    <2>1. CASE d = a
      BY <1>4, <2>1
    <2>2. CASE d # a
      <3>1. d \in DOMAIN m /\ h[d] = m[d]
        BY <1>3, <2>2
      <3>2. (d \in DOMAIN w /\ m[d] = w[d]) \/ \E j \in Done(f) : j.fold = d.fold
        BY <3>1 DEF FrameOK, Untouched, m, s
      <3> QED BY <1>4, <3>1, <3>2
    <2> QED BY <2>1, <2>2
  <1>8. KeepsKeys(w, g)
    <2> SUFFICES ASSUME NEW n \in Nat, FoldUniqueTo(s, n) PROVE KeysKept(w, h, n)
      BY <1>3 DEF KeepsKeys, h
    <2>1. CASE n = 0
      BY <2>1 DEF KeysKept
    <2>2. CASE n # 0
      <3>1. PICK i \in Nat : n = i + 1
        <4>1. n - 1 \in Nat /\ n = (n - 1) + 1
          BY <2>2
        <4> QED BY <4>1
      <3>2. KeysKept(w, m, i + 1)
        BY <3>1 DEF FrameOK, KeepsKeys, m, s
      <3>3. \A d \in DOMAIN w \cap DOMAIN m : Named(d) /\ IsNode(w[d]) /\ IsNode(m[d]) =>
                KeysKept(w[d].map, m[d].map, i)
        BY <3>2, KeysKeptHead
      <3>4. a \in DOMAIN w /\ Named(a) /\ IsNode(w[a]) /\ IsNode(v) => KeysKept(w[a].map, v.map, i)
        BY <3>1 DEF GoodEntry, s
      <3>5. \A d \in DOMAIN w \cap DOMAIN h : Named(d) /\ IsNode(w[d]) /\ IsNode(h[d]) =>
                KeysKept(w[d].map, h[d].map, i)
        <4> TAKE d \in DOMAIN w \cap DOMAIN h
        <4>1. CASE d = a
          BY <1>3, <3>4, <4>1
        <4>2. CASE d # a
          BY <1>3, <1>5, <3>3, <4>2
        <4> QED BY <4>1, <4>2
      <3>6. DOMAIN w \subseteq DOMAIN h
        BY <1>3, <1>5
      <3>7. KeysKept(w, h, i + 1)
        BY <3>5, <3>6, KeysKeptHead
      <3> QED BY <3>1, <3>7
    <2> QED BY <2>1, <2>2
  <1>9. StaysUnique(w, g)
    <2> SUFFICES ASSUME NEW n \in Nat, FoldUniqueTo(w, n), FoldUniqueTo(s, n) PROVE FoldUniqueTo(h, n)
      BY <1>3 DEF StaysUnique, h
    <2>1. CASE n = 0
      BY <2>1 DEF FoldUniqueTo
    <2>2. CASE n # 0
      <3>1. PICK i \in Nat : n = i + 1
        <4>1. n - 1 \in Nat /\ n = (n - 1) + 1
          BY <2>2
        <4> QED BY <4>1
      <3>2. FoldUniqueTo(m, i + 1)
        BY <3>1 DEF FrameOK, StaysUnique, m, s
      <3>3. HereOK(m) /\ \A d \in DOMAIN m : Named(d) /\ IsNode(m[d]) => FoldUniqueTo(m[d].map, i)
        BY <3>2, FoldUniqueHead
      <3>4. v # Missing /\ (Named(a) /\ IsNode(v) => FoldUniqueTo(v.map, i))
        BY <1>6, <3>1 DEF GoodEntry, s
      <3>5. FoldUniqueHere(h)
        <4>1. FoldUniqueHere(m)
          BY <3>3 DEF HereOK
        <4>2. a \notin DOMAIN m /\ Named(a) => \A d \in DOMAIN m : d.fold # a.fold
          BY <1>6 DEF m
        <4> QED BY <1>3, <4>1, <4>2 DEF FoldUniqueHere, Named
      <3>6. HereOK(h)
        BY <1>3, <3>3, <3>4, <3>5 DEF HereOK
      <3>7. \A d \in DOMAIN h : Named(d) /\ IsNode(h[d]) => FoldUniqueTo(h[d].map, i)
        <4> TAKE d \in DOMAIN h
        <4>1. CASE d = a
          BY <1>3, <3>4, <4>1
        <4>2. CASE d # a
          BY <1>3, <3>3, <4>2
        <4> QED BY <4>1, <4>2
      <3>8. FoldUniqueTo(h, i + 1)
        BY <3>6, <3>7, FoldUniqueHead
      <3> QED BY <3>1, <3>8
    <2> QED BY <2>1, <2>2
  <1>10. DoneAreMerged(w, g)
    <2> SUFFICES ASSUME NEW n \in Nat, FoldUniqueTo(w, n + 1), FoldUniqueTo(s, n + 1),
                        NEW j \in Done(g), Named(j)
                 PROVE  \E d \in DOMAIN h : d.fold = j.fold /\ EntryOK(w, s[j], d, h[d], n)
      BY <1>3 DEF DoneAreMerged, h
    <2>1. CASE j = k
      <3>1. EntryOK(w, s[k], a, v, n)
        BY <2>1 DEF GoodEntry, s
      <3> QED BY <1>3, <2>1, <3>1
    <2>2. CASE j # k
      <3>1. j \in Done(f)
        BY <1>4, <2>2
      <3>2. PICK d \in DOMAIN m : d.fold = j.fold /\ EntryOK(w, s[j], d, m[d], n)
        BY <3>1 DEF FrameOK, DoneAreMerged, m, s
      <3>3. FoldUniqueHere(s)
        BY FoldUniqueHead DEF HereOK
      <3>4. d # a
        BY <1>4, <2>2, <3>1, <3>2, <3>3 DEF FoldUniqueHere, Named
      <3> QED BY <1>3, <3>2, <3>4
    <2> QED BY <2>1, <2>2
  <1>11. g.todo \subseteq DOMAIN g.src /\ DOMAIN w \subseteq DOMAIN h
    BY <1>3, <1>5 DEF FrameOK, s
  <1> QED BY <1>7, <1>8, <1>9, <1>10, <1>11 DEF FrameOK, h

\* A key of dst that matches an unfinished key of src is as it was.
LEMMA DstUntouched ==
    ASSUME NEW w, NEW f, FrameOK(w, f), FoldUniqueHere(f.src), NEW k \in f.todo,
           NEW d \in FindKeyFold(f.dst, k)
    PROVE  d \in DOMAIN w /\ f.dst[d] = w[d]
  <1>1. d \in DOMAIN f.dst /\ d.fold = k.fold /\ Named(k)
    BY FindKeyFoldSound
  <1>2. \A j \in Done(f) : j \in DOMAIN f.src /\ j # k
    BY DEF Done
  <1>3. k \in DOMAIN f.src
    BY DEF FrameOK
  <1>4. \A j \in Done(f) : j.fold # d.fold
    BY <1>1, <1>2, <1>3 DEF FoldUniqueHere, Named
  <1> QED BY <1>1, <1>4 DEF FrameOK, Untouched

\* A key that is new in a call was new when it began.
LEMMA NewInW ==
    ASSUME NEW w, NEW f, FrameOK(w, f), NEW k, FindKeyFold(f.dst, k) = {}, Named(k)
    PROVE  k \notin DOMAIN w
  BY FindKeyFoldNone DEF FrameOK

\* In a map of unique keys with values, n + 1 levels deep, so is what is under a key.
LEMMA UniqueUnder ==
    ASSUME NEW s, NEW n \in Nat, FoldUniqueTo(s, n + 1), NEW k \in DOMAIN s
    PROVE  FoldUniqueHere(s) /\ s[k] # Missing /\ (Named(k) /\ IsNode(s[k]) => FoldUniqueTo(s[k].map, n))
  BY FoldUniqueHead DEF HereOK

\* A new value may be assigned.
LEMMA InsertValueIsGood ==
    ASSUME NEW w, NEW f, FrameOK(w, f), NEW k \in f.todo, ~IsNode(f.src[k]), NEW n \in Nat
    PROVE  GoodEntry(w, f.src, k, k, f.src[k], n)
  <1>1. k \in DOMAIN f.src
    BY DEF FrameOK
  <1> DEFINE v == f.src[k]
  <1>2. FoldUniqueTo(f.src, n + 1) => v # Missing
    BY <1>1, UniqueUnder
  <1>3. EntryOK(w, v, k, v, n)
    BY DEF EntryOK
  <1> QED BY <1>2, <1>3 DEF GoodEntry

\* A value that replaces another may be assigned under its key.
LEMMA ReplaceValueIsGood ==
    ASSUME NEW w, NEW f, FrameOK(w, f), NEW k \in f.todo, NEW d \in FindKeyFold(f.dst, k),
           ~(IsNode(f.dst[d]) /\ IsNode(f.src[k])), NEW n \in Nat
    PROVE  GoodEntry(w, f.src, k, d, f.src[k], n)
  <1>1. k \in DOMAIN f.src
    BY DEF FrameOK
  <1> DEFINE v == f.src[k]
  <1>2. FoldUniqueTo(f.src, n + 1) =>
            /\ d \in DOMAIN w /\ f.dst[d] = w[d]
            /\ v # Missing
            /\ Named(k) /\ IsNode(v) => FoldUniqueTo(v.map, n)
    <2> SUFFICES ASSUME FoldUniqueTo(f.src, n + 1)
                 PROVE  /\ d \in DOMAIN w /\ f.dst[d] = w[d]
                        /\ v # Missing
                        /\ Named(k) /\ IsNode(v) => FoldUniqueTo(v.map, n)
      OBVIOUS
    <2>1. FoldUniqueHere(f.src) /\ v # Missing /\ (Named(k) /\ IsNode(v) => FoldUniqueTo(v.map, n))
      BY <1>1, UniqueUnder
    <2>2. d \in DOMAIN w /\ f.dst[d] = w[d]
      BY <2>1, DstUntouched
    <2> QED BY <2>1, <2>2
  <1>3. d \in DOMAIN w /\ f.dst[d] = w[d] => EntryOK(w, v, d, v, n)
    BY DEF EntryOK
  <1> QED BY <1>2, <1>3 DEF GoodEntry

\* A nested call that is finished returns what is right for the key it was made for.
LEMMA ReturnIsGood ==
    ASSUME NEW w, NEW f, FrameOK(w, f), NEW c, LinkOK(f, c), c.todo = {},
           NEW wc, wc = IF FindKeyFold(f.dst, c.key) = {} THEN EmptyMap ELSE f.dst[c.at].map,
           FrameOK(wc, c), NEW n \in Nat
    PROVE  GoodEntry(w, f.src, c.key, c.at, Node(c.dst), n)
  <1>1. PICK k, a, s, v : k = c.key /\ a = c.at /\ s = f.src /\ v = Node(c.dst)
    OBVIOUS
  <1>2. k \in f.todo /\ k \in DOMAIN s /\ IsNode(s[k]) /\ c.src = s[k].map
    BY <1>1 DEF LinkOK, FrameOK
  <1>3. IsNode(v) /\ v.map = c.dst /\ v # Missing
    BY <1>1 DEF IsNode, Node, Missing
  <1>4. FoldUniqueTo(s, n + 1) /\ Named(k) =>
            /\ FoldUniqueTo(c.src, n)
            /\ a \in DOMAIN w => IsNode(w[a])
            /\ wc = MapUnder(w, a)
            /\ wc = EmptyMap \/ (a \in DOMAIN f.dst /\ Named(a) /\ IsNode(f.dst[a]) /\ wc = f.dst[a].map)
    <2> SUFFICES ASSUME FoldUniqueTo(s, n + 1), Named(k)
                 PROVE  /\ FoldUniqueTo(c.src, n)
                        /\ a \in DOMAIN w => IsNode(w[a])
                        /\ wc = MapUnder(w, a)
                        /\ \/ wc = EmptyMap
                           \/ a \in DOMAIN f.dst /\ Named(a) /\ IsNode(f.dst[a]) /\ wc = f.dst[a].map
      OBVIOUS
    <2>1. FoldUniqueHere(s) /\ FoldUniqueTo(c.src, n)
      BY <1>2, UniqueUnder
    <2>2. CASE FindKeyFold(f.dst, k) = {}
      <3>1. a = k /\ wc = EmptyMap
        BY <1>1, <2>2 DEF LinkOK
      <3>2. a \notin DOMAIN w
        BY <2>2, <3>1, NewInW
      <3> QED BY <2>1, <3>1, <3>2 DEF MapUnder
    <2>3. CASE FindKeyFold(f.dst, k) # {}
      <3>1. a \in FindKeyFold(f.dst, k) /\ IsNode(f.dst[a]) /\ wc = f.dst[a].map
        BY <1>1, <2>3 DEF LinkOK
      <3>2. a \in DOMAIN w /\ f.dst[a] = w[a]
        BY <1>1, <1>2, <2>1, <3>1, DstUntouched
      <3>3. a \in DOMAIN f.dst /\ Named(a)
        BY <3>1, FindKeyFoldSound DEF Named
      <3> QED BY <2>1, <3>1, <3>2, <3>3 DEF MapUnder
    <2> QED BY <2>2, <2>3
  <1>5. Named(a) <=> Named(k)
    BY <1>1, FindKeyFoldSound DEF LinkOK, Named
  <1>6. FoldUniqueTo(s, n + 1) /\ a \in DOMAIN w /\ Named(a) /\ IsNode(w[a]) => KeysKept(w[a].map, c.dst, n)
    <2>1. a \in DOMAIN w => MapUnder(w, a) = w[a].map
      BY DEF MapUnder
    <2>2. FoldUniqueTo(c.src, n) => KeysKept(wc, c.dst, n)
      BY DEF FrameOK, KeepsKeys
    <2> QED BY <1>4, <1>5, <2>1, <2>2
  <1>7. FoldUniqueTo(w, n + 1) /\ FoldUniqueTo(s, n + 1) /\ Named(k) =>
            FoldUniqueTo(c.dst, n) /\ EntryOK(w, s[k], a, v, n)
    <2> SUFFICES ASSUME FoldUniqueTo(w, n + 1), FoldUniqueTo(s, n + 1), Named(k)
                 PROVE  FoldUniqueTo(c.dst, n) /\ EntryOK(w, s[k], a, v, n)
      OBVIOUS
    <2>1. FoldUniqueTo(wc, n)
      <3>1. FoldUniqueTo(f.dst, n + 1)
        BY <1>1 DEF FrameOK, StaysUnique
      <3>2. CASE wc = EmptyMap
        BY <3>2, EmptyIsUnique
      <3>3. CASE a \in DOMAIN f.dst /\ Named(a) /\ IsNode(f.dst[a]) /\ wc = f.dst[a].map
        BY <3>1, <3>3, UniqueUnder
      <3> QED BY <1>4, <3>2, <3>3
    <2>2. FoldUniqueTo(c.dst, n)
      BY <1>4, <2>1 DEF FrameOK, StaysUnique
    <2>3. MergedTo(wc, c.src, c.dst, n)
      BY <1>4, <2>1, FrameMerges
    <2>4. EntryOK(w, s[k], a, v, n)
      BY <1>2, <1>3, <1>4, <2>3 DEF EntryOK
    <2> QED BY <2>2, <2>4
  <1>8. GoodEntry(w, s, k, a, v, n)
    BY <1>3, <1>6, <1>7 DEF GoodEntry
  <1> QED BY <1>1, <1>8

-----------------------------------------------------------------------------
(* The stack of calls                                                      *)

\* What the maps of the calls were depends on the calls below them only.
LEMMA WasSame ==
    ASSUME NEW vs, NEW st, NEW t, NEW n \in Nat,
           \A i \in 1..n : t[i].key = st[i].key /\ t[i].at = st[i].at,
           \A i \in 1..(n - 1) : t[i] = st[i]
    PROVE  \A i \in 1..n : Was(vs, t, i) = Was(vs, st, i)
  <1> TAKE i \in 1..n
  <1>1. CASE i = 1
    BY <1>1 DEF Was
  <1>2. CASE i # 1
    <2>1. i - 1 \in 1..(n - 1)
      BY <1>2
    <2>2. t[i - 1] = st[i - 1]
      BY <2>1
    <2> QED BY <2>2 DEF Was
  <1> QED BY <1>1, <1>2

\* The calls stay in order when that on top goes on.
LEMMA TopReplaced ==
    ASSUME NEW vs, NEW st, CallsOK(vs, st), st # << >>, NEW g, IsFrame(g),
           g.src = st[Len(st)].src, g.key = st[Len(st)].key, g.at = st[Len(st)].at,
           FrameOK(Was(vs, st, Len(st)), g)
    PROVE  CallsOK(vs, [st EXCEPT ![Len(st)] = g])
  <1> DEFINE n == Len(st)
             t == [st EXCEPT ![n] = g]
  <1>1. PICK S : st \in Seq(S)
    BY DEF CallsOK
  <1>2. n \in Nat \ {0} /\ n \in 1..n
    BY <1>1, EmptySeq
  <1>3. t \in Seq(S \cup {g}) /\ Len(t) = n /\ t[n] = g /\ \A i \in 1..(n - 1) : t[i] = st[i]
    BY <1>1, <1>2
  <1> HIDE DEF t
  <1>4. \A i \in 1..n : i = n \/ i \in 1..(n - 1)
    BY <1>2
  <1>5. \A i \in 1..n : t[i].key = st[i].key /\ t[i].at = st[i].at /\ t[i].src = st[i].src
    BY <1>3, <1>4
  <1> HIDE DEF n
  <1>6. \A i \in 1..n : Was(vs, t, i) = Was(vs, st, i)
    BY <1>2, <1>3, <1>5, WasSame
  <1>7. \A i \in 1..n : IsFrame(t[i]) /\ FrameOK(Was(vs, t, i), t[i])
    BY <1>3, <1>4, <1>6 DEF CallsOK, n
  <1>8. \A i \in 1..(n - 1) : LinkOK(t[i], t[i + 1])
    <2> TAKE i \in 1..(n - 1)
    <2>1. i + 1 \in 1..n
      BY <1>2
    <2>2. LinkOK(st[i], st[i + 1]) /\ t[i] = st[i]
      BY <1>3 DEF CallsOK, n
    <2> QED BY <1>5, <2>1, <2>2 DEF LinkOK
  <1>9. CallsOK(vs, t)
    BY <1>3, <1>7, <1>8 DEF CallsOK
  <1> QED BY <1>9 DEF t, n

\* They stay in order when that on top makes a call.
LEMMA Pushed ==
    ASSUME NEW vs, NEW st, CallsOK(vs, st), st # << >>, NEW c, IsFrame(c), LinkOK(st[Len(st)], c),
           FrameOK(IF FindKeyFold(st[Len(st)].dst, c.key) = {} THEN EmptyMap ELSE st[Len(st)].dst[c.at].map, c)
    PROVE  CallsOK(vs, Append(st, c))
  <1> DEFINE n == Len(st)
             t == Append(st, c)
  <1>1. PICK S : st \in Seq(S)
    BY DEF CallsOK
  <1>2. n \in Nat \ {0}
    BY <1>1, EmptySeq
  <1>3. t \in Seq(S \cup {c}) /\ Len(t) = n + 1 /\ t[n + 1] = c /\ \A i \in 1..n : t[i] = st[i]
    BY <1>1, <1>2
  <1> HIDE DEF t
  <1>4. \A i \in 1..(n + 1) : i = n + 1 \/ i \in 1..n
    BY <1>2
  <1>5. \A i \in 1..n : t[i].key = st[i].key /\ t[i].at = st[i].at
    BY <1>3
  <1>6. \A i \in 1..n : Was(vs, t, i) = Was(vs, st, i)
    <2>1. \A i \in 1..(n - 1) : t[i] = st[i]
      BY <1>2, <1>3
    <2> HIDE DEF n
    <2> QED BY <1>2, <1>5, <2>1, WasSame
  <1>7. FrameOK(Was(vs, t, n + 1), c)
    <2>1. n + 1 # 1 /\ (n + 1) - 1 = n /\ t[n] = st[n]
      BY <1>2, <1>3
    <2>2. Was(vs, t, n + 1) = IF FindKeyFold(st[n].dst, c.key) = {} THEN EmptyMap ELSE st[n].dst[c.at].map
      BY <1>3, <2>1 DEF Was
    <2> QED BY <2>2
  <1> HIDE DEF n
  <1>8. \A i \in 1..(n + 1) : IsFrame(t[i]) /\ FrameOK(Was(vs, t, i), t[i])
    BY <1>3, <1>4, <1>6, <1>7 DEF CallsOK, n
  <1>9. \A i \in 1..n : LinkOK(t[i], t[i + 1])
    <2> TAKE i \in 1..n
    <2>1. CASE i = n
      BY <1>3, <2>1 DEF n
    <2>2. CASE i # n
      <3>1. i \in 1..(n - 1) /\ i + 1 \in 1..n
        BY <1>2, <2>2
      <3>2. LinkOK(st[i], st[i + 1])
        BY <3>1 DEF CallsOK, n
      <3> QED BY <1>3, <3>1, <3>2
    <2> QED BY <2>1, <2>2
  <1>10. CallsOK(vs, t)
    <2>1. (n + 1) - 1 = n
      BY <1>2
    <2> QED BY <1>3, <1>8, <1>9, <2>1 DEF CallsOK
  <1> QED BY <1>10 DEF t

\* They stay in order when that on top returns, and its caller began as before.
LEMMA Popped ==
    ASSUME NEW vs, NEW st, CallsOK(vs, st), Len(st) > 1
    PROVE  /\ CallsOK(vs, SubSeq(st, 1, Len(st) - 1))
           /\ Len(SubSeq(st, 1, Len(st) - 1)) = Len(st) - 1
           /\ SubSeq(st, 1, Len(st) - 1)[Len(st) - 1] = st[Len(st) - 1]
           /\ Was(vs, SubSeq(st, 1, Len(st) - 1), Len(st) - 1) = Was(vs, st, Len(st) - 1)
  <1>1. PICK S : st \in Seq(S)
    BY DEF CallsOK
  <1> DEFINE n == Len(st) - 1
             t == SubSeq(st, 1, n)
  <1>2. n \in Nat \ {0} /\ Len(st) = n + 1
    <2>1. Len(st) \in Nat /\ Len(st) > 1
      BY <1>1
    <2>2. \A i \in Nat : i > 1 => i - 1 \in Nat \ {0} /\ i = (i - 1) + 1
      OBVIOUS
    <2> QED BY <2>1, <2>2
  <1>3. t \in Seq(S) /\ Len(t) = n /\ \A i \in 1..n : t[i] = st[i]
    BY <1>1, <1>2
  <1> HIDE DEF t, n
  <1>4. \A i \in 1..n : Was(vs, t, i) = Was(vs, st, i)
    <2>1. \A i \in 1..n : t[i].key = st[i].key /\ t[i].at = st[i].at
      BY <1>3
    <2>2. \A i \in 1..(n - 1) : t[i] = st[i]
      BY <1>2, <1>3
    <2> QED BY <1>2, <2>1, <2>2, WasSame
  <1>5. \A i \in 1..n : i \in 1..Len(st)
    BY <1>2
  <1>6. \A i \in 1..n : IsFrame(t[i]) /\ FrameOK(Was(vs, t, i), t[i])
    BY <1>3, <1>4, <1>5 DEF CallsOK
  <1>7. \A i \in 1..(n - 1) : LinkOK(t[i], t[i + 1])
    <2> TAKE i \in 1..(n - 1)
    <2>1. i \in 1..n /\ i + 1 \in 1..n /\ i \in 1..(Len(st) - 1)
      BY <1>2
    <2> QED BY <1>3, <2>1 DEF CallsOK
  <1>8. CallsOK(vs, t)
    BY <1>3, <1>6, <1>7 DEF CallsOK
  <1>9. n \in 1..n
    BY <1>2
  <1>10. CallsOK(vs, t) /\ Len(t) = n /\ t[n] = st[n] /\ Was(vs, t, n) = Was(vs, st, n)
    BY <1>3, <1>4, <1>8, <1>9
  <1> QED BY <1>10 DEF t, n

-----------------------------------------------------------------------------
(* What Set and Delete make of a map                                       *)

\* What is set has unique keys, n levels deep.
SetsUnique(ed, n) == ed.op = "set" /\ IsNode(ed.value) => FoldUniqueTo(ed.value.map, n)

\* The keys of m are as unique as those of w and of what is set.
KeepsUnique(w, m, ed) == \A n \in Nat : FoldUniqueTo(w, n) /\ SetsUnique(ed, n) => FoldUniqueTo(m, n)

\* What an operation that ends at q leaves alone is read in m as in w.
ReadsElsewhere(w, m, q, ed) ==
    \A p \in Seq(PathKeys) : p # << >> /\ (ed.phase = "failed" \/ Apart(p, q)) => Reading(m, p) = Reading(w, p)

\* A lookup of q finds what was set.
ReadsSet(w, m, q, ed) ==
    IF Blocked(w, q) THEN ed.phase = "failed"
    ELSE ed.phase = "done" /\ Along(m, q) = {IF \E i \in DOMAIN q : ~Named(q[i]) THEN Missing ELSE ed.value}

\* Delete reported whether there was something at q, and there is nothing.
ReadsDeleted(w, m, q, ed) ==
    /\ ed.phase = "done" <=> Along(w, q) # {Missing}
    /\ Along(m, q) = {Missing}

\* With q still to go, the operation made m of w.
Outcome(w, m, q, ed) ==
    /\ KeepsUnique(w, m, ed)
    /\ FoldUniqueTo(w, Len(q)) =>
          /\ ReadsElsewhere(w, m, q, ed)
          /\ IF ed.op = "set" THEN ReadsSet(w, m, q, ed) ELSE ReadsDeleted(w, m, q, ed)

-----------------------------------------------------------------------------
(* Maps with one key more or less                                          *)

\* A map with a value put under a key.
LEMMA PutFields ==
    ASSUME NEW m, NEW a, NEW v
    PROVE  /\ DOMAIN Put(m, a, v) = DOMAIN m \cup {a}
           /\ Put(m, a, v)[a] = v
           /\ \A d \in DOMAIN m : d # a => Put(m, a, v)[d] = m[d]
  BY DEF Put

\* A map without a key.
LEMMA WithoutFields ==
    ASSUME NEW m, NEW a
    PROVE  /\ DOMAIN Without(m, a) = DOMAIN m \ {a}
           /\ \A d \in DOMAIN m : d # a => Without(m, a)[d] = m[d]
  BY DEF Without

\* A value goes under a key that is there, or new whatever the case.
LEMMA PutIsUnique ==
    ASSUME NEW m, NEW i \in Nat, FoldUniqueTo(m, i + 1), NEW a, NEW v, v # Missing,
           Named(a) => a \in DOMAIN m \/ \A d \in DOMAIN m : d.fold # a.fold,
           Named(a) /\ IsNode(v) => FoldUniqueTo(v.map, i)
    PROVE  FoldUniqueTo(Put(m, a, v), i + 1)
  <1>1. PICK h : h = Put(m, a, v)
    OBVIOUS
  <1>2. DOMAIN h = DOMAIN m \cup {a} /\ h[a] = v /\ \A d \in DOMAIN m : d # a => h[d] = m[d]
    BY <1>1 DEF Put
  <1>3. HereOK(m) /\ \A d \in DOMAIN m : Named(d) /\ IsNode(m[d]) => FoldUniqueTo(m[d].map, i)
    BY FoldUniqueHead
  <1>4. FoldUniqueHere(h)
    <2>1. FoldUniqueHere(m)
      BY <1>3 DEF HereOK
    <2> QED BY <1>2, <2>1 DEF FoldUniqueHere, Named
  <1>5. HereOK(h)
    BY <1>2, <1>3, <1>4 DEF HereOK
  <1>6. \A d \in DOMAIN h : Named(d) /\ IsNode(h[d]) => FoldUniqueTo(h[d].map, i)
    <2> TAKE d \in DOMAIN h
    <2>1. CASE d = a
      BY <1>2, <2>1
    <2>2. CASE d # a
      BY <1>2, <1>3, <2>2
    <2> QED BY <2>1, <2>2
  <1>7. FoldUniqueTo(h, i + 1)
    BY <1>5, <1>6, FoldUniqueHead
  <1> QED BY <1>1, <1>7

\* Its keys stay unique.
LEMMA WithoutIsUnique ==
    ASSUME NEW m, NEW i \in Nat, FoldUniqueTo(m, i + 1), NEW a
    PROVE  FoldUniqueTo(Without(m, a), i + 1)
  <1>1. PICK h : h = Without(m, a)
    OBVIOUS
  <1>2. DOMAIN h = DOMAIN m \ {a} /\ \A d \in DOMAIN h : h[d] = m[d]
    BY <1>1, WithoutFields
  <1>3. HereOK(m) /\ \A d \in DOMAIN m : Named(d) /\ IsNode(m[d]) => FoldUniqueTo(m[d].map, i)
    BY FoldUniqueHead
  <1>4. HereOK(h)
    BY <1>2, <1>3 DEF HereOK, FoldUniqueHere
  <1>5. \A d \in DOMAIN h : Named(d) /\ IsNode(h[d]) => FoldUniqueTo(h[d].map, i)
    BY <1>2, <1>3
  <1>6. FoldUniqueTo(h, i + 1)
    BY <1>4, <1>5, FoldUniqueHead
  <1> QED BY <1>1, <1>6

\* What holds of more levels holds of fewer.
LEMMA FewerLevels ==
    ASSUME NEW m, NEW i \in Nat, NEW n \in Nat, i <= n, FoldUniqueTo(m, n)
    PROVE  FoldUniqueTo(m, i)
  <1>1. \A j \in 0..(i - 1) : j \in 0..(n - 1)
    OBVIOUS
  <1> QED BY <1>1 DEF FoldUniqueTo

\* On no level at all, keys are unique.
LEMMA NoLevels ==
    \A m : FoldUniqueTo(m, 0)
  BY DEF FoldUniqueTo

\* A natural number is 0 or a successor.
LEMMA ZeroOrNext ==
    \A n \in Nat : n = 0 \/ \E i \in Nat : n = i + 1
  <1>1. \A n \in Nat : n # 0 => n - 1 \in Nat /\ n = (n - 1) + 1
    OBVIOUS
  <1> QED BY <1>1

\* Maps with the same values under keys that fold like x.
LEMMA FoundSame ==
    ASSUME NEW w, NEW m, NEW x,
           \A d : d.fold = x.fold => (d \in DOMAIN m <=> d \in DOMAIN w),
           \A d \in DOMAIN w : d.fold = x.fold => m[d] = w[d]
    PROVE  Found(Node(m), x) = Found(Node(w), x)
  <1>1. FindKeyFold(m, x) = FindKeyFold(w, x)
    BY DEF FindKeyFold
  <1>2. \A d \in FindKeyFold(w, x) : m[d] = w[d]
    BY FindKeyFoldSound
  <1>3. IsNode(Node(m)) /\ Node(m).map = m /\ IsNode(Node(w)) /\ Node(w).map = w
    BY DEF IsNode, Node
  <1> QED BY <1>1, <1>2, <1>3 DEF Found

\* A path that begins with another key, whatever the case, is read as before.
LEMMA ReadingSame ==
    ASSUME NEW K, NEW w, NEW m, NEW x \in K, NEW p \in Seq(K), Found(Node(m), x) = Found(Node(w), x)
    PROVE  Reading(m, <<x>> \o p) = Reading(w, <<x>> \o p)
  <1>1. Along(m, <<x>> \o p) = OnwardAll(Found(Node(m), x), p)
    BY AlongHead
  <1>2. Along(w, <<x>> \o p) = OnwardAll(Found(Node(w), x), p)
    BY AlongHead
  <1> QED BY <1>1, <1>2 DEF Reading

\* The one value a key leads to, and then the rest.
LEMMA AlongOne ==
    ASSUME NEW K, NEW m, NEW k \in K, NEW q \in Seq(K), NEW v, Found(Node(m), k) = {v}
    PROVE  Along(m, <<k>> \o q) = Onward(v, q)
  <1>1. Along(m, <<k>> \o q) = OnwardAll({v}, q)
    BY AlongHead
  <1> QED BY <1>1 DEF OnwardAll

\* From nothing, nothing is found.
LEMMA OnwardMissing ==
    \A q : Onward(Missing, q) = {Missing}
  BY DEF Onward, IsNode, Missing

\* From a value that is no map, nothing is found further on.
LEMMA OnwardLeaf ==
    \A v, q : ~IsNode(v) /\ q # << >> => Onward(v, q) = {Missing}
  BY DEF Onward

\* From a map, a lookup goes on in it.
LEMMA OnwardNode ==
    \A v, q : IsNode(v) /\ q # << >> => Onward(v, q) = Along(v.map, q)
  BY DEF Onward

\* Two paths part at their first keys or in their rests.
LEMMA ApartHead ==
    ASSUME NEW K, NEW x \in K, NEW k \in K, NEW p \in Seq(K), NEW q \in Seq(K)
    PROVE  Apart(<<x>> \o p, <<k>> \o q) <=> x.fold # k.fold \/ Apart(p, q)
  <1>1. PICK P, Q : P = <<x>> \o p /\ Q = <<k>> \o q
    OBVIOUS
  <1>2. /\ Len(P) = Len(p) + 1 /\ Len(Q) = Len(q) + 1 /\ Len(p) \in Nat /\ Len(q) \in Nat
        /\ P[1] = x /\ Q[1] = k
        /\ \A n \in 1..Len(p) : P[n + 1] = p[n]
        /\ \A n \in 1..Len(q) : Q[n + 1] = q[n]
    BY <1>1
  <1>3. ASSUME Apart(P, Q) PROVE x.fold # k.fold \/ Apart(p, q)
    <2>1. PICK n \in 1..Len(P) : n <= Len(Q) /\ P[n].fold # Q[n].fold
      BY <1>3 DEF Apart
    <2>2. CASE n = 1
      BY <1>2, <2>1, <2>2
    <2>3. CASE n # 1
      <3>1. PICK i : i = n - 1 /\ i \in 1..Len(p) /\ i \in 1..Len(q) /\ n = i + 1
        BY <1>2, <2>1, <2>3
      <3>2. p[i].fold # q[i].fold
        BY <1>2, <2>1, <3>1
      <3> QED BY <3>1, <3>2 DEF Apart
    <2> QED BY <2>2, <2>3
  <1>4. ASSUME x.fold # k.fold PROVE Apart(P, Q)
    <2>1. 1 \in 1..Len(P) /\ 1 <= Len(Q)
      BY <1>2
    <2> QED BY <1>2, <1>4, <2>1 DEF Apart
  <1>5. ASSUME Apart(p, q) PROVE Apart(P, Q)
    <2>1. PICK n \in 1..Len(p) : n <= Len(q) /\ p[n].fold # q[n].fold
      BY <1>5 DEF Apart
    <2>2. n + 1 \in 1..Len(P) /\ n + 1 <= Len(Q) /\ n \in 1..Len(q)
      BY <1>2, <2>1
    <2>3. P[n + 1] = p[n] /\ Q[n + 1] = q[n]
      BY <1>2, <2>2
    <2> QED BY <2>1, <2>2, <2>3 DEF Apart
  <1> QED BY <1>1, <1>3, <1>4, <1>5

\* A path that has ended has not parted from another.
LEMMA NotApartEnd ==
    \A p, q : p = << >> \/ q = << >> => ~Apart(p, q)
  BY DEF Apart

\* Nothing is read, and nothing is in the way, in the empty map.
LEMMA EmptyReads ==
    ASSUME NEW K, NEW p \in Seq(K), p # << >>
    PROVE  Along(EmptyMap, p) = {Missing} /\ Reading(EmptyMap, p) = {Missing} /\ ~Blocked(EmptyMap, p)
  <1>1. PICK x \in K, t \in Seq(K) : p = <<x>> \o t
    <2>1. p = <<p[1]>> \o Tail(p) /\ p[1] \in K /\ Tail(p) \in Seq(K)
      OBVIOUS
    <2> QED BY <2>1
  <1>2. Found(Node(EmptyMap), x) = {Missing}
    BY EmptyMapFacts
  <1>3. Along(EmptyMap, <<x>> \o t) = {Missing}
    <2>1. Along(EmptyMap, <<x>> \o t) = Onward(Missing, t)
      BY <1>2, AlongOne
    <2> QED BY <2>1, OnwardMissing
  <1>4. SeenAs(Missing) = Missing
    BY DEF SeenAs, IsNode, Missing
  <1>5. Reading(EmptyMap, p) = {Missing}
    BY <1>1, <1>3, <1>4 DEF Reading
  <1>6. Blocked(EmptyMap, <<x>> \o t) <=> BlockedOn(Missing, t)
    BY <1>2, BlockedHead
  <1>7. ~BlockedOn(Missing, t)
    BY ReadOnMissing DEF BlockedOn
  <1> QED BY <1>1, <1>3, <1>5, <1>6, <1>7

\* A path is its first key and a rest.
LEMMA SplitPath ==
    ASSUME NEW K, NEW p \in Seq(K), p # << >>
    PROVE  \E x \in K, t \in Seq(K) : p = <<x>> \o t
  <1>1. p = <<p[1]>> \o Tail(p) /\ p[1] \in K /\ Tail(p) \in Seq(K)
    OBVIOUS
  <1> QED BY <1>1

\* A lookup finds what was put under a key that folds alike.
LEMMA FoundPut ==
    ASSUME NEW w, FoldUniqueHere(w), NEW k, Named(k), NEW a, a.fold = k.fold, NEW v,
           a \in DOMAIN w \/ \A d \in DOMAIN w : d.fold # k.fold
    PROVE  Found(Node(Put(w, a, v)), k) = {v}
  <1>1. PICK h : h = Put(w, a, v)
    OBVIOUS
  <1>2. DOMAIN h = DOMAIN w \cup {a} /\ h[a] = v
    BY <1>1 DEF Put
  <1>3. FoldUniqueHere(h)
    BY <1>2 DEF FoldUniqueHere, Named
  <1>4. a \in DOMAIN h
    BY <1>2
  <1>5. Found(Node(h), k) = {h[a]}
    BY <1>3, <1>4, FoundOne
  <1> QED BY <1>1, <1>2, <1>5

\* A lookup of another key finds what it found.
LEMMA FoundPutOther ==
    ASSUME NEW w, NEW x, NEW a, x.fold # a.fold, NEW v
    PROVE  Found(Node(Put(w, a, v)), x) = Found(Node(w), x)
  <1>1. PICK h : h = Put(w, a, v)
    OBVIOUS
  <1>2. DOMAIN h = DOMAIN w \cup {a} /\ \A d \in DOMAIN w : d # a => h[d] = w[d]
    BY <1>1 DEF Put
  <1>3. Found(Node(h), x) = Found(Node(w), x)
    BY <1>2, FoundSame
  <1> QED BY <1>1, <1>3

\* So it does when a key was removed.
LEMMA FoundWithoutOther ==
    ASSUME NEW w, NEW x, NEW a, x.fold # a.fold
    PROVE  Found(Node(Without(w, a)), x) = Found(Node(w), x)
  <1>1. PICK h : h = Without(w, a)
    OBVIOUS
  <1>2. DOMAIN h = DOMAIN w \ {a} /\ \A d \in DOMAIN w : d # a => h[d] = w[d]
    BY <1>1 DEF Without
  <1>3. Found(Node(h), x) = Found(Node(w), x)
    BY <1>2, FoundSame
  <1> QED BY <1>1, <1>3

-----------------------------------------------------------------------------
(* Set and Delete at the end of their path                                 *)

\* Where Set puts something under key k of w, and where it looks first.
PlaceOf(w, k, a) == a \in FindKeyFold(w, k) \/ (FindKeyFold(w, k) = {} /\ a = k)

\* The key Set puts something under folds alike, and is there or new.
LEMMA PlaceFits ==
    ASSUME NEW w, NEW k, NEW a, PlaceOf(w, k, a)
    PROVE  /\ a.fold = k.fold
           /\ Named(a) <=> Named(k)
           /\ Named(k) => a \in DOMAIN w \/ \A d \in DOMAIN w : d.fold # k.fold
  <1>1. CASE a \in FindKeyFold(w, k)
    BY <1>1, FindKeyFoldSound DEF Named
  <1>2. CASE FindKeyFold(w, k) = {} /\ a = k
    BY <1>2, FindKeyFoldNone
  <1> QED BY <1>1, <1>2 DEF PlaceOf

\* What is not read under key k is read as before.
LEMMA ReadsBesideKey ==
    ASSUME NEW w, NEW m, NEW k \in PathKeys,
           \A x : x.fold # k.fold => Found(Node(m), x) = Found(Node(w), x),
           NEW p \in Seq(PathKeys), p # << >>, Apart(p, <<k>> \o << >>)
    PROVE  Reading(m, p) = Reading(w, p)
  <1>1. PICK x \in PathKeys, t \in Seq(PathKeys) : p = <<x>> \o t
    BY SplitPath
  <1>2. << >> \in Seq(PathKeys)
    OBVIOUS
  <1>3. Apart(<<x>> \o t, <<k>> \o << >>) <=> x.fold # k.fold \/ Apart(t, << >>)
    BY <1>2, ApartHead
  <1>4. x.fold # k.fold
    BY <1>1, <1>3, NotApartEnd
  <1>5. Found(Node(m), x) = Found(Node(w), x)
    BY <1>4
  <1>6. Reading(m, <<x>> \o t) = Reading(w, <<x>> \o t)
    BY <1>5, ReadingSame
  <1> QED BY <1>1, <1>6

\* A path of one key.
LEMMA AlongKey ==
    ASSUME NEW m, NEW k \in PathKeys, NEW v, Found(Node(m), k) = {v}
    PROVE  Along(m, <<k>> \o << >>) = {v}
  <1>1. PICK t : t = << >>
    OBVIOUS
  <1>2. Along(m, <<k>> \o t) = Onward(v, t)
    <2>1. t \in Seq(PathKeys)
      BY <1>1
    <2> QED BY <2>1, AlongOne
  <1>3. Onward(v, t) = {v}
    BY <1>1 DEF Onward
  <1> QED BY <1>1, <1>2, <1>3

\* At the last segment Set makes what it should.
LEMMA SetOutcome ==
    ASSUME NEW w, NEW k \in PathKeys, NEW a, PlaceOf(w, k, a),
           NEW ed, ed.op = "set", ed.phase = "done", ed.value # Missing
    PROVE  Outcome(w, Put(w, a, ed.value), <<k>> \o << >>, ed)
  <1>1. PICK v, m, q : v = ed.value /\ m = Put(w, a, v) /\ q = <<k>> \o << >>
    OBVIOUS
  <1>2. /\ a.fold = k.fold /\ (Named(a) <=> Named(k))
        /\ Named(k) => a \in DOMAIN w \/ \A d \in DOMAIN w : d.fold # k.fold
    BY PlaceFits
  <1>3. KeepsUnique(w, m, ed)
    <2> SUFFICES ASSUME NEW n \in Nat, FoldUniqueTo(w, n), SetsUnique(ed, n) PROVE FoldUniqueTo(m, n)
      BY DEF KeepsUnique
    <2>1. CASE n = 0
      BY <2>1, NoLevels
    <2>2. CASE n # 0
      <3>1. PICK i \in Nat : n = i + 1
        BY <2>2, ZeroOrNext
      <3>2. IsNode(v) => FoldUniqueTo(v.map, i)
        <4>1. i <= n
          BY <3>1
        <4> QED BY <1>1, <3>1, <4>1, FewerLevels DEF SetsUnique
      <3>3. Named(a) => a \in DOMAIN w \/ \A d \in DOMAIN w : d.fold # a.fold
        BY <1>2
      <3>4. FoldUniqueTo(w, i + 1) /\ v # Missing
        BY <1>1, <3>1
      <3>5. FoldUniqueTo(Put(w, a, v), i + 1)
        BY <3>2, <3>3, <3>4, PutIsUnique
      <3> QED BY <1>1, <3>1, <3>5
    <2> QED BY <2>1, <2>2
  <1>4. ReadsElsewhere(w, m, q, ed)
    <2> SUFFICES ASSUME NEW p \in Seq(PathKeys), p # << >>, Apart(p, q) PROVE Reading(m, p) = Reading(w, p)
      BY DEF ReadsElsewhere
    <2>1. \A x : x.fold # k.fold => Found(Node(m), x) = Found(Node(w), x)
      BY <1>1, <1>2, FoundPutOther
    <2> QED BY <1>1, <2>1, ReadsBesideKey
  <1>5. q \in Seq(PathKeys) /\ Len(q) = 1 /\ q[1] = k /\ DOMAIN q = 1..1
    BY <1>1
  <1>6. ASSUME FoldUniqueTo(w, Len(q)) PROVE ReadsSet(w, m, q, ed)
    <2>1. ~Blocked(w, q)
      BY <1>5 DEF Blocked
    <2>2. FoldUniqueHere(w)
      <3>1. FoldUniqueTo(w, 0 + 1)
        BY <1>5, <1>6
      <3> QED BY <3>1, FoldUniqueHead DEF HereOK
    <2>4. \A u : Found(Node(m), k) = {u} => Along(m, q) = {u}
      BY <1>1, AlongKey
    <2>5. CASE Named(k)
      <3>1. Found(Node(m), k) = {v}
        BY <1>1, <1>2, <2>2, <2>5, FoundPut
      <3>2. ~\E i \in DOMAIN q : ~Named(q[i])
        BY <1>5, <2>5
      <3> QED BY <1>1, <2>1, <2>4, <3>1, <3>2 DEF ReadsSet
    <2>6. CASE ~Named(k)
      <3>1. Found(Node(m), k) = {Missing}
        BY <2>6, FoundNone
      <3>2. \E i \in DOMAIN q : ~Named(q[i])
        BY <1>5, <2>6
      <3> QED BY <2>1, <2>4, <3>1, <3>2 DEF ReadsSet
    <2> QED BY <2>5, <2>6
  <1>7. Outcome(w, m, q, ed)
    BY <1>3, <1>4, <1>6 DEF Outcome
  <1> QED BY <1>1, <1>7

\* So does Delete.
LEMMA DeleteOutcome ==
    ASSUME NEW w, NEW k \in PathKeys, NEW a \in FindKeyFold(w, k),
           NEW ed, ed.op = "delete", ed.phase = "done"
    PROVE  Outcome(w, Without(w, a), <<k>> \o << >>, ed)
  <1>1. PICK m, q : m = Without(w, a) /\ q = <<k>> \o << >>
    OBVIOUS
  <1>2. a \in DOMAIN w /\ a.fold = k.fold /\ Named(k)
    BY FindKeyFoldSound
  <1>3. KeepsUnique(w, m, ed)
    <2> SUFFICES ASSUME NEW n \in Nat, FoldUniqueTo(w, n) PROVE FoldUniqueTo(m, n)
      BY DEF KeepsUnique
    <2>1. CASE n = 0
      BY <2>1, NoLevels
    <2>2. CASE n # 0
      <3>1. PICK i \in Nat : n = i + 1
        BY <2>2, ZeroOrNext
      <3>2. FoldUniqueTo(w, i + 1)
        BY <3>1
      <3>3. FoldUniqueTo(Without(w, a), i + 1)
        BY <3>2, WithoutIsUnique
      <3> QED BY <1>1, <3>1, <3>3
    <2> QED BY <2>1, <2>2
  <1>5. ReadsElsewhere(w, m, q, ed)
    <2> SUFFICES ASSUME NEW p \in Seq(PathKeys), p # << >>, Apart(p, q) PROVE Reading(m, p) = Reading(w, p)
      BY DEF ReadsElsewhere
    <2>1. \A x : x.fold # k.fold => Found(Node(m), x) = Found(Node(w), x)
      BY <1>1, <1>2, FoundWithoutOther
    <2> QED BY <1>1, <2>1, ReadsBesideKey
  <1>6. ASSUME FoldUniqueTo(w, Len(q)) PROVE ReadsDeleted(w, m, q, ed)
    <2>1. Len(q) = 0 + 1
      BY <1>1
    <2>2. FoldUniqueHere(w) /\ w[a] # Missing
      BY <1>2, <1>6, <2>1, UniqueUnder
    <2>3. Found(Node(w), k) = {w[a]}
      BY <1>2, <2>2, FoundOne
    <2>4. Found(Node(m), k) = {Missing}
      <3>1. \A d \in DOMAIN m : d.fold # k.fold
        BY <1>1, <1>2, <2>2 DEF Without, FoldUniqueHere, Named
      <3> QED BY <3>1, FoundNone
    <2>5. PICK v : v = w[a]
      OBVIOUS
    <2>6. Along(w, q) = {v}
      BY <1>1, <2>3, <2>5, AlongKey
    <2>7. Along(m, q) = {Missing}
      BY <1>1, <2>4, AlongKey
    <2> QED BY <2>2, <2>5, <2>6, <2>7 DEF ReadsDeleted
  <1>7. Outcome(w, m, q, ed)
    BY <1>3, <1>5, <1>6 DEF Outcome
  <1> QED BY <1>1, <1>7

\* Neither has changed anything when it gives up.
LEMMA GiveUpOutcome ==
    ASSUME NEW w, NEW k \in PathKeys, NEW t \in Seq(PathKeys), NEW ed,
           ed.op \in {"set", "delete"}, ed.phase = "failed",
           \/ t # << >> /\ \E a \in FindKeyFold(w, k) : ~IsNode(w[a])
           \/ ed.op = "delete" /\ FindKeyFold(w, k) = {}
    PROVE  Outcome(w, w, <<k>> \o t, ed)
  <1>1. PICK q : q = <<k>> \o t
    OBVIOUS
  <1>2. KeepsUnique(w, w, ed) /\ ReadsElsewhere(w, w, q, ed)
    BY DEF KeepsUnique, ReadsElsewhere
  <1>3. ASSUME FoldUniqueTo(w, Len(q)), NEW a \in FindKeyFold(w, k), ~IsNode(w[a]), t # << >>
        PROVE  Blocked(w, q) /\ Along(w, q) = {Missing}
    <2>1. PICK i \in Nat : Len(q) = i + 1
      <3>1. Len(t) \in Nat /\ Len(q) = Len(t) + 1
        BY <1>1
      <3> QED BY <3>1
    <2>2. a \in DOMAIN w /\ a.fold = k.fold /\ Named(k)
      BY FindKeyFoldSound
    <2>3. FoldUniqueHere(w) /\ w[a] # Missing
      BY <1>3, <2>1, <2>2, UniqueUnder
    <2>4. PICK v : v = w[a]
      OBVIOUS
    <2>5. Found(Node(w), k) = {v}
      BY <2>2, <2>3, <2>4, FoundOne
    <2>6. Along(w, <<k>> \o t) = Onward(v, t)
      BY <2>5, AlongOne
    <2>7. Onward(v, t) = {Missing}
      BY <1>3, <2>4, OnwardLeaf
    <2>8. Blocked(w, <<k>> \o t) <=> BlockedOn(v, t)
      BY <2>5, BlockedHead
    <2>9. BlockedOn(v, t)
      BY <1>3, <2>3, <2>4, BlockedOnLeaf
    <2> QED BY <1>1, <2>6, <2>7, <2>8, <2>9
  <1>4. ASSUME FindKeyFold(w, k) = {} PROVE Along(w, q) = {Missing}
    <2>1. Found(Node(w), k) = {Missing}
      BY <1>4 DEF Found, Node, IsNode
    <2>2. Along(w, <<k>> \o t) = Onward(Missing, t)
      BY <2>1, AlongOne
    <2> QED BY <1>1, <2>2, OnwardMissing
  <1>5. ASSUME FoldUniqueTo(w, Len(q))
        PROVE  IF ed.op = "set" THEN ReadsSet(w, w, q, ed) ELSE ReadsDeleted(w, w, q, ed)
    <2>1. CASE ed.op = "set"
      <3>1. Blocked(w, q)
        BY <1>3, <1>5, <2>1
      <3> QED BY <2>1, <3>1 DEF ReadsSet
    <2>2. CASE ed.op = "delete"
      <3>1. Along(w, q) = {Missing}
        BY <1>3, <1>4, <1>5
      <3> QED BY <2>2, <3>1 DEF ReadsDeleted
    <2> QED BY <2>1, <2>2
  <1>6. Outcome(w, w, q, ed)
    BY <1>2, <1>5 DEF Outcome
  <1> QED BY <1>1, <1>6

-----------------------------------------------------------------------------
(* A map goes back under its key                                           *)

\* Under key k of w there is a map or, for Set, nothing yet; that of the next frame
\* begins as wc.
OnwardOf(w, k, a, wc, ed) ==
    \/ FindKeyFold(w, k) = {} /\ a = k /\ wc = EmptyMap /\ ed.op = "set"
    \/ a \in FindKeyFold(w, k) /\ IsNode(w[a]) /\ wc = w[a].map

\* A walk goes on at a place that fits, in a map with keys as unique as those around it.
LEMMA OnwardFits ==
    ASSUME NEW w, NEW k, NEW a, NEW wc, NEW ed, OnwardOf(w, k, a, wc, ed)
    PROVE  /\ PlaceOf(w, k, a)
           /\ \A i \in Nat : FoldUniqueTo(w, i + 1) => FoldUniqueTo(wc, i)
  <1>1. PlaceOf(w, k, a)
    BY DEF OnwardOf, PlaceOf
  <1>2. ASSUME NEW i \in Nat, FoldUniqueTo(w, i + 1), a \in FindKeyFold(w, k), IsNode(w[a])
        PROVE  FoldUniqueTo(w[a].map, i)
    <2>1. a \in DOMAIN w /\ Named(a)
      BY <1>2, FindKeyFoldSound DEF Named
    <2> QED BY <1>2, <2>1, UniqueUnder
  <1> QED BY <1>1, <1>2, EmptyIsUnique DEF OnwardOf

\* A map with unique keys that goes back leaves them unique.
LEMMA ReturnKeepsUnique ==
    ASSUME NEW w, NEW k, NEW a, NEW wc, NEW ed, OnwardOf(w, k, a, wc, ed),
           NEW mc, KeepsUnique(wc, mc, ed)
    PROVE  KeepsUnique(w, Put(w, a, Node(mc)), ed)
  <1> SUFFICES ASSUME NEW n \in Nat, FoldUniqueTo(w, n), SetsUnique(ed, n)
               PROVE  FoldUniqueTo(Put(w, a, Node(mc)), n)
    BY DEF KeepsUnique
  <1>1. CASE n = 0
    BY <1>1, NoLevels
  <1>2. CASE n # 0
    <2>1. PICK i \in Nat : n = i + 1
      BY <1>2, ZeroOrNext
    <2>2. SetsUnique(ed, i)
      <3>1. i <= n
        BY <2>1
      <3> QED BY <3>1, FewerLevels DEF SetsUnique
    <2>3. FoldUniqueTo(mc, i)
      BY <2>1, <2>2, OnwardFits DEF KeepsUnique
    <2>4. PICK v : v = Node(mc)
      OBVIOUS
    <2>5. v # Missing /\ v.map = mc
      BY <2>4 DEF Node, Missing
    <2>6. Named(a) => a \in DOMAIN w \/ \A d \in DOMAIN w : d.fold # a.fold
      BY OnwardFits, PlaceFits
    <2>7. FoldUniqueTo(w, i + 1)
      BY <2>1
    <2>8. FoldUniqueTo(Put(w, a, v), i + 1)
      BY <2>3, <2>5, <2>6, <2>7, PutIsUnique
    <2> QED BY <2>1, <2>4, <2>8
  <1> QED BY <1>1, <1>2

\* What is under key k, in any casing, before and after.
LEMMA ReturnFound ==
    ASSUME NEW w, FoldUniqueHere(w), NEW k, NEW a, NEW wc, NEW ed, OnwardOf(w, k, a, wc, ed), NEW v,
           NEW x, x.fold = k.fold
    PROVE  /\ Found(Node(w), x) = {IF FindKeyFold(w, k) = {} THEN Missing ELSE w[a]}
           /\ Found(Node(Put(w, a, v)), x) = {IF Named(k) THEN v ELSE Missing}
  <1>1. /\ a.fold = k.fold /\ (Named(a) <=> Named(k))
        /\ Named(k) => a \in DOMAIN w \/ \A d \in DOMAIN w : d.fold # k.fold
    BY OnwardFits, PlaceFits
  <1>2. Named(x) <=> Named(k)
    BY DEF Named
  <1>3. Found(Node(Put(w, a, v)), x) = {IF Named(k) THEN v ELSE Missing}
    <2>1. CASE Named(k)
      <3>1. a \in DOMAIN w \/ \A d \in DOMAIN w : d.fold # x.fold
        BY <1>1, <2>1
      <3>2. a.fold = x.fold /\ Named(x)
        BY <1>1, <1>2, <2>1
      <3>3. Found(Node(Put(w, a, v)), x) = {v}
        BY <3>1, <3>2, FoundPut
      <3> QED BY <2>1, <3>3
    <2>2. CASE ~Named(k)
      BY <1>2, <2>2, FoundNone
    <2> QED BY <2>1, <2>2
  <1>4. CASE FindKeyFold(w, k) = {}
    <2>1. Named(x) => \A d \in DOMAIN w : d.fold # x.fold
      BY <1>2, <1>4, FindKeyFoldNone
    <2>2. Found(Node(w), x) = {Missing}
      BY <2>1, FoundNone
    <2> QED BY <1>3, <1>4, <2>2
  <1>5. CASE a \in FindKeyFold(w, k)
    <2>1. a \in DOMAIN w /\ Named(x) /\ a.fold = x.fold
      BY <1>2, <1>5, FindKeyFoldSound
    <2>2. Found(Node(w), x) = {w[a]}
      BY <2>1, FoundOne
    <2> QED BY <1>3, <1>5, <2>2
  <1> QED BY <1>4, <1>5 DEF OnwardOf

\* A map that was made for Set is never given up.
LEMMA NewMapIsDone ==
    ASSUME NEW wc, wc = EmptyMap, NEW mc, NEW t \in Seq(PathKeys), t # << >>, NEW ed,
           ed.op = "set", Outcome(wc, mc, t, ed)
    PROVE  ed.phase = "done"
  <1>1. FoldUniqueTo(wc, Len(t))
    <2>1. Len(t) \in Nat
      OBVIOUS
    <2> QED BY <2>1, EmptyIsUnique
  <1>2. ~Blocked(wc, t)
    BY EmptyReads
  <1> QED BY <1>1, <1>2 DEF Outcome, ReadsSet

\* When the inner map reads elsewhere as before, so does the outer one.
LEMMA ReturnReadsElsewhere ==
    ASSUME NEW w, NEW k \in PathKeys, NEW a, NEW wc, NEW ed, OnwardOf(w, k, a, wc, ed),
           NEW t \in Seq(PathKeys), t # << >>, NEW mc, Outcome(wc, mc, t, ed), FoldUniqueTo(w, Len(t) + 1)
    PROVE  ReadsElsewhere(w, Put(w, a, Node(mc)), <<k>> \o t, ed)
  <1>1. PICK m, v : v = Node(mc) /\ m = Put(w, a, v)
    OBVIOUS
  <1>2. IsNode(v) /\ v.map = mc
    BY <1>1 DEF Node, IsNode
  <1>3. FoldUniqueHere(w) /\ FoldUniqueTo(wc, Len(t))
    <2>1. Len(t) \in Nat
      OBVIOUS
    <2> QED BY <2>1, FoldUniqueHead, OnwardFits DEF HereOK
  <1>4. ReadsElsewhere(wc, mc, t, ed)
    BY <1>3 DEF Outcome
  <1> SUFFICES ASSUME NEW p \in Seq(PathKeys), p # << >>, ed.phase = "failed" \/ Apart(p, <<k>> \o t)
               PROVE  Reading(m, p) = Reading(w, p)
    BY <1>1 DEF ReadsElsewhere
  <1>5. PICK x \in PathKeys, s \in Seq(PathKeys) : p = <<x>> \o s
    BY SplitPath
  <1>6. Apart(<<x>> \o s, <<k>> \o t) <=> x.fold # k.fold \/ Apart(s, t)
    BY ApartHead
  <1>7. CASE x.fold # k.fold
    <2>1. x.fold # a.fold
      BY <1>7, OnwardFits, PlaceFits
    <2>2. Found(Node(m), x) = Found(Node(w), x)
      BY <1>1, <2>1, FoundPutOther
    <2>3. Reading(m, <<x>> \o s) = Reading(w, <<x>> \o s)
      BY <2>2, ReadingSame
    <2> QED BY <1>5, <2>3
  <1>8. CASE x.fold = k.fold
    <2>1. PICK u : u = IF FindKeyFold(w, k) = {} THEN Missing ELSE w[a]
      OBVIOUS
    <2>2. Found(Node(w), x) = {u} /\ Found(Node(m), x) = {IF Named(k) THEN v ELSE Missing}
      BY <1>1, <1>3, <1>8, <2>1, ReturnFound
    <2>3. CASE ~Named(k)
      <3>1. FindKeyFold(w, k) = {}
        BY <2>3, FindKeyFoldSound
      <3>2. Found(Node(m), x) = Found(Node(w), x)
        BY <2>1, <2>2, <2>3, <3>1
      <3>3. Reading(m, <<x>> \o s) = Reading(w, <<x>> \o s)
        BY <3>2, ReadingSame
      <3> QED BY <1>5, <3>3
    <2>4. CASE Named(k)
      <3>1. Found(Node(m), x) = {v}
        BY <2>2, <2>4
      <3>2. Reading(m, <<x>> \o s) = ReadOn(v, s)
        BY <3>1, ReadingHead
      <3>3. Reading(w, <<x>> \o s) = ReadOn(u, s)
        BY <2>2, ReadingHead
      <3>4. (u = Missing /\ wc = EmptyMap /\ ed.phase = "done") \/ (IsNode(u) /\ wc = u.map)
        <4>1. CASE FindKeyFold(w, k) = {} /\ wc = EmptyMap /\ ed.op = "set"
          BY <2>1, <4>1, NewMapIsDone
        <4>2. CASE a \in FindKeyFold(w, k) /\ IsNode(w[a]) /\ wc = w[a].map
          BY <2>1, <4>2
        <4> QED BY <4>1, <4>2 DEF OnwardOf
      <3>5. CASE s = << >>
        <4>1. ed.phase = "failed"
          BY <1>5, <1>6, <1>8, <3>5, NotApartEnd
        <4>2. SeenAs(u) = SeenAs(v)
          BY <1>2, <3>4, <4>1 DEF SeenAs
        <4>3. ReadOn(v, s) = {SeenAs(v)} /\ ReadOn(u, s) = {SeenAs(u)}
          BY <3>5, ReadOnEnd
        <4> QED BY <1>5, <3>2, <3>3, <4>2, <4>3
      <3>6. CASE s # << >>
        <4>1. Reading(mc, s) = Reading(wc, s)
          BY <1>4, <1>5, <1>6, <1>8, <3>6 DEF ReadsElsewhere
        <4>2. ReadOn(v, s) = Reading(mc, s)
          BY <1>2, <3>6, ReadOnNode
        <4>3. ReadOn(u, s) = Reading(wc, s)
          <5>1. CASE IsNode(u) /\ wc = u.map
            BY <3>6, <5>1, ReadOnNode
          <5>2. CASE u = Missing /\ wc = EmptyMap
            <6>1. Reading(wc, s) = {Missing}
              BY <3>6, <5>2, EmptyReads
            <6> QED BY <5>2, <6>1, ReadOnMissing
          <5> QED BY <3>4, <5>1, <5>2
        <4> QED BY <1>5, <3>2, <3>3, <4>1, <4>2, <4>3
      <3> QED BY <3>5, <3>6
    <2> QED BY <2>3, <2>4
  <1> QED BY <1>7, <1>8

\* When the inner map reads as it should at the rest of the path, so does the outer
\* one at the path.
LEMMA ReturnMeetsGet ==
    ASSUME NEW w, NEW k \in PathKeys, NEW a, NEW wc, NEW ed, OnwardOf(w, k, a, wc, ed),
           NEW t \in Seq(PathKeys), t # << >>, NEW mc, Outcome(wc, mc, t, ed), FoldUniqueTo(w, Len(t) + 1),
           NEW m, m = Put(w, a, Node(mc)), NEW q, q = <<k>> \o t
    PROVE  IF ed.op = "set" THEN ReadsSet(w, m, q, ed) ELSE ReadsDeleted(w, m, q, ed)
  <1>1. PICK v : v = Node(mc)
    OBVIOUS
  <1>2. IsNode(v) /\ v.map = mc
    BY <1>1 DEF Node, IsNode
  <1>3. FoldUniqueHere(w) /\ FoldUniqueTo(wc, Len(t))
    <2>1. Len(t) \in Nat
      OBVIOUS
    <2> QED BY <2>1, FoldUniqueHead, OnwardFits DEF HereOK
  <1>4. IF ed.op = "set" THEN ReadsSet(wc, mc, t, ed) ELSE ReadsDeleted(wc, mc, t, ed)
    BY <1>3 DEF Outcome
  <1>5. PICK u : u = IF FindKeyFold(w, k) = {} THEN Missing ELSE w[a]
    OBVIOUS
  <1>6. Found(Node(w), k) = {u} /\ Found(Node(m), k) = {IF Named(k) THEN v ELSE Missing}
    BY <1>1, <1>3, <1>5, ReturnFound
  <1>7. (u = Missing /\ wc = EmptyMap /\ ed.op = "set") \/ (Named(k) /\ IsNode(u) /\ wc = u.map)
    BY <1>5, FindKeyFoldSound DEF OnwardOf
  <1>8. Along(w, q) = Onward(u, t) /\ (Blocked(w, q) <=> BlockedOn(u, t))
    <2>1. Along(w, <<k>> \o t) = Onward(u, t)
      BY <1>6, AlongOne
    <2>2. Blocked(w, <<k>> \o t) <=> BlockedOn(u, t)
      BY <1>6, BlockedHead
    <2> QED BY <2>1, <2>2
  <1>9. Along(m, q) = IF Named(k) THEN Along(mc, t) ELSE {Missing}
    <2>1. CASE Named(k)
      <3>1. Found(Node(m), k) = {v}
        BY <1>6, <2>1
      <3>2. Along(m, <<k>> \o t) = Onward(v, t)
        BY <3>1, AlongOne
      <3> QED BY <1>2, <2>1, <3>2, OnwardNode
    <2>2. CASE ~Named(k)
      <3>1. Found(Node(m), k) = {Missing}
        BY <1>6, <2>2
      <3>2. Along(m, <<k>> \o t) = Onward(Missing, t)
        BY <3>1, AlongOne
      <3> QED BY <2>2, <3>2, OnwardMissing
    <2> QED BY <2>1, <2>2
  <1>10. CASE ed.op = "set"
    <2>1. Blocked(w, q) <=> Blocked(wc, t)
      <3>1. CASE IsNode(u) /\ wc = u.map
        BY <1>8, <3>1, BlockedOnNode
      <3>2. CASE u = Missing /\ wc = EmptyMap
        <4>1. ~BlockedOn(Missing, t)
          BY ReadOnMissing DEF BlockedOn
        <4>2. ~Blocked(EmptyMap, t)
          BY EmptyReads
        <4> QED BY <1>8, <3>2, <4>1, <4>2
      <3> QED BY <1>7, <3>1, <3>2
    <2>2. (\E i \in DOMAIN q : ~Named(q[i])) <=> ~Named(k) \/ \E i \in DOMAIN t : ~Named(t[i])
      <3>1. /\ DOMAIN q = 1..(Len(t) + 1) /\ DOMAIN t = 1..Len(t) /\ Len(t) \in Nat
            /\ q[1] = k /\ \A i \in 1..Len(t) : q[i + 1] = t[i]
        OBVIOUS
      <3>2. \A i \in 1..(Len(t) + 1) : i = 1 \/ (i - 1 \in 1..Len(t) /\ (i - 1) + 1 = i)
        BY <3>1
      <3>3. 1 \in 1..(Len(t) + 1) /\ \A i \in 1..Len(t) : i + 1 \in 1..(Len(t) + 1)
        BY <3>1
      <3>4. ASSUME NEW i \in DOMAIN q, ~Named(q[i]) PROVE ~Named(k) \/ \E j \in DOMAIN t : ~Named(t[j])
        <4>1. CASE i = 1
          BY <3>1, <3>4, <4>1
        <4>2. CASE i # 1
          <5>1. PICK j : j = i - 1
            OBVIOUS
          <5>2. j \in DOMAIN t /\ q[i] = t[j]
            BY <3>1, <3>2, <4>2, <5>1
          <5> QED BY <3>4, <5>2
        <4> QED BY <4>1, <4>2
      <3>5. ASSUME ~Named(k) PROVE \E i \in DOMAIN q : ~Named(q[i])
        BY <3>1, <3>3, <3>5
      <3>6. ASSUME NEW j \in DOMAIN t, ~Named(t[j]) PROVE \E i \in DOMAIN q : ~Named(q[i])
        <4>1. PICK i : i = j + 1
          OBVIOUS
        <4>2. i \in DOMAIN q /\ q[i] = t[j]
          BY <3>1, <3>3, <4>1
        <4> QED BY <3>6, <4>2
      <3> QED BY <3>4, <3>5, <3>6
    <2>3. ReadsSet(wc, mc, t, ed)
      BY <1>4, <1>10
    <2>4. ReadsSet(w, m, q, ed)
      <3>1. CASE Blocked(w, q)
        BY <2>1, <2>3, <3>1 DEF ReadsSet
      <3>2. CASE ~Blocked(w, q)
        <4>1. ed.phase = "done" /\ Along(mc, t) = {IF \E i \in DOMAIN t : ~Named(t[i]) THEN Missing ELSE ed.value}
          BY <2>1, <2>3, <3>2 DEF ReadsSet
        <4>2. Along(m, q) = {IF \E i \in DOMAIN q : ~Named(q[i]) THEN Missing ELSE ed.value}
          <5>1. CASE Named(k)
            BY <1>9, <2>2, <4>1, <5>1
          <5>2. CASE ~Named(k)
            BY <1>9, <2>2, <5>2
          <5> QED BY <5>1, <5>2
        <4> QED BY <3>2, <4>1, <4>2 DEF ReadsSet
      <3> QED BY <3>1, <3>2
    <2> QED BY <1>10, <2>4
  <1>11. CASE ed.op # "set"
    <2>1. Named(k) /\ IsNode(u) /\ wc = u.map
      BY <1>7, <1>11
    <2>2. Along(w, q) = Along(wc, t) /\ Along(m, q) = Along(mc, t)
      BY <1>8, <1>9, <2>1, OnwardNode
    <2>3. ReadsDeleted(wc, mc, t, ed)
      BY <1>4, <1>11
    <2> QED BY <1>11, <2>2, <2>3 DEF ReadsDeleted
  <1> QED BY <1>10, <1>11

\* What a nested map's outcome is, that of the map around it is.
LEMMA ReturnOutcome ==
    ASSUME NEW w, NEW k \in PathKeys, NEW a, NEW wc, NEW ed, OnwardOf(w, k, a, wc, ed),
           NEW t \in Seq(PathKeys), t # << >>, NEW mc, Outcome(wc, mc, t, ed)
    PROVE  Outcome(w, Put(w, a, Node(mc)), <<k>> \o t, ed)
  <1>1. KeepsUnique(w, Put(w, a, Node(mc)), ed)
    BY ReturnKeepsUnique DEF Outcome
  <1>2. Len(<<k>> \o t) = Len(t) + 1
    OBVIOUS
  <1>3. ASSUME FoldUniqueTo(w, Len(t) + 1)
        PROVE  ReadsElsewhere(w, Put(w, a, Node(mc)), <<k>> \o t, ed)
    BY <1>3, ReturnReadsElsewhere
  <1>4. PICK m, q : m = Put(w, a, Node(mc)) /\ q = <<k>> \o t
    OBVIOUS
  <1>5. ASSUME FoldUniqueTo(w, Len(t) + 1)
        PROVE  IF ed.op = "set" THEN ReadsSet(w, m, q, ed) ELSE ReadsDeleted(w, m, q, ed)
    BY <1>4, <1>5, ReturnMeetsGet
  <1>6. Outcome(w, m, q, ed)
    BY <1>1, <1>2, <1>3, <1>4, <1>5 DEF Outcome
  <1> QED BY <1>4, <1>6

-----------------------------------------------------------------------------
(* The invariant of a running Set or Delete                                *)

\* The path from segment n on.
RestFrom(ed, n) == SubSeq(ed.path, n, Len(ed.path))

\* Where frame i + 1 comes from.
LinkedAt(vs, st, ed, i) ==
    /\ st[i].dst = Was(vs, st, i)
    /\ st[i + 1].key = ed.path[i]
    /\ OnwardOf(st[i].dst, ed.path[i], st[i + 1].at, Was(vs, st, i + 1), ed)

\* A frame of Set or Delete has no src.
Bare(f) == IsFrame(f) /\ f.todo = {} /\ f.src = EmptyMap

\* The frames are the maps along the first segments; only that on top is changed.
WalkOK(vs, st, ed) ==
    /\ \E S : st \in Seq(S)
    /\ Len(st) \in 1..Len(ed.path)
    /\ \A i \in 1..Len(st) : Bare(st[i])
    /\ \A i \in 1..(Len(st) - 1) : LinkedAt(vs, st, ed, i)
    /\ IF ed.phase = "down" THEN st[Len(st)].dst = Was(vs, st, Len(st))
       ELSE Outcome(Was(vs, st, Len(st)), st[Len(st)].dst, RestFrom(ed, Len(st)), ed)

\* ed is a call of Set or Delete a transform may make.
EditOK(ed) ==
    /\ ed = [op |-> ed.op, path |-> ed.path, value |-> ed.value, phase |-> ed.phase]
    /\ ed.path \in EditPaths
    /\ ed.op \in {"set", "delete"} /\ ed.phase \in {"down", "done", "failed"}
    /\ ed.op = "set" => ed.value # Missing

\* A path is a sequence of keys no longer than the levels looked at.
LEMMA PathFacts ==
    ASSUME NEW p \in Paths
    PROVE  p \in Seq(PathKeys) /\ Len(p) \in 1..MaxDepth
  <1> DEFINE K == {p[i] : i \in DOMAIN p}
  <1>1. p \in Seq(K) /\ Len(p) \in 1..MaxDepth
    BY PathsAssumption
  <1>2. K \subseteq PathKeys
    BY DEF PathKeys
  <1> HIDE DEF K
  <1> QED BY <1>1, <1>2

\* So is that of a running Set or Delete.
LEMMA EditPathFacts ==
    ASSUME NEW ed, EditOK(ed)
    PROVE  ed.path \in Seq(PathKeys) /\ Len(ed.path) \in 1..MaxDepth /\ ed.path \in Paths
  <1>1. PICK p \in Paths : p = ed.path
    BY EditPathsAssumption DEF EditOK
  <1> QED BY <1>1, PathFacts

\* The rest of a path is its next segment and the rest from there.
LEMMA SplitRest ==
    ASSUME NEW K, NEW p \in Seq(K), NEW n \in 1..Len(p)
    PROVE  /\ p[n] \in K
           /\ n < Len(p) => /\ SubSeq(p, n, Len(p)) = <<p[n]>> \o SubSeq(p, n + 1, Len(p))
                            /\ SubSeq(p, n + 1, Len(p)) \in Seq(K)
                            /\ SubSeq(p, n + 1, Len(p)) # << >>
           /\ SubSeq(p, 1, Len(p)) = p
  <1>1. p[n] \in K /\ SubSeq(p, 1, Len(p)) = p
    OBVIOUS
  <1>2. ASSUME n < Len(p)
        PROVE  /\ SubSeq(p, n, Len(p)) = <<p[n]>> \o SubSeq(p, n + 1, Len(p))
               /\ SubSeq(p, n + 1, Len(p)) \in Seq(K)
               /\ SubSeq(p, n + 1, Len(p)) # << >>
    <2>1. SubSeq(p, n, Len(p)) = <<p[n]>> \o SubSeq(p, n + 1, Len(p))
      BY <1>2
    <2>2. SubSeq(p, n + 1, Len(p)) \in Seq(K)
      BY <1>2
    <2>3. Len(SubSeq(p, n + 1, Len(p))) = Len(p) - n
      BY <1>2
    <2>4. SubSeq(p, n + 1, Len(p)) # << >>
      <3>1. PICK r : r = SubSeq(p, n + 1, Len(p))
        OBVIOUS
      <3>2. Len(r) # 0
        <4>1. Len(p) \in Nat /\ n \in Nat
          OBVIOUS
        <4> QED BY <1>2, <2>3, <3>1, <4>1
      <3> QED BY <3>1, <3>2
    <2> QED BY <2>1, <2>2, <2>4
  <1> QED BY <1>1, <1>2

\* The last segment is all that is left.
LEMMA LastRest ==
    ASSUME NEW K, NEW p \in Seq(K), NEW n \in 1..Len(p), n = Len(p), NEW e, e = << >>
    PROVE  SubSeq(p, n, Len(p)) = <<p[n]>> \o e
  <1>1. SubSeq(p, n, Len(p)) = <<p[n]>>
    <2>1. PICK r : r = SubSeq(p, n, n)
      OBVIOUS
    <2>2. n \in Nat /\ n \in 1..(Len(p) + 1) /\ n \in (n - 1)..Len(p)
      OBVIOUS
    <2>3. r \in Seq(K) /\ Len(r) = 1
      BY <2>1, <2>2
    <2>4. r[1] = p[n]
      BY <2>1, <2>2
    <2>5. r = <<r[1]>>
      BY <2>3
    <2> QED BY <2>1, <2>4, <2>5
  <1>2. \A x : <<x>> \o e = <<x>>
    OBVIOUS
  <1> QED BY <1>1, <1>2

\* The frames below n stay, and frame n is on top with a map of the right outcome.
LEMMA WalkRebuilt ==
    ASSUME NEW vs, NEW st, NEW ed, WalkOK(vs, st, ed), NEW n \in 1..Len(st),
           NEW t, \E S : t \in Seq(S), Len(t) = n, \A i \in 1..(n - 1) : t[i] = st[i],
           Bare(t[n]), t[n].key = st[n].key, t[n].at = st[n].at,
           NEW now, now.path = ed.path, now.op = ed.op, now.phase # "down",
           Outcome(Was(vs, st, n), t[n].dst, RestFrom(ed, n), now)
    PROVE  WalkOK(vs, t, now)
  <1>1. n \in Nat \ {0} /\ n <= Len(st) /\ Len(st) \in Nat /\ Len(st) <= Len(ed.path) /\ Len(ed.path) \in Nat
    <2>1. Len(st) \in Nat
      BY DEF WalkOK
    <2> QED BY <2>1 DEF WalkOK
  <1>2. \A i \in 1..n : i = n \/ i \in 1..(n - 1)
    BY <1>1
  <1>3. \A i \in 1..n : t[i].key = st[i].key /\ t[i].at = st[i].at
    BY <1>2
  <1>4. \A i \in 1..n : Was(vs, t, i) = Was(vs, st, i)
    <2>1. n \in Nat /\ \A i \in 1..(n - 1) : t[i] = st[i]
      BY <1>1
    <2> QED BY <1>3, <2>1, WasSame
  <1>5. \A i \in 1..n : Bare(t[i])
    <2>1. \A i \in 1..(n - 1) : i \in 1..Len(st)
      BY <1>1
    <2> QED BY <1>2, <2>1 DEF WalkOK
  <1>6. ASSUME NEW i \in 1..(n - 1) PROVE LinkedAt(vs, t, now, i)
    <2>1. i \in 1..n /\ i + 1 \in 1..n /\ i \in 1..(Len(st) - 1)
      BY <1>1
    <2>2. LinkedAt(vs, st, ed, i)
      BY <2>1 DEF WalkOK
    <2>3. t[i] = st[i] /\ t[i + 1].key = st[i + 1].key /\ t[i + 1].at = st[i + 1].at
      BY <1>3, <2>1
    <2>4. Was(vs, t, i) = Was(vs, st, i) /\ Was(vs, t, i + 1) = Was(vs, st, i + 1)
      BY <1>4, <2>1
    <2> QED BY <2>2, <2>3, <2>4 DEF LinkedAt, OnwardOf
  <1>7. n \in 1..n /\ Was(vs, t, n) = Was(vs, st, n) /\ RestFrom(now, n) = RestFrom(ed, n)
    BY <1>1, <1>4 DEF RestFrom
  <1>8. Len(t) \in 1..Len(now.path)
    BY <1>1
  <1> QED BY <1>5, <1>6, <1>7, <1>8 DEF WalkOK

\* One map further along the path.
LEMMA WalkPushed ==
    ASSUME NEW vs, NEW st, NEW ed, WalkOK(vs, st, ed), ed.phase = "down", Len(st) < Len(ed.path),
           NEW c, Bare(c), c.key = ed.path[Len(st)],
           OnwardOf(st[Len(st)].dst, c.key, c.at, c.dst, ed)
    PROVE  WalkOK(vs, Append(st, c), ed)
  <1>1. PICK S : st \in Seq(S)
    BY DEF WalkOK
  <1>2. PICK n, t : n = Len(st) /\ t = Append(st, c)
    OBVIOUS
  <1>3. n \in Nat \ {0} /\ n + 1 \in 1..Len(ed.path) /\ Len(ed.path) \in Nat
    BY <1>1, <1>2 DEF WalkOK
  <1>4. t \in Seq(S \cup {c}) /\ Len(t) = n + 1 /\ t[n + 1] = c /\ \A i \in 1..n : t[i] = st[i]
    BY <1>1, <1>2
  <1>5. \A i \in 1..(n + 1) : i = n + 1 \/ i \in 1..n
    BY <1>3
  <1>6. \A i \in 1..n : Was(vs, t, i) = Was(vs, st, i)
    <2>1. \A i \in 1..n : t[i].key = st[i].key /\ t[i].at = st[i].at
      BY <1>4
    <2>2. \A i \in 1..(n - 1) : t[i] = st[i]
      BY <1>3, <1>4
    <2> QED BY <1>3, <2>1, <2>2, WasSame
  <1>7. Was(vs, t, n + 1) = c.dst
    <2>1. n + 1 # 1 /\ (n + 1) - 1 = n /\ n \in 1..n
      BY <1>3
    <2>2. Was(vs, t, n + 1) = IF FindKeyFold(st[n].dst, c.key) = {} THEN EmptyMap ELSE st[n].dst[c.at].map
      BY <1>4, <2>1 DEF Was
    <2> QED BY <1>2, <2>2 DEF OnwardOf
  <1>8. \A i \in 1..(n + 1) : Bare(t[i])
    BY <1>2, <1>4, <1>5 DEF WalkOK
  <1>9. ASSUME NEW i \in 1..n PROVE LinkedAt(vs, t, ed, i)
    <2>1. CASE i = n
      <3>1. st[n].dst = Was(vs, st, n)
        BY <1>2 DEF WalkOK
      <3>2. n \in 1..n
        BY <1>3
      <3>3. t[n] = st[n] /\ t[n + 1] = c /\ Was(vs, t, n) = Was(vs, st, n)
        BY <1>4, <1>6, <3>2
      <3>4. LinkedAt(vs, t, ed, n)
        BY <1>2, <1>7, <3>1, <3>3 DEF LinkedAt
      <3> QED BY <2>1, <3>4
    <2>2. CASE i # n
      <3>1. i \in 1..(n - 1) /\ i + 1 \in 1..n
        BY <1>3, <2>2
      <3>2. LinkedAt(vs, st, ed, i)
        BY <1>2, <3>1 DEF WalkOK
      <3>3. t[i] = st[i] /\ t[i + 1] = st[i + 1]
        BY <1>4, <3>1
      <3>4. Was(vs, t, i) = Was(vs, st, i) /\ Was(vs, t, i + 1) = Was(vs, st, i + 1)
        BY <1>6, <3>1
      <3> QED BY <3>2, <3>3, <3>4 DEF LinkedAt
    <2> QED BY <2>1, <2>2
  <1>10. WalkOK(vs, t, ed)
    <2>1. (n + 1) - 1 = n
      BY <1>3
    <2> QED BY <1>3, <1>4, <1>7, <1>8, <1>9, <2>1 DEF WalkOK
  <1> QED BY <1>2, <1>10

\* A finished map goes back into that of the frame below.
LEMMA WalkPopped ==
    ASSUME NEW vs, NEW st, NEW ed, WalkOK(vs, st, ed), EditOK(ed), ed.phase # "down", Len(st) > 1,
           NEW n, n = Len(st) - 1, NEW c, c = st[n + 1],
           NEW g, g = Assign(st[n], c.at, Node(c.dst), c.key)
    PROVE  WalkOK(vs, [SubSeq(st, 1, n) EXCEPT ![n] = g], ed)
  <1>1. PICK S : st \in Seq(S)
    BY DEF WalkOK
  <1>2. n \in Nat \ {0} /\ Len(st) = n + 1 /\ n \in 1..Len(st) /\ n \in 1..(Len(st) - 1) /\ n \in 1..n
    <2>1. Len(st) \in Nat
      BY <1>1
    <2> QED BY <2>1
  <1>3. PICK f, w, wc, mc, k, a : /\ f = st[n] /\ w = Was(vs, st, n) /\ wc = Was(vs, st, n + 1)
                                  /\ mc = c.dst /\ k = ed.path[n] /\ a = c.at
    OBVIOUS
  <1>4. f.dst = w /\ c.key = k /\ OnwardOf(w, k, a, wc, ed)
    BY <1>2, <1>3 DEF WalkOK, LinkedAt
  <1>5. Outcome(wc, mc, RestFrom(ed, n + 1), ed)
    BY <1>2, <1>3 DEF WalkOK
  <1>6. PICK t : t = RestFrom(ed, n + 1)
    OBVIOUS
  <1>7. k \in PathKeys /\ t \in Seq(PathKeys) /\ t # << >> /\ RestFrom(ed, n) = <<k>> \o t
    <2>1. PICK p : p = ed.path
      OBVIOUS
    <2>2. p \in Seq(PathKeys) /\ n \in 1..Len(p) /\ n < Len(p)
      <3>1. p \in Seq(PathKeys) /\ n + 1 \in 1..Len(p)
        BY <1>2, <2>1, EditPathFacts DEF WalkOK
      <3> QED BY <1>2, <3>1
    <2> QED BY <1>3, <1>6, <2>1, <2>2, SplitRest DEF RestFrom
  <1>8. Outcome(w, Put(w, a, Node(mc)), RestFrom(ed, n), ed)
    BY <1>4, <1>5, <1>6, <1>7, ReturnOutcome
  <1>9. Bare(f)
    BY <1>2, <1>3 DEF WalkOK
  <1>10. g.dst = Put(w, a, Node(mc)) /\ g.key = f.key /\ g.at = f.at /\ Bare(g)
    <2>1. PICK v : v = Node(mc)
      OBVIOUS
    <2>2. g = Assign(f, a, v, k) /\ IsFrame(f)
      BY <1>3, <1>4, <1>9, <2>1 DEF Bare
    <2>3. /\ IsFrame(g) /\ g.dst = Put(f.dst, a, v) /\ g.todo = f.todo \ {k} /\ g.src = f.src
          /\ g.key = f.key /\ g.at = f.at
      BY <2>2, AssignFields
    <2> QED BY <1>4, <1>9, <2>1, <2>3 DEF Bare
  <1>11. PICK u : u = [SubSeq(st, 1, n) EXCEPT ![n] = g]
    OBVIOUS
  <1>12. u \in Seq(S \cup {g}) /\ Len(u) = n /\ u[n] = g /\ \A i \in 1..(n - 1) : u[i] = st[i]
    <2>1. PICK r : r = SubSeq(st, 1, n)
      OBVIOUS
    <2>2. r \in Seq(S) /\ Len(r) = n /\ \A i \in 1..n : r[i] = st[i]
      BY <1>1, <1>2, <2>1
    <2>3. \A i \in 1..(n - 1) : i \in 1..n /\ i # n
      BY <1>2
    <2>4. u = [r EXCEPT ![n] = g]
      BY <1>11, <2>1
    <2>5. Len(u) = n /\ u[n] = g /\ u \in Seq(S \cup {g})
      <3>1. r \in Seq(S \cup {g})
        BY <2>2
      <3>2. u \in Seq(S \cup {g}) /\ Len(u) = Len(r)
        BY <1>2, <2>2, <2>4, <3>1
      <3>3. u[n] = g
        BY <1>2, <2>2, <2>4
      <3> QED BY <2>2, <3>2, <3>3
    <2>6. \A i \in 1..(n - 1) : u[i] = r[i]
      BY <1>2, <2>2, <2>3, <2>4
    <2> QED BY <2>2, <2>3, <2>5, <2>6
  <1>13. WalkOK(vs, u, ed)
    <2>1. Bare(u[n]) /\ u[n].key = st[n].key /\ u[n].at = st[n].at
      BY <1>3, <1>10, <1>12
    <2>2. Outcome(Was(vs, st, n), u[n].dst, RestFrom(ed, n), ed)
      BY <1>3, <1>8, <1>10, <1>12
    <2> QED BY <1>2, <1>12, <2>1, <2>2, WalkRebuilt
  <1> QED BY <1>11, <1>13

-----------------------------------------------------------------------------
(* The invariant holds                                                     *)

\* The inductive invariant: what the maps on the way of a merge, of a Set and of a Delete
\* have become so far.
IInv ==
    /\ merged \in 0..NumSources
    /\ steps \in 0..MaxSteps
    /\ Merging => CallsOK(values, stack) /\ (Running => merged < NumSources)
    /\ ~Merging => EditOK(edit) /\ WalkOK(values, stack, edit) /\ steps < MaxSteps

\* Without a call there is nothing to say.
LEMMA EmptyStackIsOK == \A vs : CallsOK(vs, << >>)
  <1>1. << >> \in Seq({}) /\ Len(<< >>) = 0
    OBVIOUS
  <1> QED BY <1>1 DEF CallsOK

\* Unless Set or Delete runs, the stack is a merge's.
LEMMA NoEditMerges == NoEdit.phase = "none"
  BY DEF NoEdit, Edit

\* The invariant holds when a Load begins.
LEMMA InitIsOK == Init => IInv
  BY EmptyStackIsOK, NoEditMerges, NumSourcesAssumption, MaxStepsAssumption DEF Init, IInv, Running, Merging

\* deepMerge is called for a source.
LEMMA BeginMergeIsOK == IInv /\ Merging /\ BeginMerge => IInv'
  <1> SUFFICES ASSUME IInv, Merging, BeginMerge PROVE IInv'
    OBVIOUS
  <1>1. PICK s : stack' = <<Call(values, s, Nameless, Nameless)>>
    BY DEF BeginMerge
  <1>2. UNCHANGED <<values, merged, steps, edit>> /\ merged < NumSources
    BY DEF BeginMerge
  <1>3. PICK c : c = Call(values, s, Nameless, Nameless)
    OBVIOUS
  <1>4. IsFrame(c) /\ FrameOK(values, c)
    BY <1>3, CallFields, CallBegins
  <1>5. CallsOK(values, <<c>>)
    <2>1. <<c>> \in Seq({c}) /\ Len(<<c>>) = 1 /\ <<c>>[1] = c
      OBVIOUS
    <2>2. \A t : Was(values, t, 1) = values
      BY DEF Was
    <2>3. \A i \in 1..1 : i = 1
      OBVIOUS
    <2> DEFINE t == <<c>>
    <2> HIDE DEF t
    <2>4. t \in Seq({c}) /\ Len(t) = 1 /\ t[1] = c
      BY <2>1 DEF t
    <2>5. CallsOK(values, t)
      BY <1>4, <2>2, <2>3, <2>4 DEF CallsOK
    <2> QED BY <2>5 DEF t
  <1>6. CallsOK(values', stack')
    BY <1>1, <1>2, <1>3, <1>5
  <1> QED BY <1>2, <1>6 DEF IInv, Merging

\* What the call on top satisfies.
LEMMA TopIsOK ==
    ASSUME IInv, Running, Merging
    PROVE  /\ Len(stack) \in Nat \ {0}
           /\ IsFrame(Top) /\ FrameOK(Was(values, stack, Len(stack)), Top)
           /\ Top.todo \subseteq DOMAIN Top.src
  <1>1. Len(stack) \in Nat \ {0}
    BY EmptySeq DEF IInv, CallsOK, Running
  <1>2. Len(stack) \in 1..Len(stack)
    BY <1>1
  <1> QED BY <1>1, <1>2 DEF IInv, CallsOK, Top, FrameOK

\* The calls stay right while a merge runs.
LEMMA StillMerging ==
    ASSUME IInv, Merging, Running, UNCHANGED <<values, merged, steps, edit>>, CallsOK(values, stack')
    PROVE  IInv'
  <1>1. CallsOK(values', stack')
    OBVIOUS
  <1> QED BY <1>1 DEF IInv, Merging

\* A value that is right for its key is set in the map of the call on top.
LEMMA AssignsIsOK ==
    ASSUME IInv, Running, Merging, NEW k \in Top.todo, NEW a, Assigns(a, k), a.fold = k.fold,
           Named(k) => a \in DOMAIN Top.dst \/ \A d \in DOMAIN Top.dst : d.fold # k.fold,
           \A n \in Nat : GoodEntry(Was(values, stack, Len(stack)), Top.src, k, a, Top.src[k], n)
    PROVE  IInv'
  <1>1. PICK f, w, v, g : /\ f = Top /\ w = Was(values, stack, Len(stack))
                          /\ v = Top.src[k] /\ g = Assign(f, a, v, k)
    OBVIOUS
  <1>2. IsFrame(f) /\ FrameOK(w, f)
    BY <1>1, TopIsOK
  <1>3. FrameOK(w, g)
    BY <1>1, <1>2, AssignKeepsFrame
  <1>4. IsFrame(g) /\ g.src = f.src /\ g.key = f.key /\ g.at = f.at
    BY <1>1, <1>2, AssignFields
  <1>5. stack' = [stack EXCEPT ![Len(stack)] = g]
    BY <1>1 DEF Assigns, Top
  <1>6. CallsOK(values, [stack EXCEPT ![Len(stack)] = g])
    BY <1>1, <1>3, <1>4, TopReplaced DEF IInv, Running, Top
  <1>7. UNCHANGED <<values, merged, steps, edit>>
    BY DEF Assigns
  <1> QED BY <1>5, <1>6, <1>7, StillMerging

\* A call for a key of the call on top begins.
LEMMA CallsIsOK ==
    ASSUME IInv, Running, Merging, NEW c, IsFrame(c), Calls(c), LinkOK(Top, c), c.todo = DOMAIN c.src,
           c.dst = IF FindKeyFold(Top.dst, c.key) = {} THEN EmptyMap ELSE Top.dst[c.at].map
    PROVE  IInv'
  <1>1. FrameOK(IF FindKeyFold(Top.dst, c.key) = {} THEN EmptyMap ELSE Top.dst[c.at].map, c)
    BY CallBegins
  <1>2. CallsOK(values, Append(stack, c))
    BY <1>1, Pushed DEF IInv, Running, Top
  <1>3. UNCHANGED <<values, merged, steps, edit>> /\ stack' = Append(stack, c)
    BY DEF Calls
  <1> QED BY <1>2, <1>3, StillMerging

\* It takes one key of its src, whichever comes next.
LEMMA VisitIsOK == IInv /\ Visit => IInv'
  <1> SUFFICES ASSUME IInv, Running, Merging, NEW k \in Top.todo,
                      InsertMap(k) \/ InsertValue(k) \/ MergeMaps(k) \/ ReplaceValue(k)
               PROVE  IInv'
    BY DEF Visit
  <1>1. FrameOK(Was(values, stack, Len(stack)), Top)
    BY TopIsOK
  <1>2. CASE InsertMap(k)
    <2>1. PICK c : c = Call(EmptyMap, Top.src[k].map, k, k)
      OBVIOUS
    <2>2. IsFrame(c) /\ c.dst = EmptyMap /\ c.src = Top.src[k].map /\ c.todo = DOMAIN c.src
                     /\ c.key = k /\ c.at = k
      BY <2>1, CallFields
    <2>3. FindKeyFold(Top.dst, k) = {} /\ IsNode(Top.src[k]) /\ Calls(c)
      BY <1>2, <2>1 DEF InsertMap, IsNew
    <2>4. LinkOK(Top, c)
      BY <2>2, <2>3 DEF LinkOK
    <2> QED BY <2>2, <2>3, <2>4, CallsIsOK
  <1>3. CASE InsertValue(k)
    <2>1. FindKeyFold(Top.dst, k) = {} /\ ~IsNode(Top.src[k]) /\ Assigns(k, k)
      BY <1>3 DEF InsertValue, IsNew
    <2>2. Named(k) => \A d \in DOMAIN Top.dst : d.fold # k.fold
      BY <2>1, FindKeyFoldNone
    <2>3. \A n \in Nat : GoodEntry(Was(values, stack, Len(stack)), Top.src, k, k, Top.src[k], n)
      BY <1>1, <2>1, InsertValueIsGood
    <2> QED BY <2>1, <2>2, <2>3, AssignsIsOK
  <1>4. CASE MergeMaps(k)
    <2>1. PICK d \in FindKeyFold(Top.dst, k) : BothMaps(d, k) /\ Calls(Call(Top.dst[d].map, Top.src[k].map, k, d))
      BY <1>4 DEF MergeMaps
    <2>2. PICK c : c = Call(Top.dst[d].map, Top.src[k].map, k, d)
      OBVIOUS
    <2>3. IsFrame(c) /\ c.dst = Top.dst[d].map /\ c.src = Top.src[k].map /\ c.todo = DOMAIN c.src
                     /\ c.key = k /\ c.at = d
      BY <2>2, CallFields
    <2>4. LinkOK(Top, c)
      BY <2>1, <2>3 DEF LinkOK, BothMaps
    <2> QED BY <2>1, <2>2, <2>3, <2>4, CallsIsOK
  <1>5. CASE ReplaceValue(k)
    <2>1. PICK d \in FindKeyFold(Top.dst, k) : ~BothMaps(d, k) /\ Assigns(d, k)
      BY <1>5 DEF ReplaceValue
    <2>2. d \in DOMAIN Top.dst /\ d.fold = k.fold
      BY FindKeyFoldSound
    <2>3. \A n \in Nat : GoodEntry(Was(values, stack, Len(stack)), Top.src, k, d, Top.src[k], n)
      BY <1>1, <2>1, ReplaceValueIsGood DEF BothMaps
    <2> QED BY <2>1, <2>2, <2>3, AssignsIsOK
  <1> QED BY <1>2, <1>3, <1>4, <1>5

\* A nested call of it returns.
LEMMA ReturnCallIsOK == IInv /\ Merging /\ ReturnMap => IInv'
  <1> SUFFICES ASSUME IInv, Merging, ReturnMap PROVE IInv'
    OBVIOUS
  <1>1. PICK n : n = Len(stack) - 1
    OBVIOUS
  <1>2. Len(stack) > 1 /\ n \in Nat \ {0} /\ Len(stack) = n + 1 /\ Running
    <2>1. Len(stack) \in Nat
      BY DEF IInv, CallsOK
    <2>2. stack # << >>
      BY DEF ReturnMap
    <2> QED BY <1>1, <2>1, <2>2 DEF ReturnMap, Running
  <1>3. PICK f, c, w, wc : /\ f = stack[n] /\ c = stack[n + 1]
                           /\ w = Was(values, stack, n) /\ wc = Was(values, stack, n + 1)
    OBVIOUS
  <1>4. LinkOK(f, c) /\ FrameOK(w, f) /\ FrameOK(wc, c) /\ IsFrame(f)
    <2>1. n \in 1..(Len(stack) - 1) /\ n \in 1..Len(stack) /\ n + 1 \in 1..Len(stack)
      BY <1>2
    <2> QED BY <1>3, <2>1 DEF IInv, CallsOK
  <1>5. wc = IF FindKeyFold(f.dst, c.key) = {} THEN EmptyMap ELSE f.dst[c.at].map
    <2>1. n + 1 # 1 /\ (n + 1) - 1 = n
      BY <1>2
    <2> QED BY <1>3, <2>1 DEF Was
  <1>6. c = Top /\ c.todo = {}
    BY <1>2, <1>3 DEF Top, ReturnMap
  <1>7. \A i \in Nat : GoodEntry(w, f.src, c.key, c.at, Node(c.dst), i)
    BY <1>4, <1>5, <1>6, ReturnIsGood
  <1>8. PICK k, a, v, g : k = c.key /\ a = c.at /\ v = Node(c.dst) /\ g = Assign(f, a, v, k)
    OBVIOUS
  <1>9. /\ k \in f.todo /\ a.fold = k.fold
        /\ Named(k) => a \in DOMAIN f.dst \/ \A d \in DOMAIN f.dst : d.fold # k.fold
    <2>1. CASE FindKeyFold(f.dst, k) = {} /\ a = k
      BY <1>4, <1>8, <2>1, FindKeyFoldNone DEF LinkOK
    <2>2. CASE a \in FindKeyFold(f.dst, k)
      BY <1>4, <1>8, <2>2, FindKeyFoldSound DEF LinkOK
    <2> QED BY <1>4, <1>8, <2>1, <2>2 DEF LinkOK
  <1>10. FrameOK(w, g)
    BY <1>4, <1>7, <1>8, <1>9, AssignKeepsFrame
  <1>11. IsFrame(g) /\ g.src = f.src /\ g.key = f.key /\ g.at = f.at
    BY <1>4, <1>8, AssignFields
  <1>12. /\ CallsOK(values, Pop) /\ Len(Pop) = n /\ Pop[n] = f /\ Was(values, Pop, n) = w
    BY <1>1, <1>2, <1>3, Popped DEF IInv, Pop
  <1>13. PICK st : st = Pop
    OBVIOUS
  <1>14. st # << >>
    BY <1>2, <1>12, <1>13
  <1>15. CallsOK(values, [st EXCEPT ![n] = g])
    BY <1>10, <1>11, <1>12, <1>13, <1>14, TopReplaced
  <1>16. stack' = [st EXCEPT ![n] = g] /\ UNCHANGED <<values, merged, steps, edit>>
    <2>1. stack' = [Pop EXCEPT ![Len(stack) - 1] = Assign(@, Top.at, Node(Top.dst), Top.key)]
      BY DEF ReturnMap
    <2>2. stack' = [Pop EXCEPT ![n] = Assign(Pop[n], a, v, k)]
      BY <1>1, <1>6, <1>8, <2>1
    <2> QED BY <1>8, <1>12, <1>13, <2>2 DEF ReturnMap
  <1> QED BY <1>2, <1>15, <1>16, StillMerging

\* The source is merged.
LEMMA EndMergeIsOK == IInv /\ EndMerge => IInv'
  <1> SUFFICES ASSUME IInv, EndMerge PROVE IInv'
    OBVIOUS
  <1>1. merged < NumSources /\ merged \in 0..NumSources
    BY DEF IInv, EndMerge, Running
  <1>2. merged' \in 0..NumSources /\ stack' = << >> /\ UNCHANGED <<steps, edit>> /\ Merging
    BY <1>1, NumSourcesAssumption DEF EndMerge
  <1>3. CallsOK(values', stack')
    BY <1>2, EmptyStackIsOK
  <1> QED BY <1>2, <1>3 DEF IInv, Running, Merging

-----------------------------------------------------------------------------
(* Set and Delete keep it                                                  *)

\* A transform calls Set or Delete.
LEMMA BeginEditIsOK == IInv /\ BeginEdit => IInv'
  <1> SUFFICES ASSUME IInv, BeginEdit PROVE IInv'
    OBVIOUS
  <1>1. /\ edit'.path \in EditPaths /\ edit'.op \in {"set", "delete"} /\ edit'.phase = "down"
        /\ edit'.op = "set" => edit'.value # Missing
    <2>1. PICK p \in EditPaths : (\E v \in NewValues : edit' = Edit("set", p, v)) \/ edit' = Edit("delete", p, Missing)
      BY DEF BeginEdit
    <2> QED BY <2>1, NewValuesAssumption DEF Edit
  <1>2. EditOK(edit') /\ ~Merging'
    <2>1. PICK op, p, v : edit' = Edit(op, p, v)
      BY DEF BeginEdit
    <2>2. edit' = [op |-> edit'.op, path |-> edit'.path, value |-> edit'.value, phase |-> edit'.phase]
      BY <2>1 DEF Edit
    <2> QED BY <1>1, <2>2 DEF EditOK, Merging
  <1>3. UNCHANGED <<values, merged, steps>> /\ steps < MaxSteps
    BY DEF BeginEdit
  <1>4. PICK c : c = Call(values, EmptyMap, Nameless, Nameless)
    OBVIOUS
  <1>5. Bare(c) /\ c.dst = values
    BY <1>4, CallFields, EmptyMapFacts DEF Bare
  <1>6. PICK t : t = <<c>>
    OBVIOUS
  <1>7. stack' = t /\ t \in Seq({c}) /\ Len(t) = 1 /\ t[1] = c
    BY <1>4, <1>6 DEF BeginEdit
  <1>8. Len(edit'.path) \in Nat \ {0}
    BY <1>2, EditPathFacts
  <1>9. WalkOK(values, t, edit')
    <2>1. Was(values, t, 1) = values /\ \A i \in 1..1 : i = 1
      BY DEF Was
    <2> QED BY <1>1, <1>5, <1>7, <1>8, <2>1 DEF WalkOK
  <1>10. WalkOK(values', stack', edit')
    BY <1>3, <1>7, <1>9
  <1> QED BY <1>2, <1>3, <1>10 DEF IInv, Merging

\* On its way down, a walk has changed nothing, and has a segment to look up.
LEMMA EditRuns ==
    ASSUME IInv, edit.phase = "down"
    PROVE  /\ EditOK(edit) /\ WalkOK(values, stack, edit) /\ ~Merging /\ steps < MaxSteps
           /\ Len(stack) \in Nat \ {0} /\ Len(stack) \in 1..Len(edit.path)
           /\ Top.dst = Was(values, stack, Len(stack)) /\ Bare(Top)
           /\ Segment \in PathKeys
  <1>1. EditOK(edit) /\ WalkOK(values, stack, edit) /\ ~Merging /\ steps < MaxSteps
    BY DEF IInv, Merging
  <1>2. Len(stack) \in 1..Len(edit.path) /\ Len(stack) \in Nat
    BY <1>1 DEF WalkOK
  <1>3. Len(stack) \in 1..Len(stack) /\ Len(stack) \in Nat \ {0}
    BY <1>2
  <1>4. Top.dst = Was(values, stack, Len(stack)) /\ Bare(Top)
    BY <1>1, <1>3 DEF WalkOK, Top
  <1>5. Segment \in PathKeys
    <2>1. edit.path \in Seq(PathKeys)
      BY <1>1, EditPathFacts
    <2> QED BY <1>2, <2>1 DEF Segment
  <1> QED BY <1>1, <1>2, <1>3, <1>4, <1>5

\* A walk goes one map further.
LEMMA EntersIsOK ==
    ASSUME IInv, OnTheWay, NEW c, Bare(c), Calls(c), c.key = Segment,
           OnwardOf(Top.dst, Segment, c.at, c.dst, edit)
    PROVE  IInv'
  <1>1. WalkOK(values, stack, edit) /\ edit.phase = "down" /\ Len(stack) < Len(edit.path)
    BY EditRuns DEF OnTheWay
  <1>2. WalkOK(values, Append(stack, c), edit)
    BY <1>1, WalkPushed DEF Segment, Top
  <1>3. UNCHANGED <<values, merged, steps, edit>> /\ stack' = Append(stack, c)
    BY DEF Calls
  <1>4. WalkOK(values', stack', edit')
    BY <1>2, <1>3
  <1>5. ~Merging
    BY <1>1 DEF Merging
  <1> QED BY <1>3, <1>4, <1>5 DEF IInv, Merging

\* It enters the map under its segment.
LEMMA EnterMapIsOK == IInv /\ EnterMap => IInv'
  <1> SUFFICES ASSUME IInv, OnTheWay, NEW d \in SegmentKeys, IsNode(Top.dst[d]),
                      Calls(Call(Top.dst[d].map, EmptyMap, Segment, d))
               PROVE  IInv'
    BY DEF EnterMap
  <1>1. PICK c : c = Call(Top.dst[d].map, EmptyMap, Segment, d)
    OBVIOUS
  <1>2. Bare(c) /\ c.dst = Top.dst[d].map /\ c.key = Segment /\ c.at = d
    BY <1>1, CallFields, EmptyMapFacts DEF Bare
  <1>3. OnwardOf(Top.dst, Segment, c.at, c.dst, edit)
    BY <1>2 DEF OnwardOf, SegmentKeys
  <1> QED BY <1>1, <1>2, <1>3, EntersIsOK

\* Set makes one.
LEMMA CreateMapIsOK == IInv /\ CreateMap => IInv'
  <1> SUFFICES ASSUME IInv, CreateMap PROVE IInv'
    OBVIOUS
  <1>1. PICK c : c = Call(EmptyMap, EmptyMap, Segment, Segment)
    OBVIOUS
  <1>2. Bare(c) /\ c.dst = EmptyMap /\ c.key = Segment /\ c.at = Segment
    BY <1>1, CallFields, EmptyMapFacts DEF Bare
  <1>3. OnwardOf(Top.dst, Segment, c.at, c.dst, edit)
    BY <1>2 DEF OnwardOf, SegmentKeys, CreateMap
  <1> QED BY <1>1, <1>2, <1>3, EntersIsOK DEF CreateMap

\* The call with its new phase.
LEMMA PhaseFields ==
    ASSUME NEW ed, EditOK(ed), NEW phase \in {"done", "failed"}, NEW now, now = [ed EXCEPT !.phase = phase]
    PROVE  /\ now.path = ed.path /\ now.op = ed.op /\ now.value = ed.value /\ now.phase = phase
           /\ EditOK(now)
  <1>1. now = [op |-> ed.op, path |-> ed.path, value |-> ed.value, phase |-> phase]
    BY DEF EditOK
  <1>2. now.path = ed.path /\ now.op = ed.op /\ now.value = ed.value /\ now.phase = phase
    BY <1>1
  <1> QED BY <1>1, <1>2 DEF EditOK

\* A walk ends with the map m.
LEMMA WalkEnds ==
    ASSUME IInv, edit.phase = "down", NEW phase \in {"done", "failed"}, GoesOn(phase),
           NEW m, stack' = [stack EXCEPT ![Len(stack)] = [Top EXCEPT !.dst = m]],
           NEW now, now = [edit EXCEPT !.phase = phase],
           Outcome(Top.dst, m, RestFrom(edit, Len(stack)), now)
    PROVE  IInv'
  <1>1. /\ EditOK(edit) /\ WalkOK(values, stack, edit) /\ ~Merging /\ steps < MaxSteps
        /\ Len(stack) \in Nat \ {0} /\ Top.dst = Was(values, stack, Len(stack)) /\ Bare(Top)
    BY EditRuns
  <1>2. PICK n, g, f : n = Len(stack) /\ f = Top /\ g = [f EXCEPT !.dst = m]
    OBVIOUS
  <1>3. /\ now.path = edit.path /\ now.op = edit.op /\ now.value = edit.value /\ now.phase = phase
        /\ EditOK(now)
    BY <1>1, PhaseFields
  <1>4. Bare(g) /\ g.dst = m /\ g.key = f.key /\ g.at = f.at
    <2>1. f = [dst |-> f.dst, src |-> f.src, todo |-> f.todo, key |-> f.key, at |-> f.at]
      BY <1>1, <1>2 DEF Bare, IsFrame
    <2>2. g = [dst |-> m, src |-> f.src, todo |-> f.todo, key |-> f.key, at |-> f.at]
      BY <1>2, <2>1
    <2>3. g.dst = m /\ g.src = f.src /\ g.todo = f.todo /\ g.key = f.key /\ g.at = f.at
      BY <2>2
    <2> QED BY <1>1, <1>2, <2>2, <2>3 DEF Bare, IsFrame
  <1>5. PICK t : t = [stack EXCEPT ![n] = g]
    OBVIOUS
  <1>6. PICK S : stack \in Seq(S)
    BY <1>1 DEF WalkOK
  <1>7. t \in Seq(S \cup {g}) /\ Len(t) = n /\ t[n] = g /\ \A i \in 1..(n - 1) : t[i] = stack[i]
    <2>1. stack \in Seq(S \cup {g}) /\ n \in 1..Len(stack)
      BY <1>1, <1>2, <1>6
    <2>2. t \in Seq(S \cup {g}) /\ Len(t) = n
      BY <1>2, <1>5, <2>1
    <2>3. t[n] = g
      BY <1>5, <2>1
    <2>4. \A i \in 1..(n - 1) : i # n /\ i \in 1..Len(stack)
      BY <1>1, <1>2
    <2>5. \A i \in 1..(n - 1) : t[i] = stack[i]
      BY <1>5, <1>6, <2>4
    <2> QED BY <2>2, <2>3, <2>5
  <1>8. Bare(t[n]) /\ t[n].key = stack[n].key /\ t[n].at = stack[n].at
    BY <1>2, <1>4, <1>7 DEF Top
  <1>9. Outcome(Was(values, stack, n), t[n].dst, RestFrom(edit, n), now)
    BY <1>1, <1>2, <1>4, <1>7
  <1>10. n \in 1..Len(stack) /\ now.phase # "down"
    BY <1>3, <1>1, <1>2
  <1>11. WalkOK(values, t, now)
    BY <1>3, <1>1, <1>7, <1>8, <1>9, <1>10, WalkRebuilt
  <1>12. stack' = t /\ edit' = now /\ UNCHANGED <<values, merged, steps>>
    BY <1>2, <1>5 DEF GoesOn
  <1>13. WalkOK(values', stack', edit')
    BY <1>11, <1>12
  <1>14. EditOK(edit')
    BY <1>3, <1>12
  <1>15. ~Merging'
    BY <1>3, <1>12 DEF Merging
  <1> QED BY <1>1, <1>12, <1>13, <1>14, <1>15 DEF IInv

\* It fails, having changed nothing a reader sees.
LEMMA GiveUpIsOK == IInv /\ GiveUp => IInv'
  <1> SUFFICES ASSUME IInv, GiveUp PROVE IInv'
    OBVIOUS
  <1>1. edit.phase = "down"
    BY DEF GiveUp, OnTheWay, AtTheEnd
  <1>2. /\ EditOK(edit) /\ WalkOK(values, stack, edit) /\ ~Merging /\ steps < MaxSteps
        /\ Len(stack) \in Nat \ {0} /\ Len(stack) \in 1..Len(edit.path)
        /\ Top.dst = Was(values, stack, Len(stack)) /\ Bare(Top) /\ Segment \in PathKeys
    BY <1>1, EditRuns
  <1>3. PICK n, now, w, k, t : /\ n = Len(stack) /\ now = [edit EXCEPT !.phase = "failed"] /\ w = Top.dst
                               /\ k = Segment
                               /\ t = IF n = Len(edit.path) THEN << >> ELSE RestFrom(edit, n + 1)
    OBVIOUS
  <1>4. /\ now.path = edit.path /\ now.op = edit.op /\ now.value = edit.value /\ now.phase = "failed"
        /\ EditOK(now)
    BY <1>2, <1>3, PhaseFields
  <1>5. edit.path \in Seq(PathKeys)
    BY <1>2, EditPathFacts
  <1>6. RestFrom(edit, n) = <<k>> \o t /\ t \in Seq(PathKeys) /\ (n < Len(edit.path) => t # << >>)
    <2>1. PICK p : p = edit.path
      OBVIOUS
    <2>2. p \in Seq(PathKeys) /\ n \in 1..Len(p) /\ k = p[n]
      BY <1>2, <1>3, <1>5, <2>1 DEF Segment
    <2>3. CASE n = Len(p)
      <3>1. t = << >> /\ t \in Seq(PathKeys)
        BY <1>3, <2>1, <2>3
      <3>2. SubSeq(p, n, Len(p)) = <<p[n]>> \o t
        BY <2>2, <2>3, <3>1, LastRest
      <3>3. RestFrom(edit, n) = <<k>> \o t
        BY <2>1, <2>2, <3>2 DEF RestFrom
      <3> QED BY <2>1, <2>3, <3>1, <3>3
    <2>4. CASE n # Len(p)
      <3>1. n < Len(p) /\ t = RestFrom(edit, n + 1)
        BY <1>2, <1>3, <2>1, <2>2, <2>4
      <3> QED BY <2>1, <2>2, <3>1, SplitRest DEF RestFrom
    <2> QED BY <2>3, <2>4
  <1>7. \/ t # << >> /\ \E a \in FindKeyFold(w, k) : ~IsNode(w[a])
        \/ now.op = "delete" /\ FindKeyFold(w, k) = {}
    BY <1>3, <1>4, <1>6 DEF GiveUp, OnTheWay, SegmentKeys
  <1>8. now.op \in {"set", "delete"} /\ k \in PathKeys
    BY <1>2, <1>3, <1>4 DEF EditOK
  <1>9. Outcome(w, w, <<k>> \o t, now)
    BY <1>4, <1>6, <1>7, <1>8, GiveUpOutcome
  <1>10. WalkOK(values, stack, now)
    <2>1. stack[n].dst = w /\ w = Was(values, stack, n)
      BY <1>2, <1>3 DEF Top
    <2>2. Outcome(Was(values, stack, n), stack[n].dst, RestFrom(edit, n), now)
      BY <1>6, <1>9, <2>1
    <2>3. n \in 1..Len(stack) /\ Bare(stack[n]) /\ \E S : stack \in Seq(S)
      BY <1>2, <1>3 DEF WalkOK
    <2> QED BY <1>2, <1>3, <1>4, <2>2, <2>3, WalkRebuilt
  <1>11. edit' = now /\ UNCHANGED <<values, merged, steps, stack>>
    BY <1>3 DEF GiveUp, GoesOn
  <1>12. WalkOK(values', stack', edit') /\ EditOK(edit')
    BY <1>4, <1>10, <1>11
  <1>13. ~Merging'
    BY <1>4, <1>11 DEF Merging
  <1> QED BY <1>2, <1>11, <1>12, <1>13 DEF IInv

\* At the end of its path an operation has one segment to go.
LEMMA EndOfPath ==
    ASSUME IInv, AtTheEnd
    PROVE  RestFrom(edit, Len(stack)) = <<Segment>> \o << >>
  <1>1. EditOK(edit) /\ Len(stack) \in 1..Len(edit.path) /\ Len(stack) = Len(edit.path)
    BY EditRuns DEF AtTheEnd
  <1>2. PICK p, n : p = edit.path /\ n = Len(stack)
    OBVIOUS
  <1>3. p \in Seq(PathKeys) /\ n \in 1..Len(p) /\ n = Len(p)
    BY <1>1, <1>2, EditPathFacts
  <1>4. \A e : e = << >> => SubSeq(p, n, Len(p)) = <<p[n]>> \o e
    BY <1>3, LastRest
  <1>5. \A e : e = << >> => RestFrom(edit, Len(stack)) = <<Segment>> \o e
    BY <1>2, <1>4 DEF RestFrom, Segment
  <1> QED BY <1>5

\* Set arrives.
LEMMA SetHereIsOK == IInv /\ SetHere => IInv'
  <1> SUFFICES ASSUME IInv, AtTheEnd, edit.op = "set", GoesOn("done"),
                      NEW d \in IF SegmentKeys = {} THEN {Segment} ELSE SegmentKeys,
                      Becomes(Put(Top.dst, d, edit.value))
               PROVE  IInv'
    BY DEF SetHere
  <1>1. EditOK(edit) /\ Segment \in PathKeys /\ edit.phase = "down"
    BY EditRuns DEF AtTheEnd
  <1>2. PICK now : now = [edit EXCEPT !.phase = "done"]
    OBVIOUS
  <1>3. now.op = "set" /\ now.phase = "done" /\ now.value = edit.value /\ now.value # Missing
    <2>1. now.op = edit.op /\ now.phase = "done" /\ now.value = edit.value
      BY <1>1, <1>2, PhaseFields
    <2> QED BY <1>1, <2>1 DEF EditOK
  <1>4. PlaceOf(Top.dst, Segment, d)
    BY DEF PlaceOf, SegmentKeys
  <1>5. PICK w, m, k : w = Top.dst /\ m = Put(w, d, now.value) /\ k = Segment
    OBVIOUS
  <1>6. Outcome(w, m, <<k>> \o << >>, now)
    BY <1>1, <1>3, <1>4, <1>5, SetOutcome
  <1>7. Outcome(Top.dst, m, RestFrom(edit, Len(stack)), now)
    BY <1>5, <1>6, EndOfPath
  <1>8. stack' = [stack EXCEPT ![Len(stack)] = [Top EXCEPT !.dst = m]]
    BY <1>3, <1>5 DEF Becomes, Top
  <1> QED BY <1>1, <1>2, <1>7, <1>8, WalkEnds

\* Delete arrives.
LEMMA DeleteHereIsOK == IInv /\ DeleteHere => IInv'
  <1> SUFFICES ASSUME IInv, AtTheEnd, edit.op = "delete", GoesOn("done"),
                      NEW d \in SegmentKeys, Becomes(Without(Top.dst, d))
               PROVE  IInv'
    BY DEF DeleteHere
  <1>1. EditOK(edit) /\ Segment \in PathKeys /\ edit.phase = "down"
    BY EditRuns DEF AtTheEnd
  <1>2. PICK now : now = [edit EXCEPT !.phase = "done"]
    OBVIOUS
  <1>3. now.op = "delete" /\ now.phase = "done"
    BY <1>1, <1>2, PhaseFields
  <1>5. PICK w, m, k : w = Top.dst /\ m = Without(w, d) /\ k = Segment
    OBVIOUS
  <1>6. Outcome(w, m, <<k>> \o << >>, now)
    BY <1>1, <1>3, <1>5, DeleteOutcome DEF SegmentKeys
  <1>7. Outcome(Top.dst, m, RestFrom(edit, Len(stack)), now)
    BY <1>5, <1>6, EndOfPath
  <1>8. stack' = [stack EXCEPT ![Len(stack)] = [Top EXCEPT !.dst = m]]
    BY <1>5 DEF Becomes, Top
  <1> QED BY <1>1, <1>2, <1>7, <1>8, WalkEnds

\* A map on the way is seen to have changed in the one around it.
LEMMA ReturnWalkIsOK == IInv /\ ~Merging /\ ReturnMap => IInv'
  <1> SUFFICES ASSUME IInv, ~Merging, ReturnMap PROVE IInv'
    OBVIOUS
  <1>1. EditOK(edit) /\ WalkOK(values, stack, edit) /\ edit.phase # "down" /\ Len(stack) > 1
    BY DEF IInv, ReturnMap
  <1>2. PICK n, c, st, f, g : /\ n = Len(stack) - 1 /\ c = stack[n + 1] /\ st = SubSeq(stack, 1, n) /\ f = stack[n]
                              /\ g = Assign(f, c.at, Node(c.dst), c.key)
    OBVIOUS
  <1>3. PICK S : stack \in Seq(S)
    BY <1>1 DEF WalkOK
  <1>4. n \in Nat \ {0} /\ n + 1 = Len(stack) /\ c = Top /\ st = Pop
    <2>1. Len(stack) \in Nat
      BY <1>3
    <2>2. n \in Nat \ {0} /\ n + 1 = Len(stack)
      BY <1>1, <1>2, <2>1
    <2> QED BY <1>2, <2>2 DEF Top, Pop
  <1>5. st[n] = f /\ n \in DOMAIN st
    BY <1>2, <1>3, <1>4
  <1>6. WalkOK(values, [st EXCEPT ![n] = g], edit)
    BY <1>1, <1>2, WalkPopped
  <1>7. stack' = [st EXCEPT ![n] = g] /\ UNCHANGED <<values, merged, steps, edit>>
    <2>1. stack' = [st EXCEPT ![n] = Assign(st[n], Top.at, Node(Top.dst), Top.key)]
      BY <1>2, <1>4 DEF ReturnMap
    <2>2. Assign(st[n], Top.at, Node(Top.dst), Top.key) = g
      BY <1>2, <1>4, <1>5
    <2> QED BY <2>1, <2>2 DEF ReturnMap
  <1>8. WalkOK(values', stack', edit')
    BY <1>6, <1>7
  <1> QED BY <1>7, <1>8 DEF IInv, Merging

\* Between two operations no call of Set or Delete is running.
LEMMA IdleMerges ==
    ASSUME IInv, stack = << >>
    PROVE  Merging
  <1>1. Len(stack) = 0
    OBVIOUS
  <1> QED BY <1>1 DEF IInv, WalkOK

\* Set or Delete returns.
LEMMA EndEditIsOK == IInv /\ EndEdit => IInv'
  <1> SUFFICES ASSUME IInv, EndEdit PROVE IInv'
    OBVIOUS
  <1>1. ~Merging /\ steps < MaxSteps /\ steps \in 0..MaxSteps /\ merged \in 0..NumSources
    BY DEF IInv, EndEdit, Merging
  <1>2. steps' \in 0..MaxSteps /\ stack' = << >> /\ merged' = merged /\ edit' = NoEdit
    BY <1>1, MaxStepsAssumption DEF EndEdit
  <1>3. CallsOK(values', stack') /\ Merging'
    BY <1>2, EmptyStackIsOK, NoEditMerges DEF Merging
  <1> QED BY <1>1, <1>2, <1>3 DEF IInv, Running

\* The next Load begins.
LEMMA RestartIsOK == IInv /\ Restart => IInv'
  <1> SUFFICES ASSUME IInv, Restart PROVE IInv'
    OBVIOUS
  <1>1. stack' = << >> /\ edit' = edit /\ merged' = 0 /\ steps' = 0
    BY DEF Restart, Running
  <1>2. Merging
    BY <1>1, IdleMerges DEF Restart, Running
  <1>3. CallsOK(values', stack') /\ Merging'
    BY <1>1, <1>2, EmptyStackIsOK DEF Merging
  <1>4. 0 \in 0..NumSources /\ 0 \in 0..MaxSteps
    BY NumSourcesAssumption, MaxStepsAssumption
  <1> QED BY <1>1, <1>3, <1>4 DEF IInv, Running

\* Nothing happens.
LEMMA StutterIsOK == IInv /\ UNCHANGED vars => IInv'
  <1> SUFFICES ASSUME IInv, UNCHANGED vars PROVE IInv'
    OBVIOUS
  <1>1. UNCHANGED <<values, stack, merged, steps, edit>>
    BY DEF vars
  <1>2. CallsOK(values, stack) => CallsOK(values', stack')
    BY <1>1
  <1>3. WalkOK(values, stack, edit) /\ EditOK(edit) => WalkOK(values', stack', edit') /\ EditOK(edit')
    BY <1>1
  <1> QED BY <1>1, <1>2, <1>3 DEF IInv, Running, Merging

\* Every step keeps the invariant.
LEMMA NextIsOK == IInv /\ [Next]_vars => IInv'
  <1> SUFFICES ASSUME IInv, [Next]_vars PROVE IInv'
    OBVIOUS
  <1>1. CASE BeginMerge
    <2>1. Merging
      BY <1>1, IdleMerges DEF BeginMerge
    <2> QED BY <1>1, <2>1, BeginMergeIsOK
  <1>2. CASE ReturnMap
    BY <1>2, ReturnCallIsOK, ReturnWalkIsOK
  <1> QED BY <1>1, <1>2, VisitIsOK, EndMergeIsOK, BeginEditIsOK, EnterMapIsOK, CreateMapIsOK, GiveUpIsOK,
             SetHereIsOK, DeleteHereIsOK, EndEditIsOK, RestartIsOK, StutterIsOK DEF Next

\* The invariant holds in every reachable state: every call of deepMerge on the stack
\* has merged the keys it is finished with (src/synthra.go:184-205), and Set or Delete
\* is where its path leads (src/configurable.go:64-76, 97-108).
THEOREM InvariantHolds == Spec => []IInv
  BY InitIsOK, NextIsOK, PTL DEF Spec

\* Merges finish keys of their own src, only the sources there are are merged, and Set
\* and Delete end with their path (src/synthra.go:185, 214, src/configurable.go:62-79).
THEOREM TypesAreRight == Spec => []TypeOK
  <1>1. IInv => TypeOK
    <2> SUFFICES ASSUME IInv PROVE TypeOK
      OBVIOUS
    <2>1. CASE Merging
      <3>1. DOMAIN stack = 1..Len(stack)
        BY <2>1 DEF IInv, CallsOK
      <3>2. \A i \in DOMAIN stack : stack[i].todo \subseteq DOMAIN stack[i].src
        BY <2>1, <3>1 DEF IInv, CallsOK, FrameOK
      <3> QED BY <2>1, <3>2 DEF IInv, TypeOK
    <2>2. CASE ~Merging
      <3>1. DOMAIN stack = 1..Len(stack)
        BY <2>2 DEF IInv, WalkOK
      <3>2. \A i \in DOMAIN stack : stack[i].todo \subseteq DOMAIN stack[i].src
        BY <2>2, <3>1 DEF IInv, WalkOK, Bare
      <3>3. Len(stack) <= Len(edit.path)
        BY <2>2 DEF IInv, WalkOK
      <3> QED BY <2>2, <3>2, <3>3 DEF IInv, TypeOK
    <2> QED BY <2>1, <2>2
  <1> QED BY <1>1, InvariantHolds, PTL

-----------------------------------------------------------------------------
(* What a merge, a Set and a Delete do                                     *)

\* Only the end of a merge adds a source.
LEMMA MergesOnly ==
    ASSUME IInv, [Next]_vars, Merged
    PROVE  EndMerge /\ Merging /\ Running
  <1>1. merged \in Nat /\ merged' > merged
    BY NumSourcesAssumption DEF IInv, Merged
  <1>2. merged' # merged /\ merged' # 0
    BY <1>1
  <1>3. EndMerge
    BY <1>2 DEF Next, vars, BeginMerge, Visit, InsertMap, InsertValue, MergeMaps, ReplaceValue,
                Assigns, Calls, ReturnMap, BeginEdit, EnterMap, CreateMap, GiveUp, SetHere, DeleteHere,
                GoesOn, EndEdit, Restart
  <1>4. Len(<< >>) = 0
    OBVIOUS
  <1> QED BY <1>3, <1>4 DEF EndMerge, Running

\* A source that is merged was merged by one call, which is finished.
LEMMA MergedBy ==
    ASSUME IInv, [Next]_vars, Merged
    PROVE  /\ FrameOK(values, stack[1]) /\ stack[1].todo = {}
           /\ values' = stack[1].dst /\ Source = stack[1].src
  <1>1. EndMerge /\ Merging
    BY MergesOnly
  <1>2. Len(stack) = 1 /\ Top = stack[1] /\ 1 \in 1..Len(stack)
    BY <1>1 DEF EndMerge, Top
  <1>3. FrameOK(Was(values, stack, 1), stack[1])
    BY <1>1, <1>2 DEF IInv, CallsOK
  <1> QED BY <1>1, <1>2, <1>3 DEF Was, EndMerge, Source

\* A Set or Delete that returns has made a map of the outcome its path asks for.
LEMMA EndEditMakes ==
    ASSUME IInv, EndEdit
    PROVE  EditOK(edit) /\ Outcome(values, values', edit.path, edit)
  <1>1. EditOK(edit) /\ WalkOK(values, stack, edit) /\ edit.phase # "down" /\ Len(stack) = 1
    BY DEF IInv, EndEdit, Merging
  <1>2. Outcome(Was(values, stack, 1), stack[1].dst, RestFrom(edit, 1), edit)
    BY <1>1 DEF WalkOK
  <1>3. Was(values, stack, 1) = values /\ values' = stack[1].dst
    BY <1>1 DEF Was, EndEdit, Top
  <1>4. RestFrom(edit, 1) = edit.path
    <2>1. PICK p : p = edit.path
      OBVIOUS
    <2>2. p \in Seq(PathKeys) /\ 1 \in 1..Len(p)
      BY <1>1, <2>1, EditPathFacts DEF WalkOK
    <2>3. SubSeq(p, 1, Len(p)) = p
      BY <2>2, SplitRest
    <2> QED BY <2>1, <2>3 DEF RestFrom
  <1> QED BY <1>1, <1>2, <1>3, <1>4

\* Only the return of Set or Delete adds a step.
LEMMA EditedBy ==
    ASSUME IInv, [Next]_vars, steps' > steps
    PROVE  EndEdit
  <1>1. steps \in Nat /\ steps' > steps
    BY MaxStepsAssumption DEF IInv
  <1>2. steps' # steps /\ steps' # 0
    BY <1>1
  <1> QED BY <1>2 DEF Next, vars, BeginMerge, Visit, InsertMap, InsertValue, MergeMaps, ReplaceValue,
                Assigns, Calls, ReturnMap, EndMerge, BeginEdit, EnterMap, CreateMap, GiveUp, SetHere, DeleteHere,
                GoesOn, Restart

\* Only the end of an operation, and a new Load, changes the map.
LEMMA ChangedBy ==
    ASSUME IInv, [Next]_vars, values' # values
    PROVE  EndMerge \/ EndEdit \/ Restart
  BY DEF Next, vars, BeginMerge, Visit, InsertMap, InsertValue, MergeMaps, ReplaceValue,
         Assigns, Calls, ReturnMap, BeginEdit, EnterMap, CreateMap, GiveUp, SetHere, DeleteHere, GoesOn

\* No step makes two keys that differ in case only.
LEMMA StepStaysUnique ==
    ASSUME IInv, [Next]_vars, FoldUniqueTo(values, MaxDepth), InputUnique
    PROVE  FoldUniqueTo(values', MaxDepth)
  <1>1. CASE EndMerge
    <2>1. Merged
      <3>1. merged \in Int
        BY NumSourcesAssumption DEF IInv
      <3> QED BY <1>1, <3>1 DEF EndMerge, Merged
    <2>2. FoldUniqueTo(Source, MaxDepth)
      BY <2>1 DEF InputUnique
    <2> QED BY <2>1, <2>2, MergedBy, MaxDepthAssumption DEF FrameOK, StaysUnique
  <1>2. CASE EndEdit
    <2>1. KeepsUnique(values, values', edit)
      BY <1>2, EndEditMakes DEF Outcome
    <2>2. steps' > steps
      <3>1. steps \in Int
        BY MaxStepsAssumption DEF IInv
      <3> QED BY <1>2, <3>1 DEF EndEdit
    <2>3. SetsUnique(edit, MaxDepth)
      BY <2>2 DEF InputUnique, Edited, SetsUnique
    <2> QED BY <2>1, <2>3, MaxDepthAssumption DEF KeepsUnique
  <1>3. CASE Restart
    BY <1>3, EmptyIsUnique, MaxDepthAssumption DEF Restart
  <1>4. CASE values' = values
    BY <1>4
  <1> QED BY <1>1, <1>2, <1>3, <1>4, ChangedBy

\* No merge, Set or Delete makes two keys that differ in case only, at any level: each
\* finds the key that is there (src/synthra.go:186, src/configurable.go:54-82,
\* src/keys.go:22-32).
THEOREM KeysStayUnique == Spec => KeysStayFoldUnique
  <1>1. IInv /\ [Next]_vars =>
           (FoldUniqueTo(values, MaxDepth) /\ InputUnique => FoldUniqueTo(values', MaxDepth))
    BY StepStaysUnique
  <1> QED BY <1>1, InvariantHolds, PTL DEF Spec, KeysStayFoldUnique

\* What is read along a path after a merge.
LEMMA MergeReads ==
    ASSUME IInv, [Next]_vars, Merged,
           FoldUniqueTo(values, MaxDepth), FoldUniqueTo(Source, MaxDepth), NEW p \in Paths
    PROVE  Reading(values', p) = Overlay(values, Source, p)
  <1>1. MergedTo(values, Source, values', MaxDepth)
    BY MergedBy, FrameMerges, MaxDepthAssumption
  <1> QED BY <1>1, PathFacts DEF MergedTo

\* A later source overrides an earlier one path by path, for maps of any depth and keys
\* taken in any order (src/synthra.go:184-205 and 241).
THEOREM MergesOverlay == Spec => MergeIsOverlay
  <1>1. IInv /\ [Next]_vars =>
           (Merged /\ FoldUniqueTo(values, MaxDepth) /\ FoldUniqueTo(Source, MaxDepth) =>
               \A p \in Paths : Reading(values', p) = Overlay(values, Source, p))
    BY MergeReads
  <1> QED BY <1>1, InvariantHolds, PTL DEF Spec, MergeIsOverlay

\* A merge keeps the keys that are there, in the casing of their first writer
\* (src/synthra.go:180-183).
THEOREM FirstCasingStays == Spec => FirstCasingIsKept
  <1>1. IInv /\ [Next]_vars =>
           (Merged /\ FoldUniqueTo(Source, MaxDepth) => KeysKept(values, values', MaxDepth))
    BY MergedBy, MaxDepthAssumption DEF FrameOK, KeepsKeys
  <1> QED BY <1>1, InvariantHolds, PTL DEF Spec, FirstCasingIsKept

\* What a finished Set or Delete did, if no two keys differ in case only.
LEMMA EditsDo ==
    ASSUME IInv, [Next]_vars, steps' > steps, FoldUniqueTo(values, MaxDepth)
    PROVE  /\ ReadsElsewhere(values, values', edit.path, edit)
           /\ IF edit.op = "set" THEN ReadsSet(values, values', edit.path, edit)
              ELSE ReadsDeleted(values, values', edit.path, edit)
  <1>1. EditOK(edit) /\ Outcome(values, values', edit.path, edit)
    BY EditedBy, EndEditMakes
  <1>2. FoldUniqueTo(values, Len(edit.path))
    <2>1. Len(edit.path) \in Nat /\ Len(edit.path) <= MaxDepth
      BY <1>1, EditPathFacts, MaxDepthAssumption
    <2> QED BY <2>1, FewerLevels, MaxDepthAssumption
  <1> QED BY <1>1, <1>2 DEF Outcome

\* Set fails exactly when a value that is no map is on the way, and else Get finds what
\* was set (src/configurable.go:51-84).
THEOREM SetsMeetGet == Spec => SetMeetsGet
  <1>1. IInv /\ [Next]_vars =>
           (Edited("set") /\ FoldUniqueTo(values, MaxDepth) =>
               IF Blocked(values, edit.path) THEN edit.phase = "failed"
               ELSE /\ edit.phase = "done"
                    /\ Along(values', edit.path) =
                           {IF \E i \in DOMAIN edit.path : edit.path[i].fold = Nameless.fold THEN Missing ELSE edit.value})
    <2> SUFFICES ASSUME IInv, [Next]_vars, Edited("set"), FoldUniqueTo(values, MaxDepth)
                 PROVE  ReadsSet(values, values', edit.path, edit)
      BY DEF ReadsSet, Named
    <2> QED BY EditsDo DEF Edited
  <1> QED BY <1>1, InvariantHolds, PTL DEF Spec, SetMeetsGet

\* Delete reports whether there was something, and then Get finds nothing
\* (src/configurable.go:86-115).
THEOREM DeletesMeetGet == Spec => DeleteMeetsGet
  <1>1. IInv /\ [Next]_vars =>
           (Edited("delete") /\ FoldUniqueTo(values, MaxDepth) =>
               /\ edit.phase = "done" <=> Along(values, edit.path) # {Missing}
               /\ Along(values', edit.path) = {Missing})
    <2> SUFFICES ASSUME IInv, [Next]_vars, Edited("delete"), FoldUniqueTo(values, MaxDepth)
                 PROVE  ReadsDeleted(values, values', edit.path, edit)
      BY DEF ReadsDeleted
    <2> QED BY EditsDo DEF Edited
  <1> QED BY <1>1, InvariantHolds, PTL DEF Spec, DeleteMeetsGet

\* Set and Delete change nothing that is read elsewhere, and nothing at all when they
\* fail (src/configurable.go:51-115).
THEOREM EditsAreLocal == Spec => EditsStayLocal
  <1>1. IInv /\ [Next]_vars =>
           (steps' > steps /\ FoldUniqueTo(values, MaxDepth) =>
               \A p \in Paths : edit.phase = "failed" \/ Apart(p, edit.path) => Reading(values', p) = Reading(values, p))
    <2> SUFFICES ASSUME IInv, [Next]_vars, steps' > steps, FoldUniqueTo(values, MaxDepth),
                        NEW p \in Paths, edit.phase = "failed" \/ Apart(p, edit.path)
                 PROVE  Reading(values', p) = Reading(values, p)
      OBVIOUS
    <2>1. ReadsElsewhere(values, values', edit.path, edit)
      BY EditsDo
    <2>2. p \in Seq(PathKeys) /\ p # << >>
      <3>1. p \in Seq(PathKeys) /\ Len(p) \in 1..MaxDepth
        BY PathFacts
      <3>2. Len(<< >>) = 0
        OBVIOUS
      <3> QED BY <3>1, <3>2
    <2> QED BY <2>1, <2>2 DEF ReadsElsewhere
  <1> QED BY <1>1, InvariantHolds, PTL DEF Spec, EditsStayLocal

\* Get finds what Set and Delete did, at their path and elsewhere
\* (src/configurable.go:51-115, src/configuration.go:54-71).
THEOREM EditsAreFound == Spec => EditsMeetGet
  BY SetsMeetGet, DeletesMeetGet, EditsAreLocal, PTL DEF EditsMeetGet

-----------------------------------------------------------------------------
(* Maps that never have two keys that differ in case only                  *)

\* No source, and nothing a transform sets, has such keys.
InputsAreUnique ==
    /\ \A i \in 1..NumSources : \A s \in SourceTrees(i) : FoldUniqueTo(s, MaxDepth)
    /\ \A v \in NewValues : IsNode(v) => FoldUniqueTo(v.map, MaxDepth)

\* What is being merged or set is one of them.
InputOK ==
    /\ Merging /\ Running => FoldUniqueTo(Source, MaxDepth)
    /\ edit.op = "set" /\ IsNode(edit.value) => FoldUniqueTo(edit.value.map, MaxDepth)

\* A call in a nested map is none of the outermost one's business.
LEMMA SourceStays ==
    ASSUME IInv, Running, Merging, Visit \/ ReturnMap
    PROVE  Source' = Source
  <1>1. PICK n, S : n = Len(stack) /\ stack \in Seq(S)
    BY DEF IInv, CallsOK
  <1>2. n \in Nat \ {0} /\ IsFrame(Top) /\ Top = stack[n] /\ n \in 1..n
    BY <1>1, TopIsOK DEF Top
  <1>3. CASE \E a, k : Assigns(a, k)
    <2>1. PICK a, k : stack' = [stack EXCEPT ![n] = Assign(@, a, Top.src[k], k)]
      BY <1>1, <1>3 DEF Assigns
    <2>2. PICK v, g : v = Top.src[k] /\ g = Assign(Top, a, v, k)
      OBVIOUS
    <2>3. g.src = Top.src
      BY <1>2, <2>2, AssignFields
    <2>4. stack' = [stack EXCEPT ![n] = g]
      BY <1>2, <2>1, <2>2
    <2>5. CASE n = 1
      <3>1. PICK t : t = [stack EXCEPT ![n] = g]
        OBVIOUS
      <3>2. n \in 1..Len(stack)
        BY <1>1, <1>2
      <3>3. t[n] = g
        BY <1>1, <3>1, <3>2
      <3>4. stack'[1] = g /\ Top = stack[1]
        BY <1>2, <2>4, <2>5, <3>1, <3>3
      <3> QED BY <2>3, <3>4 DEF Source
    <2>6. CASE n # 1
      <3>1. stack'[1] = stack[1]
        BY <1>1, <1>2, <2>4, <2>6
      <3> QED BY <3>1 DEF Source
    <2> QED BY <2>5, <2>6
  <1>4. CASE \E c : Calls(c)
    <2>1. PICK c : stack' = Append(stack, c)
      BY <1>4 DEF Calls
    <2>2. stack'[1] = stack[1]
      BY <1>1, <1>2, <2>1
    <2> QED BY <2>2 DEF Source
  <1>5. CASE ReturnMap
    <2>1. PICK i, st : i = n - 1 /\ st = SubSeq(stack, 1, i)
      OBVIOUS
    <2>2. i \in Nat \ {0} /\ i \in 1..n /\ i \in 1..(n - 1)
      BY <1>1, <1>2, <1>5, <2>1 DEF ReturnMap
    <2>3. st \in Seq(S) /\ Len(st) = i /\ st[1] = stack[1] /\ st[i] = stack[i]
      BY <1>1, <1>2, <2>1, <2>2
    <2>4. IsFrame(st[i])
      BY <1>1, <2>2, <2>3 DEF IInv, CallsOK
    <2>5. PICK a, v, k, g : g = Assign(st[i], a, v, k) /\ stack' = [st EXCEPT ![i] = g]
      BY <1>1, <1>5, <2>1 DEF ReturnMap, Pop
    <2>6. g.src = st[i].src
      BY <2>4, <2>5, AssignFields
    <2>7. CASE i = 1
      <3>1. stack'[1] = g
        BY <2>3, <2>5, <2>7
      <3> QED BY <2>3, <2>6, <2>7, <3>1 DEF Source
    <2>8. CASE i # 1
      <3>1. stack'[1] = st[1]
        BY <2>2, <2>3, <2>5, <2>8
      <3> QED BY <2>3, <3>1 DEF Source
    <2> QED BY <2>7, <2>8
  <1> QED BY <1>3, <1>4, <1>5 DEF Visit, InsertMap, InsertValue, MergeMaps, ReplaceValue

\* What is merged or set keeps unique keys to the end.
LEMMA InputStaysOK ==
    ASSUME InputsAreUnique, IInv, InputOK, [Next]_vars
    PROVE  InputOK'
  <1>1. CASE BeginMerge
    <2>1. PICK s \in SourceTrees(merged + 1) : stack' = <<Call(values, s, Nameless, Nameless)>>
      BY <1>1 DEF BeginMerge
    <2>2. merged + 1 \in 1..NumSources
      BY <1>1, NumSourcesAssumption DEF IInv, BeginMerge
    <2>3. FoldUniqueTo(s, MaxDepth)
      BY <2>2 DEF InputsAreUnique
    <2>4. PICK c : c = Call(values, s, Nameless, Nameless)
      OBVIOUS
    <2>5. stack' = <<c>> /\ c.src = s
      BY <2>1, <2>4, CallFields
    <2>6. Source' = s
      BY <2>5 DEF Source
    <2> QED BY <1>1, <2>3, <2>6 DEF InputOK, BeginMerge
  <1>2. CASE Visit \/ ReturnMap
    <2>1. UNCHANGED edit /\ Running
      <3>1. CASE Visit
        BY <3>1 DEF Visit, InsertMap, InsertValue, MergeMaps, ReplaceValue, Assigns, Calls
      <3>2. CASE ReturnMap
        <4>1. stack # << >>
          <5>1. Len(<< >>) = 0
            OBVIOUS
          <5> QED BY <3>2, <5>1 DEF ReturnMap
        <4> QED BY <3>2, <4>1 DEF ReturnMap, Running
      <3> QED BY <1>2, <3>1, <3>2
    <2>2. CASE Merging
      <3>1. Source' = Source
        BY <1>2, <2>1, <2>2, SourceStays
      <3> QED BY <2>1, <2>2, <3>1 DEF InputOK
    <2>3. CASE ~Merging
      BY <2>1, <2>3 DEF InputOK, Merging
    <2> QED BY <2>2, <2>3
  <1>3. CASE EndMerge \/ EndEdit \/ Restart
    <2>1. ~Running'
      BY <1>3 DEF EndMerge, EndEdit, Restart, Running
    <2>2. edit' = edit \/ edit' = NoEdit
      BY <1>3 DEF EndMerge, EndEdit, Restart
    <2>3. NoEdit.op = "none"
      BY DEF NoEdit, Edit
    <2> QED BY <2>1, <2>2, <2>3 DEF InputOK
  <1>4. CASE BeginEdit
    <2>1. edit'.phase = "down" /\ (edit'.op = "set" => edit'.value \in NewValues)
      BY <1>4 DEF BeginEdit, Edit
    <2> QED BY <2>1 DEF InputOK, InputsAreUnique, Merging
  <1>5. CASE EnterMap \/ CreateMap
    <2>1. edit' = edit /\ ~Merging
      BY <1>5 DEF EnterMap, CreateMap, OnTheWay, Calls, Merging
    <2> QED BY <2>1 DEF InputOK, Merging
  <1>6. CASE GiveUp \/ SetHere \/ DeleteHere
    <2>1. EditOK(edit)
      BY <1>6, EditRuns DEF GiveUp, SetHere, DeleteHere, OnTheWay, AtTheEnd
    <2>2. PICK phase \in {"done", "failed"} : edit' = [edit EXCEPT !.phase = phase]
      BY <1>6 DEF GiveUp, SetHere, DeleteHere, GoesOn
    <2>3. edit'.op = edit.op /\ edit'.value = edit.value /\ edit'.phase = phase
      BY <2>1, <2>2, PhaseFields
    <2> QED BY <2>3 DEF InputOK, Merging
  <1>7. CASE UNCHANGED vars
    <2>1. UNCHANGED <<stack, edit>>
      BY <1>7 DEF vars
    <2> QED BY <2>1 DEF InputOK, Merging, Running, Source
  <1> QED BY <1>1, <1>2, <1>3, <1>4, <1>5, <1>6, <1>7 DEF Next

\* When no source and nothing a transform sets has keys that differ in case only, the
\* map of a Load never has, between two operations: lookups do not depend on the order
\* in which Go iterates over a map (src/keys.go:22-32).
THEOREM KeysAreUnique == InputsAreUnique => (Spec => []FoldUniqueTo(values, MaxDepth))
  <1> SUFFICES ASSUME InputsAreUnique PROVE Spec => []FoldUniqueTo(values, MaxDepth)
    OBVIOUS
  <1> DEFINE Both == IInv /\ InputOK /\ FoldUniqueTo(values, MaxDepth)
  <1>1. Init => Both
    <2>1. Init => InputOK
      BY DEF Init, InputOK, Running, NoEdit, Edit
    <2>2. Init => FoldUniqueTo(values, MaxDepth)
      BY EmptyIsUnique, MaxDepthAssumption DEF Init
    <2> QED BY <2>1, <2>2, InitIsOK
  <1>2. Both /\ [Next]_vars => Both'
    <2> SUFFICES ASSUME Both, [Next]_vars PROVE Both'
      OBVIOUS
    <2>1. IInv' /\ InputOK'
      BY NextIsOK, InputStaysOK
    <2>2. InputUnique
      <3>1. Merged => FoldUniqueTo(Source, MaxDepth)
        BY MergesOnly DEF InputOK
      <3> QED BY <3>1 DEF InputUnique, InputOK, Edited
    <2>3. FoldUniqueTo(values', MaxDepth)
      BY <2>2, StepStaysUnique
    <2> QED BY <2>1, <2>3
  <1> QED BY <1>1, <1>2, PTL DEF Spec

-----------------------------------------------------------------------------
(* What readers are told                                                   *)

\* A value is of the class a reader sees it in.
LEMMA RawOfSeen == \A v : RawOf(SeenAs(v)) = RawOf(v)
  <1> TAKE v
  <1>1. CASE IsNode(v)
    <2>1. SeenAs(v) = [tag |-> "map"] /\ v.tag = "map"
      BY <1>1 DEF SeenAs, IsNode
    <2>2. Missing.tag = "missing" /\ SeenAs(v).tag = "map"
      BY <2>1 DEF Missing
    <2>3. v # Missing /\ SeenAs(v) # Missing
      BY <2>1, <2>2
    <2> QED BY <2>1, <2>2, <2>3 DEF RawOf
  <1>2. CASE ~IsNode(v)
    BY <1>2 DEF SeenAs
  <1> QED BY <1>1, <1>2

\* What the families of accessors make of a raw value.
LEMMA FamiliesAre ==
    ASSUME NEW raw, NEW t \in Typed
    PROVE  Answers(raw, t) = IF raw \in {"missing", "null"} THEN NoKey
                             ELSE IF Convertible(raw, t) THEN AllReturn(raw)
                             ELSE OnlyStrictErrs
  <1>1. t # "struct"
    BY DEF Typed
  <1>2. CASE raw \in {"missing", "null"}
    BY <1>2 DEF Answers, NoKey, Strict, Get, Or, GetOr, IsNil
  <1>3. CASE raw \notin {"missing", "null"} /\ Convertible(raw, t)
    BY <1>1, <1>3 DEF Answers, AllReturn, Strict, Get, Or, GetOr, Cast, IsNil
  <1>4. CASE raw \notin {"missing", "null"} /\ ~Convertible(raw, t)
    BY <1>1, <1>4 DEF Answers, OnlyStrictErrs, Strict, Get, Or, GetOr, Cast, IsNil
  <1> QED BY <1>2, <1>3, <1>4

\* They answer so for a value of the same class.
LEMMA AnswersAre == \A raw : AnswersFor(raw, raw)
  <1> SUFFICES ASSUME NEW raw PROVE AnswersFor(raw, raw)
    OBVIOUS
  <1>1. Has(raw) <=> raw # "missing"
    BY DEF Has
  <1>2. Get(raw, "struct").is = "error"
    BY DEF Get, Error
  <1>3. GetOr(raw, "struct") = Default
    BY DEF GetOr
  <1> QED BY <1>1, <1>2, <1>3, FamiliesAre DEF AnswersFor

\* After a merge the accessors answer for what the new source says of a path or, when it
\* is silent, for what the earlier ones said: a null hides an earlier value, and a value
\* that does not convert is an error of the strict accessor only
\* (src/synthra.go:184-205, src/get.go:41-421, src/configuration.go:73-104).
THEOREM AccessorsDoFollow == Spec => AccessorsFollowSources
  <1>1. IInv /\ [Next]_vars =>
           (Merged /\ FoldUniqueTo(values, MaxDepth) /\ FoldUniqueTo(Source, MaxDepth) =>
               \A p \in Paths : \A v \in Along(values', p) : \E said \in Overlay(values, Source, p) :
                   AnswersFor(RawOf(said), RawOf(v)))
    <2> SUFFICES ASSUME IInv, [Next]_vars, Merged,
                        FoldUniqueTo(values, MaxDepth), FoldUniqueTo(Source, MaxDepth),
                        NEW p \in Paths, NEW v \in Along(values', p)
                 PROVE  \E said \in Overlay(values, Source, p) : AnswersFor(RawOf(said), RawOf(v))
      OBVIOUS
    <2>1. SeenAs(v) \in Overlay(values, Source, p)
      BY MergeReads DEF Reading
    <2>2. RawOf(SeenAs(v)) = RawOf(v)
      BY RawOfSeen
    <2> QED BY <2>1, <2>2, AnswersAre, Zenon
  <1> QED BY <1>1, InvariantHolds, PTL DEF Spec, AccessorsFollowSources
=============================================================================
