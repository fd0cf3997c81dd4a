-------------------------- MODULE ResolversProofs --------------------------
(***************************************************************************)
(* Theorems about Resolvers, for every list of .env files, and every set   *)
(* of receivers and of values in the map of defaults.                      *)
(***************************************************************************)
EXTENDS Resolvers, TLAPS

-----------------------------------------------------------------------------
(* Or                                                                      *)

\* The first of the layers that have what is looked for.
LEMMA LeastIs ==
    ASSUME NEW S \in SUBSET Nat, NEW m \in S, \A j \in S : m <= j
    PROVE  (CHOOSE i \in S : \A j \in S : i <= j) = m
  <1> DEFINE Least(i) == i \in S /\ \A j \in S : i <= j
  <1>1. Least(m)
    OBVIOUS
  <1>2. Least(CHOOSE i : Least(i))
    BY <1>1, Zenon
  <1>3. \A i : Least(i) => i = m
    OBVIOUS
  <1>4. (CHOOSE i \in S : \A j \in S : i <= j) = (CHOOSE i : Least(i))
    OBVIOUS
  <1> HIDE DEF Least
  <1> QED BY <1>2, <1>3, <1>4

\* The first of two resolvers that finds the name.
LEMMA OneFallback ==
    ASSUME NEW a, NEW b, NEW n
    PROVE  LookupOr(a, <<b>>, n) = IF Finds(a, n) THEN a.answer[n]
                                   ELSE IF Finds(b, n) THEN b.answer[n] ELSE Absent
  <1> DEFINE found == {i \in DOMAIN <<b>> : Finds(<<b>>[i], n)}
  <1>1. CASE Finds(b, n)
    <2>1. found = {1}
      BY <1>1
    <2>2. (CHOOSE i \in found : \A j \in found : i <= j) = 1
      BY <2>1
    <2> QED BY <2>1, <2>2, <1>1 DEF LookupOr
  <1>2. CASE ~Finds(b, n)
    <2>1. found = {}
      BY <1>2
    <2> QED BY <2>1, <1>2 DEF LookupOr
  <1> QED BY <1>1, <1>2

\* The first of three resolvers that finds the name.
LEMMA TwoFallbacks ==
    ASSUME NEW a, NEW b, NEW c, NEW n
    PROVE  LookupOr(a, <<b, c>>, n) = IF Finds(a, n) THEN a.answer[n]
                                      ELSE IF Finds(b, n) THEN b.answer[n]
                                      ELSE IF Finds(c, n) THEN c.answer[n] ELSE Absent
  <1> DEFINE found == {i \in DOMAIN <<b, c>> : Finds(<<b, c>>[i], n)}
             least == CHOOSE i \in found : \A j \in found : i <= j
  <1>1. found \subseteq {1, 2} /\ (1 \in found <=> Finds(b, n)) /\ (2 \in found <=> Finds(c, n))
    OBVIOUS
  <1>2. LookupOr(a, <<b, c>>, n) = IF Finds(a, n) THEN a.answer[n]
                                   ELSE IF found = {} THEN Absent ELSE <<b, c>>[least].answer[n]
    BY DEF LookupOr
  <1> HIDE DEF found
  <1>3. found \in SUBSET Nat
    BY <1>1
  <1>4. Finds(b, n) => least = 1
    <2>1. \A j \in found : 1 <= j
      BY <1>1
    <2> QED BY <1>1, <1>3, <2>1, LeastIs
  <1>5. ~Finds(b, n) /\ Finds(c, n) => least = 2
    <2>1. ~Finds(b, n) => \A j \in found : 2 <= j
      BY <1>1
    <2> QED BY <1>1, <1>3, <2>1, LeastIs
  <1> HIDE DEF least
  <1> QED BY <1>1, <1>2, <1>4, <1>5

\* Or with fallbacks makes a resolver, also of a nil receiver.
LEMMA OrAnswers ==
    ASSUME NEW a, NEW fallbacks, fallbacks # << >>, NEW n \in Lookups
    PROVE  /\ ~Or(a, fallbacks).isNil
           /\ Or(a, fallbacks).answer[n] = LookupOr(a, fallbacks, n)
  BY DEF Or, Answering

\* Prefix answers for the name with the prefix.
LEMMA PrefixAnswers ==
    ASSUME NEW a, NEW n \in Lookups
    PROVE  /\ ~PrefixOf(a).isNil
           /\ PrefixOf(a).answer[n] = a.answer[Prefixed(n)]
           /\ Prefixed(n) \in Lookups
  BY DEF PrefixOf, Answering, Prefixed, Lookups, Names

\* What a chain of two finds.
LEMMA OrFinds ==
    ASSUME NEW a, NEW b, NEW n \in Lookups
    PROVE  /\ Finds(Or(a, <<b>>), n) <=> Finds(a, n) \/ Finds(b, n)
           /\ Or(a, <<b>>).answer[n] = IF Finds(a, n) THEN a.answer[n]
                                       ELSE IF Finds(b, n) THEN b.answer[n] ELSE Absent
  <1>1. <<b>> # << >>
    OBVIOUS
  <1>2. /\ ~Or(a, <<b>>).isNil
        /\ Or(a, <<b>>).answer[n] = IF Finds(a, n) THEN a.answer[n]
                                    ELSE IF Finds(b, n) THEN b.answer[n] ELSE Absent
    BY <1>1, OrAnswers, OneFallback
  <1> QED BY <1>2 DEF Finds

\* The layers of a chain may be nested in any way, and Prefix taken before or after
\* Or (src/resolver.go:91-98, 144-164).
THEOREM Associativity == Spec => []OrIsAssociative
  <1>1. ASSUME NEW a, NEW b, NEW c, NEW n \in Names
        PROVE  Or(Or(a, <<b>>), <<c>>).answer[n] = Or(a, <<b, c>>).answer[n]
    <2>1. n \in Lookups /\ <<b, c>> # << >>
      BY DEF Lookups
    <2>2. Or(a, <<b, c>>).answer[n] = LookupOr(a, <<b, c>>, n)
      BY <2>1, OrAnswers
    <2> QED BY <2>1, <2>2, OrFinds, TwoFallbacks
  <1>2. ASSUME NEW a, NEW b, NEW n \in Names, ~a.isNil, ~b.isNil
        PROVE  PrefixOf(Or(a, <<b>>)).answer[n] = Or(PrefixOf(a), <<PrefixOf(b)>>).answer[n]
    <2>1. n \in Lookups
      BY DEF Lookups
    <2>2. /\ Finds(PrefixOf(a), n) <=> Finds(a, Prefixed(n))
          /\ Finds(PrefixOf(b), n) <=> Finds(b, Prefixed(n))
      BY <1>2, <2>1, PrefixAnswers DEF Finds
    <2> QED BY <2>1, <2>2, OrFinds, PrefixAnswers
  <1>3. OrIsAssociative
    <2> DEFINE layers == {Receiver, envFile, Defaults}
    <2>1. \A a, b, c \in layers : \A n \in Names :
            /\ Or(Or(a, <<b>>), <<c>>).answer[n] = Or(a, <<b, c>>).answer[n]
            /\ ~a.isNil /\ ~b.isNil =>
                   PrefixOf(Or(a, <<b>>)).answer[n] = Or(PrefixOf(a), <<PrefixOf(b)>>).answer[n]
      <3> HIDE DEF layers
      <3> TAKE a, b, c \in layers
      <3> TAKE n \in Names
      <3>1. Or(Or(a, <<b>>), <<c>>).answer[n] = Or(a, <<b, c>>).answer[n]
        BY <1>1
      <3>2. ~a.isNil /\ ~b.isNil =>
               PrefixOf(Or(a, <<b>>)).answer[n] = Or(PrefixOf(a), <<PrefixOf(b)>>).answer[n]
        <4> HAVE ~a.isNil /\ ~b.isNil
        <4> QED BY <1>2
      <3> QED BY <3>1, <3>2
    <2> QED BY <2>1, Zenon DEF OrIsAssociative
  <1> QED BY <1>3, PTL

-----------------------------------------------------------------------------
(* The chain of the program                                                *)

\* What a layer with value v answers.
Layer(v) == IF v = Unset THEN Absent ELSE [ok |-> TRUE, val |-> v]

\* Only a value that is set is found.
LEMMA LayerFields ==
    ASSUME NEW v
    PROVE  /\ v # Unset => Layer(v).ok = TRUE /\ Layer(v).val = v
           /\ v = Unset => Layer(v).ok = FALSE
  BY DEF Layer, Absent

\* The program expands with what an opened .env file, or none, answers.
ChainInv ==
    /\ env \in [Names -> Values]
    /\ receiver \in Receivers /\ default \in DefaultValues
    /\ pc \in {"start", "coalesce", "ready", "expand"}
    /\ pc \in {"ready", "expand"} =>
          /\ ~envFile.isNil
          /\ \E v \in Values : envFile.answer["X"] = Layer(v)

\* FromMap answers with what the map has.
LEMMA FromMapAnswers ==
    ASSUME NEW m, NEW n \in Lookups
    PROVE  /\ ~FromMap(m).isNil
           /\ FromMap(m).answer[n] = IF n \in DOMAIN m THEN Layer(m[n]) ELSE Absent
  BY DEF FromMap, Answering, LookupIn, Layer

\* No file is open at first.
LEMMA InitChainInv == Init => ChainInv
  BY DEF Init, ChainInv

\* CoalesceEnvFile, when it succeeds, returns a resolver for what the file has.
LEMMA NextChainInv == ChainInv /\ [Next]_vars => ChainInv'
  <1> SUFFICES ASSUME ChainInv, [Next]_vars PROVE ChainInv'
    OBVIOUS
  <1>1. "X" \in Lookups /\ Unset \in Values
    BY DEF Lookups, Names, Values
  <1>2. CASE EnvChange
    BY <1>2 DEF EnvChange, ChainInv
  <1>3. CASE PathFound
    <2>1. files[idx] \in Values
      BY <1>3 DEF PathFound
    <2>2. /\ envFile' = FromMap([n \in {"X"} |-> files[idx]]) /\ pc' = "ready"
          /\ UNCHANGED <<env, receiver, default>>
      BY <1>3 DEF PathFound, Coalesced
    <2>3. ~envFile'.isNil /\ envFile'.answer["X"] = Layer(files[idx])
      BY <1>1, <2>2, FromMapAnswers
    <2> QED BY <2>1, <2>2, <2>3 DEF ChainInv
  <1>4. CASE NoPath
    <2>1. envFile' = Never /\ pc' = "ready" /\ UNCHANGED <<env, receiver, default>>
      BY <1>4 DEF NoPath, Coalesced
    <2>2. ~envFile'.isNil /\ envFile'.answer["X"] = Layer(Unset)
      BY <1>1, <2>1, FromMapAnswers DEF Never, Layer
    <2> QED BY <1>1, <2>1, <2>2 DEF ChainInv
  <1>5. CASE FileChange \/ Coalesce \/ PathMissing
    BY <1>5 DEF FileChange, Coalesce, PathMissing, ChainInv
  <1>6. CASE PathMalformed
    BY <1>6 DEF PathMalformed, Coalesced, ChainInv
  <1>7. CASE BeginLoad \/ EndLoad
    BY <1>7 DEF BeginLoad, EndLoad, Ends, ChainInv
  <1>8. CASE ExpandString
    <2>1. pc = "expand" /\ (pc' = "ready" \/ pc' = pc) /\ UNCHANGED <<env, receiver, default, envFile>>
      BY <1>8 DEF ExpandString, Ends
    <2> QED BY <2>1 DEF ChainInv
  <1>9. CASE UNCHANGED vars
    BY <1>9 DEF vars, ChainInv
  <1> QED BY <1>2, <1>3, <1>4, <1>5, <1>6, <1>7, <1>8, <1>9 DEF Next

\* The highest of the three layers that has a value.
LEMMA WinnerIs ==
    Winner = IF LayerValues[1] # Unset THEN LayerValues[1]
             ELSE IF LayerValues[2] # Unset THEN LayerValues[2] ELSE LayerValues[3]
  <1> DEFINE set == {i \in 1..3 : LayerValues[i] # Unset}
             least == CHOOSE i \in set : \A j \in set : i <= j
  <1>1. Winner = IF set = {} THEN Unset ELSE LayerValues[least]
    BY DEF Winner
  <1>2. set \subseteq {1, 2, 3} /\ \A i \in {1, 2, 3} : i \in set <=> LayerValues[i] # Unset
    OBVIOUS
  <1> HIDE DEF set
  <1>3. \A m \in set : (\A j \in set : m <= j) => least = m
    <2>1. set \in SUBSET Nat
      BY <1>2
    <2> QED BY <2>1, LeastIs
  <1>4. 1 \in set => least = 1
    BY <1>2, <1>3
  <1>5. 1 \notin set /\ 2 \in set => least = 2
    <2>1. 1 \notin set => \A j \in set : 2 <= j
      BY <1>2
    <2> QED BY <1>3, <2>1
  <1>6. 1 \notin set /\ 2 \notin set /\ 3 \in set => least = 3
    <2>1. 1 \notin set /\ 2 \notin set => \A j \in set : 3 <= j
      BY <1>2
    <2> QED BY <1>3, <2>1
  <1> HIDE DEF least
  <1> QED BY <1>1, <1>2, <1>4, <1>5, <1>6

\* The chain answers what the highest layer has, unless its receiver panics.
LEMMA ChainAnswers ==
    ASSUME ChainInv, pc = "expand"
    PROVE  /\ receiver = "prefixed nil" => Chain.answer["X"] = Panic
           /\ receiver # "prefixed nil" => Chain.answer["X"] = Layer(Winner)
  <1>1. "X" \in Lookups /\ "P_X" \in Lookups /\ Prefixed("X") = "P_X" /\ "X" \in Names /\ "P_X" \in Names
    BY DEF Lookups, Names, Prefixed
  <1> DEFINE First == IF Finds(Receiver, "X") THEN Receiver.answer["X"] ELSE Absent
             r == LayerValues[1]
             f == LayerValues[2]
             d == LayerValues[3]
  <1>2. /\ ~Finds(NilResolver, "X")
    BY DEF Finds, NilResolver
  <1>3. ~Defaults.isNil /\ Defaults.answer["X"] = Layer(d)
    BY <1>1, FromMapAnswers DEF Defaults, LayerValues
  <1>4. ~envFile.isNil /\ envFile.answer["X"] = Layer(f)
    <2>1. PICK v \in Values : envFile.answer["X"] = Layer(v)
      BY DEF ChainInv
    <2>2. f = IF envFile.answer["X"].ok THEN envFile.answer["X"].val ELSE Unset
      BY DEF LayerValues
    <2>3. CASE v = Unset
      BY <2>1, <2>2, <2>3, LayerFields DEF ChainInv
    <2>4. CASE v # Unset
      BY <2>1, <2>2, <2>4, LayerFields DEF ChainInv
    <2> QED BY <2>3, <2>4
  <1>5. First = IF receiver = "prefixed nil" THEN Panic ELSE Layer(r)
    <2>1. CASE receiver = "env"
      <3>1. Receiver = FromMap(env) /\ r = env["X"] /\ "X" \in DOMAIN env
        BY <1>1, <2>1 DEF Receiver, ReceiverNamed, FromEnv, LayerValues, ChainInv
      <3> QED BY <1>1, <2>1, <3>1, FromMapAnswers DEF Finds, Layer
    <2>2. CASE receiver = "prefixed env"
      <3>1. Receiver = PrefixOf(FromMap(env)) /\ r = env["P_X"] /\ "P_X" \in DOMAIN env
        BY <1>1, <2>2 DEF Receiver, ReceiverNamed, FromEnv, LayerValues, ChainInv
      <3>2. FromMap(env).answer["P_X"] = Layer(r)
        BY <1>1, <3>1, FromMapAnswers
      <3>3. Receiver.answer["X"] = Layer(r) /\ ~Receiver.isNil
        BY <1>1, <3>1, <3>2, PrefixAnswers
      <3> QED BY <2>2, <3>3 DEF Finds
    <2>3. CASE receiver = "nil"
      <3>1. Receiver = NilResolver /\ r = Unset
        BY <2>3 DEF Receiver, ReceiverNamed, LayerValues
      <3> QED BY <1>2, <2>3, <3>1 DEF Layer
    <2>4. CASE receiver = "prefixed nil"
      <3>1. Receiver = PrefixOf(NilResolver)
        BY <2>4 DEF Receiver, ReceiverNamed
      <3>2. Receiver.answer["X"] = Panic /\ ~Receiver.isNil
        BY <1>1, <3>1, PrefixAnswers DEF NilResolver
      <3> QED BY <2>4, <3>2 DEF Finds, Panic, Absent
    <2> QED BY <2>1, <2>2, <2>3, <2>4, ReceiversAssumption DEF ChainInv
  <1>6. Chain.answer["X"] = IF Finds(Receiver, "X") THEN Receiver.answer["X"]
                            ELSE IF Finds(envFile, "X") THEN envFile.answer["X"]
                            ELSE IF Finds(Defaults, "X") THEN Defaults.answer["X"] ELSE Absent
    BY <1>1, <1>2, OrFinds DEF Chain
  <1>7. \A v : Layer(v) = Absent <=> v = Unset
    BY DEF Layer, Absent
  <1>8. Finds(Receiver, "X") <=> First # Absent
    BY DEF Finds
  <1> HIDE DEF First, r, f, d
  <1>9. Chain.answer["X"] = IF First # Absent THEN First
                            ELSE IF Layer(f) # Absent THEN Layer(f) ELSE Layer(d)
    BY <1>3, <1>4, <1>6, <1>8 DEF Finds, First
  <1>10. Winner = IF r # Unset THEN r ELSE IF f # Unset THEN f ELSE d
    BY WinnerIs DEF r, f, d
  <1>11. Panic # Absent
    BY DEF Panic, Absent
  <1> QED BY <1>5, <1>7, <1>9, <1>10, <1>11

\* No layer has the mark of an error as its value.
LEMMA WinnerTyped == ChainInv /\ pc = "expand" => Winner # "error"
  <1> SUFFICES ASSUME ChainInv, pc = "expand" PROVE Winner # "error"
    OBVIOUS
  <1>1. LayerValues[1] # "error"
    <2>1. \A n \in Names : env[n] # "error"
      BY DEF ChainInv, Values, Unset
    <2> QED BY <2>1 DEF LayerValues, Names, Unset
  <1>2. LayerValues[2] # "error"
    <2>1. PICK v \in Values : envFile.answer["X"] = Layer(v)
      BY DEF ChainInv
    <2>2. LayerValues[2] = IF envFile.answer["X"].ok THEN envFile.answer["X"].val ELSE Unset
      BY DEF LayerValues
    <2>3. LayerValues[2] = v
      BY <2>1, <2>2, LayerFields
    <2> QED BY <2>3 DEF Values, Unset
  <1>3. LayerValues[3] # "error"
    BY DefaultsAssumption DEF LayerValues, ChainInv, Values, Unset
  <1> QED BY <1>1, <1>2, <1>3, WinnerIs

\* Every placeholder gets the value of the highest layer that has the variable at
\* that moment (src/resolver.go:53-64, 105-164, src/options.go:852-876).
THEOREM HighestLayer == Spec => HighestLayerWins
  <1> DEFINE Step == pc = "expand" =>
        /\ \A s \in DOMAIN out' \ DOMAIN out : out'[s] = ExpectedOf(s) /\ receiver # "prefixed nil"
        /\ pc' = "ready" /\ result' = "error" => Winner = Unset
        /\ pc' = "ready" /\ result' = "panic" => receiver = "prefixed nil"
  <1>1. ASSUME ChainInv, Next PROVE Step
    <2> SUFFICES ASSUME pc = "expand"
                 PROVE  /\ \A s \in DOMAIN out' \ DOMAIN out :
                              out'[s] = ExpectedOf(s) /\ receiver # "prefixed nil"
                        /\ pc' = "ready" /\ result' = "error" => Winner = Unset
                        /\ pc' = "ready" /\ result' = "panic" => receiver = "prefixed nil"
      OBVIOUS
    <2>1. CASE ExpandString
      <3> DEFINE found == Chain.answer["X"]
      <3>1. PICK s \in Strings \ DOMAIN out :
               CASE found = Panic -> Ends("panic")
                 [] found # Panic /\ Eval(s, found) = "error" -> Ends("error")
                 [] OTHER -> /\ out' = [t \in DOMAIN out \cup {s} |-> IF t = s THEN Eval(s, found) ELSE out[t]]
                             /\ UNCHANGED <<pc, result>>
        BY <2>1 DEF ExpandString
      <3>2. CASE found = Panic
        <4>1. Ends("panic") /\ receiver = "prefixed nil"
          <5>1. Layer(Winner) # Panic
            BY DEF Layer, Absent, Panic
          <5> QED BY <1>1, <3>1, <3>2, <5>1, ChainAnswers
        <4> QED BY <4>1 DEF Ends, NothingOut
      <3>3. CASE found # Panic
        <4>1. found = Layer(Winner) /\ receiver # "prefixed nil"
          BY <1>1, <3>3, ChainAnswers
        <4>2. CASE Eval(s, found) = "error"
          <5>1. Ends("error")
            BY <3>1, <3>3, <4>2
          <5>2. Winner = Unset
            <6>1. Winner # "error"
              BY <1>1, WinnerTyped
            <6>2. Winner # Unset => found.ok /\ found.val = Winner
              BY <4>1, LayerFields
            <6>3. s = "${X}" \/ s = "${X:-d}" \/ s = "${X-d}"
              BY <3>1 DEF Strings
            <6> HIDE DEF found
            <6>4. Winner # Unset => Eval(s, found) # "error"
              <7>1. CASE s = "${X}"
                BY <6>1, <6>2, <7>1 DEF Eval
              <7>2. CASE s = "${X:-d}"
                BY <6>1, <6>2, <7>2 DEF Eval
              <7>3. CASE s = "${X-d}"
                BY <6>1, <6>2, <7>3 DEF Eval
              <7> QED BY <6>3, <7>1, <7>2, <7>3
            <6> QED BY <4>2, <6>4
          <5>3. pc' = "ready" /\ result' = "error" /\ DOMAIN out' = {}
            BY <5>1 DEF Ends, NothingOut
          <5> QED BY <5>2, <5>3
        <4>3. CASE Eval(s, found) # "error"
          <5>1. out' = [t \in DOMAIN out \cup {s} |-> IF t = s THEN Eval(s, found) ELSE out[t]] /\ pc' = pc
            BY <3>1, <3>3, <4>3
          <5>2. Eval(s, found) = ExpectedOf(s)
            <6>1. /\ Winner # Unset => found.ok /\ found.val = Winner
                  /\ Winner = Unset => ~found.ok
              BY <4>1, LayerFields
            <6>2. s = "${X}" \/ s = "${X:-d}" \/ s = "${X-d}"
              BY <3>1 DEF Strings
            <6> HIDE DEF found
            <6>3. CASE s = "${X}"
              BY <4>3, <6>1, <6>3 DEF Eval, ExpectedOf
            <6>4. CASE s = "${X:-d}"
              BY <6>1, <6>4 DEF Eval, ExpectedOf
            <6>5. CASE s = "${X-d}"
              BY <6>1, <6>5 DEF Eval, ExpectedOf
            <6> QED BY <6>2, <6>3, <6>4, <6>5
          <5>3. DOMAIN out' \ DOMAIN out = {s} /\ out'[s] = ExpectedOf(s)
            BY <3>1, <5>1, <5>2, Zenon
          <5> QED BY <4>1, <5>1, <5>3
        <4> QED BY <4>2, <4>3
      <3> QED BY <3>2, <3>3
    <2>2. CASE EndLoad
      BY <2>2 DEF EndLoad, Ends, NothingOut
    <2>3. CASE EnvChange
      BY <2>3 DEF EnvChange
    <2> QED BY <1>1, <2>1, <2>2, <2>3 DEF Next, FileChange, Coalesce, PathMissing, PathMalformed,
                                         PathFound, NoPath, BeginLoad
  <1>2. ASSUME ChainInv, UNCHANGED vars PROVE Step
    BY <1>2 DEF vars
  <1>3. ChainInv /\ [Next]_vars => [Step]_vars
    BY <1>1, <1>2
  <1> HIDE DEF Step
  <1>4. Spec => [][Step]_vars
    BY <1>3, InitChainInv, NextChainInv, PTL DEF Spec
  <1> QED BY <1>4 DEF HighestLayerWins, Step

-----------------------------------------------------------------------------
(* CoalesceEnvFile                                                         *)

\* During the call, each path that is missing now, or was when the call came to
\* it, is in the history.
CoalesceInv ==
    /\ files \in [Paths -> FileStates]
    /\ idx \in Nat \ {0}
    /\ pc = "coalesce" =>
          /\ {i \in Paths : files[i] = "missing"} \subseteq missed
          /\ \A j \in Paths : j < idx => j \in missed

\* No call has begun.
LEMMA InitCoalesceInv == Init => CoalesceInv
  BY DEF Init, CoalesceInv

\* A call passes over a path only when its file is missing.
LEMMA NextCoalesceInv == CoalesceInv /\ [Next]_vars => CoalesceInv'
  <1> SUFFICES ASSUME CoalesceInv, [Next]_vars PROVE CoalesceInv'
    OBVIOUS
  <1>1. CASE FileChange
    <2>1. PICK i \in Paths, s \in FileStates :
             /\ files' = [files EXCEPT ![i] = s]
             /\ missed' = IF pc = "coalesce" /\ s = "missing" THEN missed \cup {i} ELSE missed
      BY <1>1 DEF FileChange
    <2>2. pc' = pc /\ idx' = idx
      BY <1>1 DEF FileChange
    <2>3. files' \in [Paths -> FileStates]
      BY <2>1 DEF CoalesceInv
    <2>4. ASSUME pc = "coalesce", NEW j \in Paths, files'[j] = "missing" PROVE j \in missed'
      BY <2>1, <2>4 DEF CoalesceInv
    <2> QED BY <2>1, <2>2, <2>3, <2>4 DEF CoalesceInv
  <1>2. CASE Coalesce
    BY <1>2 DEF Coalesce, CoalesceInv, Paths
  <1>3. CASE PathMissing
    <2>1. /\ pc = "coalesce" /\ idx \in Paths /\ files[idx] = "missing" /\ idx' = idx + 1
          /\ UNCHANGED <<files, pc, missed>>
      BY <1>3, NumPathsAssumption DEF PathMissing, CoalesceInv, Paths
    <2>2. ASSUME NEW j \in Paths, j < idx + 1 PROVE j \in missed
      <3>1. j < idx \/ j = idx
        BY <2>2 DEF Paths, CoalesceInv
      <3> QED BY <2>1, <3>1 DEF CoalesceInv
    <2> QED BY <2>1, <2>2 DEF CoalesceInv
  <1>4. CASE PathMalformed \/ PathFound \/ NoPath
    BY <1>4 DEF PathMalformed, PathFound, NoPath, Coalesced, CoalesceInv
  <1>5. CASE EnvChange \/ BeginLoad \/ EndLoad
    BY <1>5 DEF EnvChange, BeginLoad, EndLoad, Ends, CoalesceInv
  <1>6. CASE ExpandString
    <2>1. pc' # "coalesce" /\ UNCHANGED <<files, idx>>
      BY <1>6 DEF ExpandString, Ends
    <2> QED BY <2>1 DEF CoalesceInv
  <1>7. CASE UNCHANGED vars
    BY <1>7 DEF vars, CoalesceInv
  <1> QED BY <1>1, <1>2, <1>3, <1>4, <1>5, <1>6, <1>7 DEF Next

\* Whatever the files do meanwhile, CoalesceEnvFile passes over a path only after it
\* was missing, and ends with what the path it stops at has
\* (src/resolver.go:251-281).
THEOREM FirstFile == Spec => CoalesceTakesTheFirst
  <1> DEFINE Step == pc = "coalesce" /\ pc' # "coalesce" =>
        /\ \A j \in Paths : j < idx => j \in missed
        /\ result' = "error" <=> (idx <= NumPaths /\ files[idx] = "malformed")
        /\ result' = "nil" =>
              envFile' = IF idx <= NumPaths THEN FromMap([n \in {"X"} |-> files[idx]]) ELSE Never
  <1>1. ASSUME CoalesceInv, Next PROVE Step
    <2> SUFFICES ASSUME pc = "coalesce", pc' # "coalesce"
                 PROVE  /\ \A j \in Paths : j < idx => j \in missed
                        /\ result' = "error" <=> (idx <= NumPaths /\ files[idx] = "malformed")
                        /\ result' = "nil" =>
                              envFile' = IF idx <= NumPaths
                                         THEN FromMap([n \in {"X"} |-> files[idx]]) ELSE Never
      OBVIOUS
    <2>1. \A j \in Paths : j < idx => j \in missed
      BY <1>1 DEF CoalesceInv
    <2>2. CASE PathMalformed
      BY <2>1, <2>2 DEF PathMalformed, Coalesced
    <2>3. CASE PathFound
      BY <2>1, <2>3 DEF PathFound, Coalesced, Values, Unset
    <2>4. CASE NoPath
      <3>1. ~(idx <= NumPaths)
        BY <1>1, <2>4, NumPathsAssumption DEF NoPath, CoalesceInv
      <3> QED BY <2>1, <2>4, <3>1 DEF NoPath, Coalesced
    <2> QED BY <1>1, <2>2, <2>3, <2>4
            DEF Next, EnvChange, FileChange, Coalesce, PathMissing, BeginLoad, ExpandString, EndLoad
  <1>2. ASSUME UNCHANGED vars PROVE Step
    BY <1>2 DEF vars
  <1>3. CoalesceInv /\ [Next]_vars => [Step]_vars
    BY <1>1, <1>2
  <1> HIDE DEF Step
  <1>4. Spec => [][Step]_vars
    BY <1>3, InitCoalesceInv, NextCoalesceInv, PTL DEF Spec
  <1> QED BY <1>4 DEF CoalesceTakesTheFirst, Step
=============================================================================
