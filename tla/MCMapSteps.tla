---------------------------- MODULE MCMapSteps ----------------------------
(***************************************************************************)
(* Small instances of MapSteps: two segments, two casings, maps three      *)
(* deep.  The leaves of source i are named after it.                       *)
(***************************************************************************)
EXTENDS MapSteps, ConfigTree

Casings == {"lower", "Upper"}
KeysOver(segments) == {Key(<<s>>, c) : s \in segments, c \in Casings}

\* Maps with at most n keys of a set of keys and values in contents.
MapsOver(keys, contents, n) == UNION {[K -> contents] : K \in {K \in SUBSET keys : Cardinality(K) <= n}}

\* The class of each leaf: an integer, a null, strings.
MCClassOf(leaf) ==
    CASE leaf = "s1" -> "int" [] leaf \in {"s2", "null"} -> "null" [] leaf = "numeral" -> "numeral" [] OTHER -> "word"

Dotted == Key(<<"a", "b">>, "lower")

\* Maps of one or two keys, some of which differ in case only; a literal dotted key
\* and the empty string; a chain of three maps; an array; strings.
MCSourceTrees(i) ==
    LET leaf == Leaf(<<"s1", "s2", "s3">>[i])
        inner == {Node(m) : m \in MapsOver(KeysOver({"b"}), {leaf}, 2)}
        chains == {Node(Put(EmptyMap, k, n)) : k \in KeysOver({"b"}), n \in inner}
        contents == {leaf, List(<<leaf>>), Leaf("word"), Leaf("numeral"), Leaf("null")}
                    \cup {n \in inner : Cardinality(DOMAIN n.map) = 1}
        others == MapsOver(KeysOver({"a"}) \cup {Nameless, Dotted}, contents, 1)
        size == IF i = 1 THEN 1..2 ELSE {2}
    IN  MapsOver(KeysOver({"a", "b"}), {leaf} \cup {n \in inner : Cardinality(DOMAIN n.map) \in size}, 2)
        \cup MapsOver(KeysOver({"a"}), chains, 2) \cup others

\* Paths in one casing; some of them for Set and Delete; and the literal dotted key.
Dots == {[segs |-> p, casing |-> c] : p \in {<<"a">>, <<"b">>, <<"">>, <<"a", "b">>, <<"b", "a">>, <<"a", "">>,
                                             <<"", "b">>, <<"a", "b", "b">>}, c \in Casings}
MCEditPaths == {KeysOf(p) : p \in {d \in Dots : d.casing = "Upper" \/ Len(d.segs) = 3}}
MCPaths == {KeysOf(p) : p \in Dots} \cup {<<Dotted>>} \cup {<<k, l>> : k \in KeysOver({"a"}), l \in KeysOver({"b"})}

MCNewValues == {Leaf("set"), Node(Put(EmptyMap, Key(<<"b">>, "lower"), Leaf("set")))}

\* Call by call, a merge ends with what the recursive operator of ConfigTree says, for
\* every order of the keys (src/synthra.go:184-205).
StepsMakeTheMerge == [][Merged => values' \in DeepMerge(values, Source)]_vars

\* Segment by segment, Set and Delete end with what the recursive operators say
\* (src/configurable.go:51-115).
StepsMakeTheEdit ==
    [][steps' > steps =>
        \A p \in Dots : edit.path = KeysOf(p) =>
            [ok |-> edit.phase = "done", map |-> values'] \in
                IF edit.op = "set" THEN SetAt(values, p, edit.value) ELSE DeleteAt(values, p)]_vars

\* Both: the steps end where the operators do that ConfigPipeline is made of.
StepsMakeTheResult == StepsMakeTheMerge /\ StepsMakeTheEdit
=============================================================================
