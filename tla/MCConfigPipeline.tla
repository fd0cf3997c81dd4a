-------------------------- MODULE MCConfigPipeline --------------------------
(***************************************************************************)
(* Small instances of ConfigPipeline: two segments, two casings, maps two  *)
(* deep.  The leaves of source i are named after it.                       *)
(***************************************************************************)
EXTENDS ConfigPipeline, TLC

Segments == {"a", "b"}
Casings == {"lower", "Upper"}

One(k, v) == Put(EmptyMap, k, v)
A == Key(<<"a">>, "lower")
B == Key(<<"b">>, "Upper")

\* The class of each leaf: a null, an integer, strings.
MCClassOf(leaf) == CASE leaf = <<"s1">> -> "null"
                     [] leaf = <<"s2">> -> "int"
                     [] leaf = <<"set">> -> "word"
                     [] OTHER -> "numeral"

\* Maps over a set of segments, in either casing, with values in contents.
MapsOver(segments, contents) ==
    {EmptyMap} \cup
    UNION {[{Key(<<s>>, f[s]) : s \in S} -> contents]
             : <<S, f>> \in (SUBSET segments \ {{}}) \X [segments -> Casings]}

\* The first source may have a literal dotted key.  Any source may have an array
\* under "a", or the empty string as a key.
MCSourceTrees(i) ==
    LET leaf == Leaf(<<<<"s1", "s2", "s3">>[i]>>)
        inner == {Node(m) : m \in MapsOver({"b"}, {leaf})}
        flat == MapsOver(Segments, {leaf} \cup inner)
        literal == {Put(m, Key(<<"a", "b">>, "lower"), leaf) : m \in flat}
        lists == {List(<<leaf, Node(EmptyMap)>>)} \cup {List(<<n, Node(EmptyMap)>>) : n \in inner}
        arrays == {Put(m, Key(<<"a">>, c), l) : m \in MapsOver({"b"}, {leaf}), c \in Casings, l \in lists}
        nameless == {One(Nameless, v) : v \in inner \cup {leaf}}
                    \cup {One(A, Node(One(Nameless, leaf)))}
    IN  flat \cup arrays \cup nameless \cup IF i = 1 THEN literal ELSE {}

MCPaths == {[segs |-> s, casing |-> c] :
               s \in {<<"a">>, <<"b">>, <<"a", "b">>, <<"b", "b">>}, c \in Casings}
           \cup {[segs |-> s, casing |-> "lower"] :
                    s \in {<<"a", "b", "a">>, <<"b", "b", "a">>, <<"a", "">>, <<"", "b">>}}
MCElementPaths == {[segs |-> <<"a">>, casing |-> "Upper"]}
MCFields == {[segs |-> s, casing |-> "lower"] : s \in {<<"b">>, <<"b", "a">>}}

\* Usual names, and names in lower case or with underscores at the start.
Names == {<<"A">>, <<"B">>, <<"A", "_", "A">>, <<"A", "_", "B">>, <<"B", "_", "B">>, <<"A", "_", "B", "_", "A">>,
          <<"a">>, <<"_", "A">>, <<"A", "_", "_", "B">>, <<"_">>}
MCEnvironments == {E \in SUBSET Names : Cardinality(E) <= 2}

Props(m) == [NoSchema EXCEPT !.props = m]
Pattern(schema) == [NoSchema EXCEPT !.pattern = <<schema>>]
Items(schema) == [NoSchema EXCEPT !.items = <<schema>>]
Prop(default, schema) == [default |-> default, schema |-> schema]
DefaultLeaf == Leaf(<<"default">>)

DefaultB == Props(One(B, Prop(DefaultLeaf, NoSchema)))
ObjectB == Props(One(B, Prop(Node(One(A, DefaultLeaf)), NoSchema)))

\* A property with a default; with defaults inside; with an object as default;
\* with an object as default and defaults inside; two properties; every entry an
\* object whose property B has a default, a leaf or an object; every element of an
\* array such an object.
MCSchemas ==
    {Props(One(A, Prop(DefaultLeaf, NoSchema))),
     Props(One(A, Prop(Missing, DefaultB))),
     Props(One(A, Prop(Node(One(B, DefaultLeaf)), NoSchema))),
     Props(One(A, Prop(Node(One(A, DefaultLeaf)), DefaultB))),
     Props(Put(One(A, Prop(Missing, DefaultB)), B, Prop(DefaultLeaf, NoSchema))),
     Pattern(DefaultB), Pattern(ObjectB),
     Props(One(A, Prop(Missing, Items(DefaultB)))),
     Props(One(A, Prop(Missing, Items(ObjectB))))}

\* Callbacks: a leaf becomes a map with a leaf that is replaced in turn; every map
\* becomes a leaf.
MCCallbacks ==
    {(Leaf(<<"s1">>) :> Node(One(B, Leaf(<<"s3">>)))) @@ (Leaf(<<"s3">>) :> Leaf(<<"walk">>)),
     [tag |-> "map"] :> Leaf(<<"walk">>)}
=============================================================================
