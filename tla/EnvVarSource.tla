---------------------------- MODULE EnvVarSource ----------------------------
(***************************************************************************)
(* What a Load of the environment source returns: source.OSEnvVar          *)
(* (src/source/env.go:60-81) takes the variables with its prefix, and      *)
(* codec.EnvVar (src/codec/env.go:32-87) makes a nested map of them: A_B   *)
(* becomes b inside a.  The variables are handled in the order of their    *)
(* names AS BYTES, the keys of the map are their lower-case parts.         *)
(*                                                                         *)
(* A name is what is left of it without the prefix, a sequence of parts of *)
(* one byte and underscores.  The value of a variable is named after it.   *)
(***************************************************************************)
EXTENDS ConfigTree, SequencesExt

\* The order of the bytes, and what ToLower makes of them.
Byte == [c \in {"A", "B", "_", "a", "b"} |->
            CASE c = "A" -> 65 [] c = "B" -> 66 [] c = "_" -> 95 [] c = "a" -> 97 [] c = "b" -> 98]
Lower == [c \in DOMAIN Byte |-> CASE c = "A" -> "a" [] c = "B" -> "b" [] OTHER -> c]

IsName(n) ==
    /\ n # << >> /\ \A i \in 1..Len(n) : n[i] \in DOMAIN Byte
    /\ \A i \in 1..(Len(n) - 1) : n[i] = "_" \/ n[i + 1] = "_"

\* sort.Strings
RECURSIVE Before(_, _)
Before(m, n) ==
    IF m = << >> \/ n = << >> THEN m = << >> /\ n # << >>
    ELSE Byte[Head(m)] < Byte[Head(n)] \/ (Head(m) = Head(n) /\ Before(Tail(m), Tail(n)))

\* Bug variant: the order of map iteration, here the reverse of the sorted one.
SortedReversed(names) == SetToSortSeq(names, LAMBDA m, n : Before(n, m))

Sorted(names) == SetToSortSeq(names, Before)

\* strings.Split(strings.ToLower(key), "_") without the empty parts.
PathOf(name) == SelectSeq([i \in 1..Len(name) |-> Lower[name[i]]], LAMBDA c : c # "_")

PartKey(part) == Key(<<part>>, "lower")

\* Bug variant: a map on the way is made afresh.
RECURSIVE AssignAfresh(_, _, _)
AssignAfresh(m, path, v) ==
    Put(m, PartKey(Head(path)),
        IF Len(path) = 1 THEN v ELSE Node(AssignAfresh(EmptyMap, Tail(path), v)))

\* Assignment at a path: on the way a map is entered and anything else is
\* replaced by one; at the end the value replaces whatever is there.
RECURSIVE Assign(_, _, _)
Assign(m, path, v) ==
    LET k == PartKey(Head(path)) IN
    Put(m, k, IF Len(path) = 1 THEN v
              ELSE Node(Assign(IF k \in DOMAIN m /\ IsNode(m[k]) THEN m[k].map ELSE EmptyMap,
                               Tail(path), v)))

\* A name of underscores only has no parts and is skipped.
DecodeKey(conf, name) ==
    IF PathOf(name) = << >> THEN conf ELSE Assign(conf, PathOf(name), Leaf(name))

\* The map of the variables in names.
Decode(names) == FoldLeft(DecodeKey, EmptyMap, Sorted(names))

Inside(p, q) == Len(p) < Len(q) /\ SubSeq(q, 1, Len(p)) = p
=============================================================================
