-------------------------- MODULE BindingDefaults --------------------------
(***************************************************************************)
(* Applying the `default` tags of a bound struct: setDefaults              *)
(* (src/binding.go:56-108) walks the value, and structHasDefaults with     *)
(* scanDefaults (src/binding.go:112-140) tells whether a type is worth the *)
(* walk.  What it tells is cached in defaultsCache, which every Synthra of *)
(* the program shares: loadMu of one does not serialize the others.        *)
(*                                                                         *)
(* The recursion is a stack of frames per goroutine.  A value is the set   *)
(* of its nodes (the pointers that are not nil) and its scalars that are   *)
(* not zero; a place in it is the path of field numbers from the root.     *)
(* A scalar is a number of the field's width; a negative one is stood for  *)
(* by its two's complement.                                                *)
(***************************************************************************)
EXTENDS Integers, Sequences, SequencesExt, FiniteSets

CONSTANTS
    Goroutines,   \* each loads a Synthra of its own
    Types,        \* struct types
    Fields,       \* Fields[t]: the fields of t, records of FieldSet
    Starts,       \* Starts[t]: what decoding may leave in a bound struct of type t,
                  \* records of a set of paths, pointers, and of the scalars that
                  \* are not zero, a function from paths
    StackLimit    \* frames a goroutine's stack holds

\* kind "pointer" is a pointer to a struct; of is the type, for a scalar any.  A good
\* tag is the number num, a bad one none that package cast reads: no number, or a
\* negative one for an unsigned field.
FieldSet == [kind : {"scalar", "struct", "pointer"}, of : Types,
             tag : {"none", "good", "bad"}, num : Int, bits : Nat \ {0}, signed : BOOLEAN,
             exported : BOOLEAN]

ASSUME TypesAssumption == IsFiniteSet(Types)
ASSUME FieldsAssumption == \A t \in Types : Fields[t] \in Seq(FieldSet)
ASSUME StartsAssumption == DOMAIN Starts \subseteq Types

\* A stack has room for a walk through structs of distinct types, with the scan of
\* the last.
ASSUME StackAssumption == StackLimit \in Nat /\ StackLimit >= Cardinality(Types) + 2

VARIABLES
    defaultsCache,  \* the types cached so far and what is cached
    stack,          \* the frames of each goroutine, the running one last
    ret,            \* what the structHasDefaults call that just ended returned
    root,           \* the type of each bound struct
    start,          \* history: the value setDefaults was given
    pointers,       \* the pointers of the value that are not nil
    scalars,        \* the scalars of the value that are not zero, and their values
    result          \* "none", "ok", "error", or "overflow"

vars == <<defaultsCache, stack, ret, root, start, pointers, scalars, result>>

\* A frame of a call; setDefaults asks for its type before the first field.
Frame(call, typ, path) == [call |-> call, typ |-> typ, i |-> IF call = "set" THEN 0 ELSE 1, path |-> path]

Running(g) == result[g] = "none" /\ stack[g] # << >> /\ Len(stack[g]) < StackLimit
Top(g) == Last(stack[g])
Ended(g) == Top(g).i > Len(Fields[Top(g).typ])
Field(g) == Fields[Top(g).typ][Top(g).i]
Place(g) == Append(Top(g).path, Top(g).i)
InCall(g, call) == Running(g) /\ Top(g).call = call
InField(g, call) == InCall(g, call) /\ Top(g).i > 0 /\ ~Ended(g)

\* The stack after the top frame went on to its next field.
Advanced(g) == [stack[g] EXCEPT ![Len(stack[g])].i = @ + 1]

\* What structHasDefaults(typ) answers at once: what the call made for it
\* returned, or what the cache holds.
Answers(g, typ, has) ==
    IF ret[g] # << >> THEN ret[g][1] = has
    ELSE typ \in DOMAIN defaultsCache /\ defaultsCache[typ] = has

Init ==
    /\ defaultsCache = [t \in {} |-> FALSE]
    /\ stack = [g \in Goroutines |-> << >>]
    /\ ret = [g \in Goroutines |-> << >>]
    /\ root \in [Goroutines -> DOMAIN Starts]
    /\ start = [g \in Goroutines |-> [pointers |-> {}, scalars |-> << >>]]
    /\ pointers = [g \in Goroutines |-> {}]
    /\ scalars = [g \in Goroutines |-> << >>]
    /\ result = [g \in Goroutines |-> "none"]

\* A Load decoded its values and calls applyDefaults.
ApplyDefaults(g) ==
    /\ stack[g] = << >>
    /\ result[g] = "none"
    /\ start' \in {[start EXCEPT ![g] = s] : s \in Starts[root[g]]}
    /\ pointers' = [pointers EXCEPT ![g] = start'[g].pointers]
    /\ scalars' = [scalars EXCEPT ![g] = start'[g].scalars]
    /\ stack' = [stack EXCEPT ![g] = <<Frame("set", root[g], << >>)>>]
    /\ UNCHANGED <<defaultsCache, ret, root, result>>

\* The next frames of g; the value is as it was, and ret is used up.
Goes(g, frames) ==
    /\ stack' = [stack EXCEPT ![g] = frames]
    /\ ret' = [ret EXCEPT ![g] = << >>]

ValueKept == UNCHANGED <<root, start, pointers, scalars>>

-----------------------------------------------------------------------------
\* structHasDefaults and scanDefaults

\* Bug variant: the type is entered in the cache before it is scanned, to stop
\* the recursion.
ScanMarks(g, typ) ==
    /\ ret[g] = << >> /\ typ \notin DOMAIN defaultsCache
    /\ Goes(g, Append(stack[g], Frame("scan", typ, << >>)))
    /\ defaultsCache' = [t \in DOMAIN defaultsCache \cup {typ} |->
                            IF t = typ THEN FALSE ELSE defaultsCache[t]]
    /\ ValueKept /\ UNCHANGED result

\* The cache has no answer: scan the type.
Scan(g, typ) ==
    /\ ret[g] = << >> /\ typ \notin DOMAIN defaultsCache
    /\ Goes(g, Append(stack[g], Frame("scan", typ, << >>)))
    /\ ValueKept /\ UNCHANGED <<defaultsCache, result>>

\* scanDefaults returns, structHasDefaults stores the answer and returns it.
ScanReturns(g, has) ==
    /\ defaultsCache' = [t \in DOMAIN defaultsCache \cup {Top(g).typ} |->
                            IF t = Top(g).typ THEN has ELSE defaultsCache[t]]
    /\ stack' = [stack EXCEPT ![g] = Front(@)]
    /\ ret' = [ret EXCEPT ![g] = <<has>>]
    /\ ValueKept /\ UNCHANGED result

\* Fields that hold a struct, directly or behind a pointer.
Nested(f) == f.kind \in {"struct", "pointer"}

ScanField(g) ==
    /\ InField(g, "scan")
    /\ LET f == Field(g) IN
       \/ /\ ~f.exported \/ (f.tag = "none" /\ ~Nested(f))
          /\ Goes(g, Advanced(g))
          /\ ValueKept /\ UNCHANGED <<defaultsCache, result>>
       \/ /\ f.exported /\ f.tag # "none"
          /\ ScanReturns(g, TRUE)
       \/ /\ f.exported /\ f.tag = "none" /\ Nested(f)
          /\ \/ Scan(g, f.of)
             \/ Answers(g, f.of, TRUE) /\ ScanReturns(g, TRUE)
             \/ /\ Answers(g, f.of, FALSE)
                /\ Goes(g, Advanced(g))
                /\ ValueKept /\ UNCHANGED <<defaultsCache, result>>

ScanEnds(g) ==
    /\ InCall(g, "scan") /\ Ended(g)
    /\ ScanReturns(g, FALSE)

-----------------------------------------------------------------------------
\* setDefaults

\* The struct is done: back to the caller.
SetReturns(g) ==
    /\ Goes(g, Front(stack[g]))
    /\ result' = [result EXCEPT ![g] = IF Len(stack[g]) = 1 THEN "ok" ELSE @]
    /\ ValueKept /\ UNCHANGED defaultsCache

SetBegins(g) ==
    /\ InCall(g, "set") /\ Top(g).i = 0
    /\ \/ Scan(g, Top(g).typ)
       \/ Answers(g, Top(g).typ, FALSE) /\ SetReturns(g)
       \/ /\ Answers(g, Top(g).typ, TRUE)
          /\ Goes(g, Advanced(g))
          /\ ValueKept /\ UNCHANGED <<defaultsCache, result>>

SetEnds(g) == InCall(g, "set") /\ Ended(g) /\ SetReturns(g)

\* Bug variant: the walk comes back to the same field.
EnterAgain(g) == Goes(g, Append(stack[g], Frame("set", Field(g).of, Place(g))))

\* Bug variant: the walk enters the struct it is in.
EnterSame(g) == Goes(g, Append(Advanced(g), Frame("set", Top(g).typ, Top(g).path)))

\* The walk enters the struct of the field, and then goes on after it.
Enter(g) == Goes(g, Append(Advanced(g), Frame("set", Field(g).of, Place(g))))

SkipField(g) == Goes(g, Advanced(g)) /\ ValueKept /\ UNCHANGED <<defaultsCache, result>>

SetStruct(g) ==
    /\ InField(g, "set") /\ Field(g).exported
    /\ \/ Field(g).kind = "struct"
       \/ Field(g).kind = "pointer" /\ Place(g) \in pointers[g]
    /\ Enter(g)
    /\ ValueKept /\ UNCHANGED <<defaultsCache, result>>

\* Bug variant: a nil pointer is left alone.
SetNilPointerSkips(g) ==
    /\ InField(g, "set") /\ Field(g).exported
    /\ Field(g).kind = "pointer" /\ Place(g) \notin pointers[g]
    /\ SkipField(g)

\* A nil pointer is given a struct when the type has defaults.
SetNilPointer(g) ==
    /\ InField(g, "set") /\ Field(g).exported
    /\ Field(g).kind = "pointer" /\ Place(g) \notin pointers[g]
    /\ \/ Scan(g, Field(g).of)
       \/ Answers(g, Field(g).of, FALSE) /\ SkipField(g)
       \/ /\ Answers(g, Field(g).of, TRUE)
          /\ pointers' = [pointers EXCEPT ![g] = @ \cup {Place(g)}]
          /\ Enter(g)
          /\ UNCHANGED <<defaultsCache, root, start, scalars, result>>

\* reflect's SetInt and SetUint keep the low bits of a number that does not fit.
SetDefaultValue(f) == f.num % 2^f.bits

\* A scalar that is zero is none of those in scalars.
WithScalar(g, n) ==
    IF n = 0 THEN scalars[g]
    ELSE [p \in DOMAIN scalars[g] \cup {Place(g)} |-> IF p = Place(g) THEN n ELSE scalars[g][p]]

\* A scalar: it keeps its value, gets its default, or the tag does not parse.
SetScalar(g) ==
    /\ InField(g, "set")
    /\ LET f == Field(g) IN
       \/ /\ ~f.exported \/ (f.kind = "scalar" /\ (f.tag = "none" \/ Place(g) \in DOMAIN scalars[g]))
          /\ SkipField(g)
       \/ /\ f.exported /\ f.kind = "scalar" /\ Place(g) \notin DOMAIN scalars[g] /\ f.tag = "good"
          /\ scalars' = [scalars EXCEPT ![g] = WithScalar(g, SetDefaultValue(f))]
          /\ Goes(g, Advanced(g))
          /\ UNCHANGED <<defaultsCache, root, start, pointers, result>>
       \/ /\ f.exported /\ f.kind = "scalar" /\ Place(g) \notin DOMAIN scalars[g] /\ f.tag = "bad"
          /\ Goes(g, << >>)
          /\ result' = [result EXCEPT ![g] = "error"]
          /\ ValueKept /\ UNCHANGED defaultsCache

\* The recursion does not fit on the stack: the runtime ends the program.
Overflow(g) ==
    /\ Len(stack[g]) = StackLimit
    /\ result[g] = "none"
    /\ result' = [h \in Goroutines |-> "overflow"]
    /\ UNCHANGED <<defaultsCache, stack, ret, root, start, pointers, scalars>>

Step(g) ==
    \/ ScanField(g) \/ ScanEnds(g)
    \/ SetBegins(g) \/ SetEnds(g) \/ SetStruct(g) \/ SetNilPointer(g) \/ SetScalar(g)

Next == \E g \in Goroutines : ApplyDefaults(g) \/ Step(g) \/ Overflow(g)

\* A goroutine in the middle of a call goes on.
Spec == Init /\ [][Next]_vars
FairSpec == Spec /\ \A g \in Goroutines : WF_vars(Step(g) \/ Overflow(g))

-----------------------------------------------------------------------------

\* The fields setDefaults can see, and the types that have a tag among their
\* fields or, n structs deep, behind them.
Seen(t) == {i \in DOMAIN Fields[t] : Fields[t][i].exported}
CarriersTo[n \in 0..Cardinality(Types)] ==
    IF n = 0 THEN {t \in Types : \E i \in Seen(t) : Fields[t][i].tag # "none"}
    ELSE LET near == CarriersTo[n - 1] IN
         near \cup {t \in Types : \E i \in Seen(t) : Fields[t][i].kind # "scalar" /\ Fields[t][i].of \in near}
Carriers == CarriersTo[Cardinality(Types)]

\* The fields of the struct s, a place and a type, that hold a struct.
Held(s, ps) == {j \in Seen(s[2]) :
                  \/ Fields[s[2]][j].kind = "struct"
                  \/ Fields[s[2]][j].kind = "pointer" /\ Append(s[1], j) \in ps}

\* The structs in a value of type t whose pointers ps are not nil: their places and types.
Nodes(t, ps) ==
    LET nodes[n \in 0..Cardinality(Types)] ==   \* to a depth of n
            IF n = 0 THEN {<< << >>, t >>}
            ELSE LET near == nodes[n - 1] IN
                 near \cup UNION {{<<Append(s[1], j), Fields[s[2]][j].of>> : j \in Held(s, ps)} : s \in near}
    IN  nodes[Cardinality(Types)]

\* The fields in the value of g: their places and what they are.
FieldsIn(g) == UNION {{<<Append(s[1], j), Fields[s[2]][j]>> : j \in Seen(s[2])} :
                         s \in Nodes(root[g], pointers[g])}

\* The cache never tells a wrong thing about a type, whatever goroutines scan
\* it at the same time: "reports whether typ or any of its nested structs carry
\* at least one `default` tag" (src/binding.go:110-111).
CacheIsRight ==
    \A t \in DOMAIN defaultsCache : defaultsCache[t] = (t \in Carriers)

\* The number a field holds whose scalar is n, and the numbers it can hold.
Number(f, n) == IF f.signed /\ n >= 2^(f.bits - 1) THEN n - 2^f.bits ELSE n
Fits(f) == \E n \in 0..2^f.bits - 1 : Number(f, n) = f.num
ScalarAt(scs, p) == IF p \in DOMAIN scs THEN scs[p] ELSE 0

\* A walk that succeeds gave every tagged scalar that was zero the number of its tag,
\* when the field can hold it, in the structs that were there and behind the nil
\* pointers whose types have defaults; it kept what decoding had set, and made
\* nothing else.  A number that does not fit becomes another one without an
\* error, and may become zero (src/binding.go:56-184).
DefaultsAreComplete ==
    \A g \in Goroutines : result[g] = "ok" =>
        /\ \A f \in FieldsIn(g) :
             /\ f[2].kind = "scalar" /\ f[2].tag # "none" /\ f[1] \notin DOMAIN start[g].scalars
                  /\ Fits(f[2]) => Number(f[2], ScalarAt(scalars[g], f[1])) = f[2].num
             /\ f[2].kind = "pointer" /\ f[2].of \in Carriers => f[1] \in pointers[g]
        /\ start[g].pointers \subseteq pointers[g]
        /\ \A p \in DOMAIN start[g].scalars : ScalarAt(scalars[g], p) = start[g].scalars[p]
        /\ \A p \in pointers[g] \ start[g].pointers :
             \E f \in FieldsIn(g) : f[1] = p /\ f[2].of \in Carriers
        /\ \A p \in DOMAIN scalars[g] \ DOMAIN start[g].scalars :
             \E f \in FieldsIn(g) : f[1] = p /\ f[2].tag = "good"

\* Every applyDefaults call returns, unless the program ends
\* (src/binding.go:41-53).
CallReturns ==
    \A g \in Goroutines : stack[g] # << >> ~> stack[g] = << >> \/ result[g] = "overflow"

\* The types whose values may hold one of the types ts.
Holders(ts) ==
    LET holders[n \in 0..Cardinality(Types)] ==   \* at most n structs deep
            IF n = 0 THEN {}
            ELSE LET near == holders[n - 1] IN
                 near \cup {t \in Types : \E i \in Seen(t) :
                               Fields[t][i].kind # "scalar" /\ Fields[t][i].of \in ts \cup near}
    IN  holders[Cardinality(Types)]
Recursive == {t \in Types : t \in Holders({t})}

\* The recursion is as deep as the types are nested: only a bound struct that
\* holds a recursive type can exhaust the stack (src/binding.go:63-90 and 123-140).
OnlyRecursiveTypesOverflow ==
    (\E g \in Goroutines : result[g] = "overflow") =>
        \E g \in Goroutines : root[g] \in Recursive \cup Holders(Recursive)
=============================================================================
