------------------------- MODULE MCBindingDefaults -------------------------
(***************************************************************************)
(* Struct types for BindingDefaults:                                       *)
(*                                                                         *)
(*   type Outer struct {Mid *Middle; In Inner; Size uint8 `default:"300"`; *)
(*                      Bare *Plain; hidden int8 `default:"1"`}            *)
(*   type Middle struct {Leaf *Inner}                                      *)
(*   type Inner struct {N int8 `default:"256"`; D int8 `default:"-2"`}     *)
(*   type Plain struct {N int8}                                            *)
(*   type Broken struct {In Inner; D int8 `default:"x"`}                   *)
(*   type Tree struct {Left *Tree; N int8}                                 *)
(*   type List struct {N int8 `default:"1"`; Next *List}                   *)
(***************************************************************************)
EXTENDS BindingDefaults

Scalar(tag) == [kind |-> "scalar", of |-> "Plain", tag |-> tag, num |-> 0, bits |-> 8,
                signed |-> TRUE, exported |-> TRUE]
Default(n) == [Scalar("good") EXCEPT !.num = n]
Unsigned(f) == [f EXCEPT !.signed = FALSE]
Hidden == [Default(1) EXCEPT !.exported = FALSE]
Pointer(t) == [Scalar("none") EXCEPT !.kind = "pointer", !.of = t]
Struct(t) == [Pointer(t) EXCEPT !.kind = "struct"]

AllTypes == {"Outer", "Middle", "Inner", "Plain", "Broken", "Tree", "List"}
AllFields == [t \in AllTypes |->
    CASE t = "Outer" -> <<Pointer("Middle"), Struct("Inner"), Unsigned(Default(300)),
                          Pointer("Plain"), Hidden>>
      [] t = "Middle" -> <<Pointer("Inner")>>
      [] t = "Inner" -> <<Default(256), Default(-2)>>
      [] t = "Plain" -> <<Scalar("none")>>
      [] t = "Broken" -> <<Struct("Inner"), Scalar("bad")>>
      [] t = "Tree" -> <<Pointer("Tree"), Scalar("none")>>
      [] t = "List" -> <<Default(1), Pointer("List")>>]

\* What decoding may set in an Outer: pointers, and then scalars in what is there.
Start(ps, scs) == [pointers |-> ps, scalars |-> [p \in scs |-> 7]]
OuterStarts ==
    {Start(c[1], c[2]) : c \in {c \in (SUBSET {<<1>>, <<1, 1>>}) \X (SUBSET {<<2, 2>>, <<1, 1, 2>>}) :
        /\ <<1, 1>> \in c[1] => <<1>> \in c[1]
        /\ <<1, 1, 2>> \in c[2] => <<1, 1>> \in c[1]}}

BrokenStarts == {Start({}, scs) : scs \in SUBSET {<<1, 1>>, <<1, 2>>, <<2>>}}

MCStarts == [t \in {"Outer", "Broken", "List", "Tree"} |->
    CASE t = "Outer" -> OuterStarts [] t = "Broken" -> BrokenStarts [] OTHER -> {Start({}, {})}]
=============================================================================
