----------------------------- MODULE Accessors -----------------------------
(***************************************************************************)
(* What the accessors make of the raw value a lookup found (src/get.go,    *)
(* src/configuration.go): per type T a strict accessor (T, error), one     *)
(* with a default (TOr), and the generic Get[T] and GetOr[T].  A raw value *)
(* is abstracted to its class: "missing" for no such key, an explicit      *)
(* "null", an "int", a "numeral" (a string of digits), a "word", a "map",  *)
(* a "list".                                                               *)
(***************************************************************************)

\* "struct" stands for the types package cast does not know; there is no typed
\* accessor for them.
Types == {"string", "int", "map", "struct"}
Typed == Types \ {"struct"}

\* What package cast converts without an error.
Convertible(raw, type) ==
    \/ type = "string" /\ raw \in {"int", "numeral", "word"}
    \/ type = "int" /\ raw \in {"int", "numeral"}
    \/ type = "map" /\ raw = "map"

\* What an accessor returns: a converted value, the zero value, the caller's
\* default, or an error.
Value(raw) == [is |-> "value", raw |-> raw]
Zero == [is |-> "zero"]
Default == [is |-> "default"]
Error(why) == [is |-> "error", why |-> why]

\* The raw value is nil, for a missing key and for a null.
IsNil(raw) == raw \in {"missing", "null"}

\* cast.ToT
Cast(raw, type) == IF Convertible(raw, type) THEN Value(raw) ELSE Zero

\* requireValue or requirePath, then cast.ToTE
Strict(raw, type) ==
    IF IsNil(raw) THEN Error("ErrKeyNotFound")
    ELSE IF Convertible(raw, type) THEN Value(raw) ELSE Error("cast")

\* Bug variant: the default when the key does not exist.
OrIfMissing(raw, type) == IF raw = "missing" THEN Default ELSE Cast(raw, type)

Or(raw, type) == IF IsNil(raw) THEN Default ELSE Cast(raw, type)

\* Get[T]: convertToType calls cast.ToT, for the types cast knows.
Get(raw, type) ==
    IF IsNil(raw) THEN Error("ErrKeyNotFound")
    ELSE IF type = "struct" THEN Error("cannot convert") ELSE Cast(raw, type)

GetOr(raw, type) == IF IsNil(raw) \/ type = "struct" THEN Default ELSE Cast(raw, type)

\* Bug variant: what the lookup returns nil for is not there.
HasValue(raw) == ~IsNil(raw)

\* hasPath: a null is there.
Has(raw) == raw # "missing"
=============================================================================
