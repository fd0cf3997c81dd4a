------------------------------ MODULE Resolvers ------------------------------
(***************************************************************************)
(* The resolvers of ${VAR} placeholders (src/resolver.go) and the Loads    *)
(* whose WithEnvSubst step uses them (src/options.go:769-902).             *)
(*                                                                         *)
(* A program picks its .env file with CoalesceEnvFile, chains              *)
(*   receiver.Or(envFile).Or(nil).Or(FromMap(defaults))                    *)
(* and calls Load again and again, while the environment and the files     *)
(* change.  The map has three strings with the variable X: ${X}, ${X:-d}   *)
(* and ${X-d}.  They are visited in any order.                             *)
(***************************************************************************)
EXTENDS Naturals, Sequences, FiniteSets

CONSTANTS
    NumPaths,      \* len(paths) of CoalesceEnvFile
    Receivers,     \* names of the receivers the program may use
    DefaultValues  \* values X may have in the map of defaults, or Unset

Unset == "unset"
Values == {Unset, "", "v1"}
Names == {"X", "P_X"}
FileStates == {"missing", "malformed"} \cup Values   \* a value: what X is in it
Paths == 1..NumPaths
Strings == {"${X}", "${X:-d}", "${X-d}"}

ASSUME NumPathsAssumption == NumPaths \in Nat
ASSUME ReceiversAssumption == Receivers \subseteq {"env", "prefixed env", "nil", "prefixed nil"}
ASSUME DefaultsAssumption == DefaultValues \subseteq Values \cup {"v2"}

VARIABLES
    env,       \* the OS environment
    files,     \* the candidate .env files
    pc, idx,
    receiver,  \* the receiver the program chose
    default,   \* the value of X in its map of defaults
    envFile,   \* the resolver CoalesceEnvFile returned
    out,       \* the strings of the map that are expanded
    result,    \* how the last call ended
    missed     \* history: the paths that were missing during CoalesceEnvFile

vars == <<env, files, pc, idx, receiver, default, envFile, out, result, missed>>

-----------------------------------------------------------------------------
(* Resolvers: nil, os.LookupEnv, the closure of FromMap, Prefix and Or.  A *)
(* resolver is what it answers NOW to every name it may be asked for: that *)
(* of the environment reads it live.  A nil one cannot be called.          *)

Absent == [ok |-> FALSE, val |-> ""]
Panic == [ok |-> FALSE, val |-> "panic"]

\* Names with two prefixes or more are in no layer: one stands for them.
Lookups == Names \cup {"other"}
Prefixed(name) == IF name = "X" THEN "P_X" ELSE "other"

NilResolver == [isNil |-> TRUE, answer |-> [n \in Lookups |-> Panic]]
Answering(answer) == [isNil |-> FALSE, answer |-> answer]

LookupIn(m, name) ==
    IF name \notin DOMAIN m \/ m[name] = Unset THEN Absent
    ELSE [ok |-> TRUE, val |-> m[name]]

FromMap(m) == Answering([n \in Lookups |-> LookupIn(m, n)])
Never == FromMap([n \in {} |-> Unset])
FromEnv == FromMap(env)
PrefixOf(r) == Answering([n \in Lookups |-> r.answer[Prefixed(n)]])    \* Prefix("P_")

\* Bug variant: an empty value counts as not found.
FindsNoEmpty(r, name) == ~r.isNil /\ r.answer[name].val # ""

\* The call of resolver r ends the search: it finds the name, or panics.
Finds(r, name) == ~r.isNil /\ r.answer[name] # Absent

\* The receiver, then each fallback.
LookupOr(r, fallbacks, name) ==
    LET found == {i \in DOMAIN fallbacks : Finds(fallbacks[i], name)}
    IN  IF Finds(r, name) THEN r.answer[name]
        ELSE IF found = {} THEN Absent
        ELSE fallbacks[CHOOSE i \in found : \A j \in found : i <= j].answer[name]

\* Bug variant: only the first fallback is kept.
OrOneFallback(r, fallbacks) ==
    IF fallbacks = << >> THEN r
    ELSE Answering([n \in Lookups |-> LookupOr(r, <<fallbacks[1]>>, n)])

Or(r, fallbacks) ==
    IF fallbacks = << >> THEN r
    ELSE Answering([n \in Lookups |-> LookupOr(r, fallbacks, n)])

ReceiverNamed(n) == CASE n = "env" -> FromEnv
                      [] n = "prefixed env" -> PrefixOf(FromEnv)
                      [] n = "nil" -> NilResolver
                      [] n = "prefixed nil" -> PrefixOf(NilResolver)

-----------------------------------------------------------------------------
(* The chain of the program, and CoalesceEnvFile                           *)

Receiver == ReceiverNamed(receiver)
Defaults == FromMap([n \in {"X"} |-> default])
Chain == Or(Or(Or(Receiver, <<envFile>>), <<NilResolver>>), <<Defaults>>)

NothingOut == [s \in {} |-> ""]

Init ==
    /\ env \in [Names -> Values]
    /\ files \in [Paths -> FileStates]
    /\ pc = "start"
    /\ idx = 1
    /\ receiver \in Receivers
    /\ default \in DefaultValues
    /\ envFile = NilResolver
    /\ out = NothingOut
    /\ result = "none"
    /\ missed = {}

EnvChange ==
    /\ \E n \in Names, v \in Values : env' = [env EXCEPT ![n] = v]
    /\ UNCHANGED <<files, pc, idx, receiver, default, envFile, out, result, missed>>

FileChange ==
    /\ pc \in {"start", "coalesce"}
    /\ \E i \in Paths, s \in FileStates :
        /\ files' = [files EXCEPT ![i] = s]
        /\ missed' = IF pc = "coalesce" /\ s = "missing" THEN missed \cup {i} ELSE missed
    /\ UNCHANGED <<env, pc, idx, receiver, default, envFile, out, result>>

Coalesce ==
    /\ pc = "start"
    /\ pc' = "coalesce"
    /\ idx' = 1
    /\ result' = "none"
    /\ missed' = {i \in Paths : files[i] = "missing"}
    /\ UNCHANGED <<env, files, receiver, default, envFile, out>>

\* The call of CoalesceEnvFile ends; the program gives up on an error.
Coalesced(r, how) ==
    /\ pc' = IF how = "nil" THEN "ready" ELSE "start"
    /\ envFile' = r
    /\ result' = how
    /\ missed' = {}
    /\ UNCHANGED <<env, files, idx, receiver, default, out>>

\* Bug variant: a file that cannot be parsed is skipped too.
PathMissingOrMalformed ==
    /\ pc = "coalesce" /\ idx <= NumPaths /\ files[idx] \in {"missing", "malformed"}
    /\ idx' = idx + 1
    /\ UNCHANGED <<env, files, pc, receiver, default, envFile, out, result, missed>>

PathMissing ==
    /\ pc = "coalesce" /\ idx <= NumPaths /\ files[idx] = "missing"
    /\ idx' = idx + 1
    /\ UNCHANGED <<env, files, pc, receiver, default, envFile, out, result, missed>>

PathMalformed ==
    /\ pc = "coalesce" /\ idx <= NumPaths /\ files[idx] = "malformed"
    /\ Coalesced(NilResolver, "error")

PathFound ==
    /\ pc = "coalesce" /\ idx <= NumPaths /\ files[idx] \in Values
    /\ Coalesced(FromMap([n \in {"X"} |-> files[idx]]), "nil")

NoPath ==
    /\ pc = "coalesce" /\ idx > NumPaths
    /\ Coalesced(Never, "nil")

-----------------------------------------------------------------------------
(* The substitution step of a Load                                         *)

BeginLoad ==
    /\ pc = "ready"
    /\ pc' = "expand"
    /\ out' = NothingOut
    /\ result' = "none"
    /\ UNCHANGED <<env, files, idx, receiver, default, envFile, missed>>

\* What envsubst.Eval makes of string s: "error" for ${X} without a value.
Eval(s, found) ==
    CASE s = "${X}" -> IF found.ok THEN found.val ELSE "error"
      [] s = "${X:-d}" -> IF found.ok /\ found.val # "" THEN found.val ELSE "d"
      [] s = "${X-d}" -> IF found.ok THEN found.val ELSE "d"

Ends(how) == pc' = "ready" /\ result' = how /\ out' = NothingOut

\* One string of the map is looked up and assigned; an error ends the Load.
ExpandString ==
    /\ pc = "expand"
    /\ \E s \in Strings \ DOMAIN out :
        LET found == Chain.answer["X"]
            v == Eval(s, found)
        IN  CASE found = Panic -> Ends("panic")
              [] found # Panic /\ v = "error" -> Ends("error")
              [] OTHER -> /\ out' = [t \in DOMAIN out \cup {s} |-> IF t = s THEN v ELSE out[t]]
                          /\ UNCHANGED <<pc, result>>
    /\ UNCHANGED <<env, files, idx, receiver, default, envFile, missed>>

EndLoad ==
    /\ pc = "expand"
    /\ DOMAIN out = Strings
    /\ Ends("nil")
    /\ UNCHANGED <<env, files, idx, receiver, default, envFile, missed>>

Next ==
    \/ EnvChange \/ FileChange
    \/ Coalesce \/ PathMissing \/ PathMalformed \/ PathFound \/ NoPath
    \/ BeginLoad \/ ExpandString \/ EndLoad

Spec == Init /\ [][Next]_vars

-----------------------------------------------------------------------------

\* The value of X in every layer, the highest first.
LayerValues ==
    <<CASE receiver = "env" -> env["X"]
        [] receiver = "prefixed env" -> env["P_X"]
        [] OTHER -> Unset,
      IF envFile.answer["X"].ok THEN envFile.answer["X"].val ELSE Unset,
      default>>

Winner == LET set == {i \in 1..3 : LayerValues[i] # Unset} IN
          IF set = {} THEN Unset
          ELSE LayerValues[CHOOSE i \in set : \A j \in set : i <= j]

ExpectedOf(s) ==
    CASE s = "${X}" -> Winner
      [] s = "${X:-d}" -> IF Winner \in {Unset, ""} THEN "d" ELSE Winner
      [] s = "${X-d}" -> IF Winner = Unset THEN "d" ELSE Winner

\* Every placeholder gets the value of the highest layer that has the variable
\* at that moment: the environment is read live, the .env file as it was when
\* it was opened, an empty value shadows the layers below, and a nil resolver is
\* no layer (src/resolver.go:105-164, 53-64).  Without a value ${X} ends the Load
\* with an error (src/options.go:858-862); only a prefixed nil resolver, which is
\* called, makes it panic (src/resolver.go:91-98).
HighestLayerWins ==
    [][pc = "expand" =>
        /\ \A s \in DOMAIN out' \ DOMAIN out : out'[s] = ExpectedOf(s) /\ receiver # "prefixed nil"
        /\ pc' = "ready" /\ result' = "error" => Winner = Unset
        /\ pc' = "ready" /\ result' = "panic" => receiver = "prefixed nil"]_vars

\* CoalesceEnvFile answers from the first path that exists: whatever it
\* returns, each path before it was missing at some moment of the call; an
\* error means that a file was malformed (src/resolver.go:251-281).
CoalesceTakesTheFirst ==
    [][pc = "coalesce" /\ pc' # "coalesce" =>
        /\ \A j \in Paths : j < idx => j \in missed
        /\ result' = "error" <=> (idx <= NumPaths /\ files[idx] = "malformed")
        /\ result' = "nil" =>
              envFile' = IF idx <= NumPaths THEN FromMap([n \in {"X"} |-> files[idx]]) ELSE Never]_vars

\* The layers of the chain may be nested in any way or listed, and Prefix taken
\* before or after Or: the same resolver results, whatever the environment and
\* the files are (src/resolver.go:91-98, 144-164).
OrIsAssociative ==
    LET layers == {Receiver, envFile, Defaults} IN
    \A a, b, c \in layers : \A n \in Names :
        /\ Or(Or(a, <<b>>), <<c>>).answer[n] = Or(a, <<b, c>>).answer[n]
        /\ ~a.isNil /\ ~b.isNil =>
               PrefixOf(Or(a, <<b>>)).answer[n] = Or(PrefixOf(a), <<PrefixOf(b)>>).answer[n]
=============================================================================
