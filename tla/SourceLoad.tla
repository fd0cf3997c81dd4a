----------------------------- MODULE SourceLoad -----------------------------
(***************************************************************************)
(* Concurrent calls of Load on ONE source that reads bytes and decodes     *)
(* them, as concurrent calls of Synthra.Load make them.  Its kind is       *)
(*   "file"     source.NewFile: the bytes go through the FIELD f.data      *)
(*   "content"  source.NewFileContent: the field is decoded as it is       *)
(*   "fs"       source.NewFileFS: the bytes stay in a local variable       *)
(*   "consul"   source.NewConsul: as "fs", and a missing key is no error   *)
(*                                                                         *)
(* The field is a Go slice: a pointer and a length, two words of which a   *)
(* racing goroutine can see one without the other.  Version v of the data  *)
(* has length v, so that two versions never have the same length.          *)
(***************************************************************************)
EXTENDS Naturals

CONSTANTS
    Loaders,       \* goroutines that call Load
    Kinds,         \* the kinds of source considered
    EmptyDecodes,  \* the decoder accepts empty input (YAML, TOML, env; not JSON)
    MaxVersion     \* bound on the versions of the data

ASSUME KindsAssumption == Kinds \subseteq {"file", "content", "fs", "consul"}
ASSUME EmptyDecodesAssumption == EmptyDecodes \in BOOLEAN
ASSUME BoundsAssumption == MaxVersion \in Nat \ {0}

VARIABLES
    kind,     \* the kind of the source
    store,    \* the version behind the source, 0: no such file or key
    data,     \* the field f.data
    pc,
    buf,      \* what the read of the call returned
    readErr,  \* the read of the call returned an error
    words,    \* words of the slice the call still has to store or to load
    arg,      \* the slice the call passes to Decode
    result,   \* how the loader's last call ended
    overlaps  \* history: another call was active during the loader's last one

vars == <<kind, store, data, pc, buf, readErr, words, arg, result, overlaps>>

Word == {"ptr", "len"}
Slices == [ptr : 0..MaxVersion, len : 0..MaxVersion]

Whole(v) == [ptr |-> v, len |-> v]
NilSlice == Whole(0)

Content == Whole(MaxVersion)   \* the bytes given to NewFileContent

Active(p) == pc[p] # "idle"

Init ==
    /\ kind \in Kinds
    /\ store \in 0..MaxVersion
    /\ data = IF kind = "content" THEN Content ELSE NilSlice
    /\ pc = [p \in Loaders |-> "idle"]
    /\ buf = [p \in Loaders |-> NilSlice]
    /\ readErr = [p \in Loaders |-> FALSE]
    /\ words = [p \in Loaders |-> {}]
    /\ arg = [p \in Loaders |-> NilSlice]
    /\ result = [p \in Loaders |-> "none"]
    /\ overlaps = [p \in Loaders |-> FALSE]

\* The data is replaced, removed or created by someone else.
StoreChange ==
    /\ store' \in 0..MaxVersion \ {store}
    /\ UNCHANGED <<kind, data, pc, buf, readErr, words, arg, result, overlaps>>

Return(p, how) ==
    /\ pc' = [pc EXCEPT ![p] = "idle"]
    /\ result' = [result EXCEPT ![p] = how]

Call(p) ==
    /\ ~Active(p)
    /\ pc' = [pc EXCEPT ![p] = IF kind = "content" THEN "load" ELSE "read"]
    /\ words' = [words EXCEPT ![p] = Word]
    /\ result' = [result EXCEPT ![p] = "none"]
    /\ readErr' = [readErr EXCEPT ![p] = FALSE]
    /\ overlaps' = [q \in Loaders |->
                      IF q = p THEN \E r \in Loaders : Active(r)
                      ELSE overlaps[q] \/ Active(q)]
    /\ UNCHANGED <<kind, store, data, buf, arg>>

\* os.ReadFile: a missing file is an error; any read may fail, without the bytes
\* or with some that nobody should use.
ReadFile(p) ==
    /\ kind = "file"
    /\ pc[p] = "read"
    /\ \E v \in {0, store} :
        /\ buf' = [buf EXCEPT ![p] = Whole(v)]
        /\ \E failed \in {v = 0, TRUE} : readErr' = [readErr EXCEPT ![p] = failed]
    /\ pc' = [pc EXCEPT ![p] = "store"]
    /\ UNCHANGED <<kind, store, data, words, arg, result, overlaps>>

\* f.data, err = os.ReadFile(f.path): the field is assigned, error or not.
StoreWord(p) ==
    /\ pc[p] = "store"
    /\ \E w \in words[p] :
        /\ data' = [data EXCEPT ![w] = buf[p][w]]
        /\ words' = [words EXCEPT ![p] = @ \ {w}]
    /\ UNCHANGED <<kind, store, pc, buf, readErr, arg, result, overlaps>>

\* Bug variant: the error of os.ReadFile is dropped.
CheckReadForgotten(p) ==
    /\ pc[p] = "store"
    /\ words[p] = {}
    /\ pc' = [pc EXCEPT ![p] = "load"]
    /\ words' = [words EXCEPT ![p] = Word]
    /\ UNCHANGED <<kind, store, data, buf, readErr, arg, result, overlaps>>

CheckRead(p) ==
    /\ pc[p] = "store"
    /\ words[p] = {}
    /\ \/ readErr[p] /\ Return(p, "error") /\ UNCHANGED words
       \/ /\ ~readErr[p]
          /\ pc' = [pc EXCEPT ![p] = "load"]
          /\ words' = [words EXCEPT ![p] = Word]
          /\ UNCHANGED result
    /\ UNCHANGED <<kind, store, data, buf, readErr, arg, overlaps>>

\* The argument f.data of Decode is loaded from the field.
LoadWord(p) ==
    /\ pc[p] = "load"
    /\ \E w \in words[p] :
        /\ arg' = [arg EXCEPT ![p][w] = data[w]]
        /\ words' = [words EXCEPT ![p] = @ \ {w}]
    /\ UNCHANGED <<kind, store, data, pc, buf, readErr, result, overlaps>>

\* fs.ReadFile and kv.Get: the bytes stay with the call.
ReadLocal(p) ==
    /\ kind \in {"fs", "consul"}
    /\ pc[p] = "read"
    /\ store # 0
    /\ buf' = [buf EXCEPT ![p] = Whole(store)]
    /\ arg' = [arg EXCEPT ![p] = Whole(store)]
    /\ words' = [words EXCEPT ![p] = {}]
    /\ pc' = [pc EXCEPT ![p] = "load"]
    /\ UNCHANGED <<kind, store, data, readErr, result, overlaps>>

\* The read fails, always for a missing file.
ReadFails(p) ==
    /\ kind \in {"fs", "consul"}
    /\ pc[p] = "read"
    /\ Return(p, "error")
    /\ readErr' = [readErr EXCEPT ![p] = TRUE]
    /\ buf' = [buf EXCEPT ![p] = NilSlice]
    /\ UNCHANGED <<kind, store, data, words, arg, overlaps>>

\* A missing Consul key loads as an empty map, without the decoder.
KeyMissing(p) ==
    /\ kind = "consul"
    /\ pc[p] = "read"
    /\ store = 0
    /\ Return(p, "nil")
    /\ buf' = [buf EXCEPT ![p] = NilSlice]
    /\ arg' = [arg EXCEPT ![p] = NilSlice]
    /\ UNCHANGED <<kind, store, data, readErr, words, overlaps>>

\* What Decode may do with a slice.  It may find any bytes malformed.  A slice
\* longer than its array reads memory that is not its own, or faults.
Outcomes(s) ==
    IF s.ptr = 0 /\ s.len > 0 THEN {"panic"}
    ELSE IF s.len > s.ptr THEN {"nil", "error", "panic"}
    ELSE IF s.len = 0 THEN IF EmptyDecodes THEN {"nil"} ELSE {"error"}
    ELSE {"nil", "error"}

Decode(p) ==
    /\ pc[p] = "load"
    /\ words[p] = {}
    /\ \E r \in Outcomes(arg[p]) : Return(p, r)
    /\ UNCHANGED <<kind, store, data, buf, readErr, words, arg, overlaps>>

Next ==
    \/ StoreChange
    \/ \E p \in Loaders :
        \/ Call(p) \/ ReadFile(p) \/ StoreWord(p) \/ CheckRead(p) \/ LoadWord(p)
        \/ ReadLocal(p) \/ ReadFails(p) \/ KeyMissing(p) \/ Decode(p)

Spec == Init /\ [][Next]_vars

-----------------------------------------------------------------------------

TypeOK ==
    /\ kind \in Kinds
    /\ store \in 0..MaxVersion
    /\ data \in Slices
    /\ pc \in [Loaders -> {"idle", "read", "store", "load"}]
    /\ buf \in [Loaders -> Slices]
    /\ readErr \in [Loaders -> BOOLEAN]
    /\ words \in [Loaders -> SUBSET Word]
    /\ arg \in [Loaders -> Slices]
    /\ result \in [Loaders -> {"none", "nil", "error", "panic"}]
    /\ overlaps \in [Loaders -> BOOLEAN]

DecodedItsOwnRead(p) ==
    result[p] = "nil" =>
        /\ ~readErr[p]
        /\ arg[p] = IF kind = "content" THEN Content ELSE buf[p]

\* A Load that succeeds decoded exactly the bytes its own read returned, or the
\* bytes the source was made with: never what an earlier call left in the field,
\* another call's read, or bytes that came with an error.  A file source keeps
\* this for calls without overlap only, the other kinds for all
\* (src/source/file.go:64-80, fs.go:42-62, consul.go:75-98).
LoadDecodesItsOwnRead ==
    \A p \in Loaders : DecodedItsOwnRead(p) \/ (kind = "file" /\ overlaps[p])

\* src/source.go:23 says of every source: "Load must be safe to call
\* concurrently."
ConcurrentLoadsDecodeTheirOwnReads == \A p \in Loaders : DecodedItsOwnRead(p)
=============================================================================
