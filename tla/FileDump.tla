------------------------------ MODULE FileDump ------------------------------
(***************************************************************************)
(* Synthra.Dump (src/synthra.go:319-333) with file dumpers: it takes one   *)
(* snapshot of the configuration and gives it to the dumpers in turn; each *)
(* encodes it and calls os.WriteFile, which opens the file with O_TRUNC,   *)
(* then writes block after block at its own offset                         *)
(* (src/dumper/file.go:73-84).                                             *)
(*                                                                         *)
(* A map is the version of the configuration and whether a dumper, or the  *)
(* encoder of a file dumper, changed a top-level key of it since.  Its     *)
(* encoding is one block longer for every version, so that a short dump    *)
(* can follow a long one.                                                  *)
(***************************************************************************)
EXTENDS Naturals, Sequences

CONSTANTS
    Callers,     \* goroutines that call Dump
    NumDumpers,  \* len(c.dumpers): file dumpers, each with a file of its own
    MaxVersion   \* bound on the versions of the configuration

ASSUME NumDumpersAssumption == NumDumpers \in Nat \ {0}
ASSUME DumpBoundsAssumption == MaxVersion \in Nat

VARIABLES
    config,   \* the map of the stored configuration
    files,    \* blocks of every file
    pc,
    idx,      \* index of the dumper the call is at
    snap,     \* valuesCopy
    off,      \* blocks written through the call's file descriptor
    result,   \* how the caller's last call ended
    before,   \* history: the files when the call began, if no other overlapped it
    overlaps, \* history: another call was active during this one
    editor    \* history: the first dumper of the call that changed its map, or 0

vars == <<config, files, pc, idx, snap, off, result, before, overlaps, editor>>

Dumpers == 1..NumDumpers
Versions == 0..MaxVersion
Maps == [version : Versions, edited : BOOLEAN]
Loaded(v) == [version |-> v, edited |-> FALSE]
Size(m) == m.version + 1
Whole(m) == [b \in 1..Size(m) |-> m]
NoFiles == [d \in Dumpers |-> << >>]
\* A block nobody wrote, before the end of the file.
Hole == [version |-> MaxVersion + 1, edited |-> FALSE]

Active(p) == pc[p] # "idle"

Init ==
    /\ config = Loaded(0)
    /\ files = [d \in Dumpers |-> Whole(Loaded(0))]
    /\ pc = [p \in Callers |-> "idle"]
    /\ idx = [p \in Callers |-> 1]
    /\ snap = [p \in Callers |-> Loaded(0)]
    /\ off = [p \in Callers |-> 0]
    /\ result = [p \in Callers |-> "none"]
    /\ before = [p \in Callers |-> NoFiles]
    /\ overlaps = [p \in Callers |-> FALSE]
    /\ editor = [p \in Callers |-> 0]

\* A Load stores a new configuration.
ConfigChange ==
    /\ config' \in {Loaded(v) : v \in Versions} \ {config}
    /\ UNCHANGED <<files, pc, idx, snap, off, result, before, overlaps, editor>>

Begin(p) ==
    /\ ~Active(p)
    /\ pc' = [pc EXCEPT ![p] = "encode"]
    /\ idx' = [idx EXCEPT ![p] = 1]
    /\ snap' = [snap EXCEPT ![p] = config]
    /\ result' = [result EXCEPT ![p] = "none"]
    /\ overlaps' = [q \in Callers |->
                      IF q = p THEN \E r \in Callers : Active(r)
                      ELSE overlaps[q] \/ Active(q)]
    /\ before' = [q \in Callers |-> IF overlaps'[q] THEN NoFiles
                                   ELSE IF q = p THEN files ELSE before[q]]
    /\ UNCHANGED <<config, files, off, editor>>

\* Dump(nil) fails before it does anything.
BeginNilContext(p) ==
    /\ ~Active(p)
    /\ result' = [result EXCEPT ![p] = "error"]
    /\ UNCHANGED <<config, files, pc, idx, snap, off, before, overlaps, editor>>

\* The call is over: its locals are gone.
Leave(p, how) ==
    /\ pc' = [pc EXCEPT ![p] = "idle"]
    /\ idx' = [idx EXCEPT ![p] = 1]
    /\ snap' = [snap EXCEPT ![p] = Loaded(0)]
    /\ off' = [off EXCEPT ![p] = 0]
    /\ result' = [result EXCEPT ![p] = how]
    /\ before' = [before EXCEPT ![p] = NoFiles]
    /\ overlaps' = [overlaps EXCEPT ![p] = FALSE]
    /\ editor' = [editor EXCEPT ![p] = 0]

\* The first failing dumper ends the call.
Fail(p) == Leave(p, "error") /\ UNCHANGED <<config, files>>

\* Bug variant: the dumpers are given the map of the configuration itself.
EditMapOfReaders(p) ==
    /\ pc[p] = "encode"
    /\ ~snap[p].edited
    /\ snap' = [snap EXCEPT ![p].edited = TRUE]
    /\ config' = [config EXCEPT !.edited = config.version = snap[p].version]
    /\ editor' = [editor EXCEPT ![p] = idx[p]]
    /\ UNCHANGED <<files, pc, idx, off, result, before, overlaps>>

\* The encoder of a file dumper, or a dumper of the caller's before it, changes
\* top-level keys of the map it is given: of the clone, which only the rest of
\* this call sees.
EditMap(p) ==
    /\ pc[p] = "encode"
    /\ ~snap[p].edited
    /\ snap' = [snap EXCEPT ![p].edited = TRUE]
    /\ editor' = [editor EXCEPT ![p] = idx[p]]
    /\ UNCHANGED <<config, files, pc, idx, off, result, before, overlaps>>

\* Bug variant: the file is opened before the values are encoded.
EncodeTruncates(p) ==
    /\ pc[p] = "encode"
    /\ files' = [files EXCEPT ![idx[p]] = << >>]
    /\ pc' = [pc EXCEPT ![p] = "open"]
    /\ UNCHANGED <<config, idx, snap, off, result, before, overlaps, editor>>

Encode(p) ==
    /\ pc[p] = "encode"
    /\ pc' = [pc EXCEPT ![p] = "open"]
    /\ UNCHANGED <<config, files, idx, snap, off, result, before, overlaps, editor>>

EncodeFails(p) == pc[p] = "encode" /\ Fail(p)

\* os.OpenFile(name, O_WRONLY|O_CREATE|O_TRUNC, perm)
Open(p) ==
    /\ pc[p] = "open"
    /\ files' = [files EXCEPT ![idx[p]] = << >>]
    /\ off' = [off EXCEPT ![p] = 0]
    /\ pc' = [pc EXCEPT ![p] = "write"]
    /\ UNCHANGED <<config, idx, snap, result, before, overlaps, editor>>

OpenFails(p) == pc[p] = "open" /\ Fail(p)

\* Block n of a file is written; blocks skipped over become a hole.
WriteAt(file, n, v) ==
    [b \in 1..(IF n > Len(file) THEN n ELSE Len(file)) |->
        IF b = n THEN v ELSE IF b <= Len(file) THEN file[b] ELSE Hole]

Write(p) ==
    /\ pc[p] = "write"
    /\ off[p] < Size(snap[p])
    /\ files' = [files EXCEPT ![idx[p]] = WriteAt(@, off[p] + 1, snap[p])]
    /\ off' = [off EXCEPT ![p] = @ + 1]
    /\ UNCHANGED <<config, pc, idx, snap, result, before, overlaps, editor>>

\* Writing a block fails, or closing the file after the last one.
WriteFails(p) == pc[p] = "write" /\ Fail(p)

\* Bug variant: every dumper is given the configuration of the moment.
NextDumperRereads(p) ==
    /\ pc[p] = "write" /\ off[p] = Size(snap[p]) /\ idx[p] < NumDumpers
    /\ idx' = [idx EXCEPT ![p] = @ + 1]
    /\ pc' = [pc EXCEPT ![p] = "encode"]
    /\ snap' = [snap EXCEPT ![p] = config]
    /\ UNCHANGED <<config, files, off, result, before, overlaps, editor>>

\* The file is closed and the next dumper is called.
NextDumper(p) ==
    /\ pc[p] = "write" /\ off[p] = Size(snap[p]) /\ idx[p] < NumDumpers
    /\ idx' = [idx EXCEPT ![p] = @ + 1]
    /\ pc' = [pc EXCEPT ![p] = "encode"]
    /\ UNCHANGED <<config, files, snap, off, result, before, overlaps, editor>>

\* The last file is closed and Dump returns.
Return(p) ==
    /\ pc[p] = "write" /\ off[p] = Size(snap[p]) /\ idx[p] = NumDumpers
    /\ Leave(p, "nil")
    /\ UNCHANGED <<config, files>>

\* The process is killed and started again: every call is gone, the files stay.
Crash ==
    /\ \E p \in Callers : Active(p)
    /\ pc' = [p \in Callers |-> "idle"]
    /\ idx' = [p \in Callers |-> 1]
    /\ snap' = [p \in Callers |-> Loaded(0)]
    /\ off' = [p \in Callers |-> 0]
    /\ result' = [p \in Callers |-> "none"]
    /\ before' = [p \in Callers |-> NoFiles]
    /\ overlaps' = [p \in Callers |-> FALSE]
    /\ editor' = [p \in Callers |-> 0]
    /\ UNCHANGED <<config, files>>

Next ==
    \/ ConfigChange
    \/ Crash
    \/ \E p \in Callers :
        \/ Begin(p) \/ BeginNilContext(p)
        \/ EditMap(p) \/ Encode(p) \/ EncodeFails(p) \/ Open(p) \/ OpenFails(p)
        \/ Write(p) \/ WriteFails(p) \/ NextDumper(p) \/ Return(p)

Spec == Init /\ [][Next]_vars

-----------------------------------------------------------------------------

Contents == UNION {[1..n -> Maps \cup {Hole}] : n \in 0..MaxVersion + 1}

TypeOK ==
    /\ config \in Maps
    /\ files \in [Dumpers -> Contents]
    /\ pc \in [Callers -> {"idle", "encode", "open", "write"}]
    /\ idx \in [Callers -> Dumpers]
    /\ snap \in [Callers -> Maps]
    /\ off \in [Callers -> 0..MaxVersion + 1]
    /\ result \in [Callers -> {"none", "nil", "error"}]
    /\ overlaps \in [Callers -> BOOLEAN]
    /\ editor \in [Callers -> 0..NumDumpers]

Returns(p) == Active(p) /\ ~Active(p)'

\* What dumper d of the call is to write of version v: the configuration as it was
\* loaded, unless this dumper or one before it changed the call's map.
Due(p, d, v) == Whole([version |-> v, edited |-> editor[p] \in 1..d])

\* A Dump that succeeds, and that no other Dump overlapped, has written the same
\* configuration, whole, to every dumper, although Loads replace the
\* configuration while it runs and earlier calls failed half-way; and what an
\* earlier Dump's dumpers changed in their map is not in it (src/synthra.go:324-331).
SuccessWritesOneSnapshot ==
    [][\A p \in Callers : Returns(p) /\ result'[p] = "nil" /\ ~overlaps[p]
          => \E v \in Versions : \A d \in Dumpers : files'[d] = Due(p, d, v)]_vars

\* A Dump that fails, and that no other Dump overlapped, has completed the
\* dumpers before the failing one with one configuration and has not touched
\* those after it; when encoding or opening failed, it has not touched that
\* dumper's file either (src/dumper/file.go:74-81).
FailureIsAPrefix ==
    [][\A p \in Callers : Returns(p) /\ result'[p] = "error" /\ ~overlaps[p]
          => /\ \E v \in Versions : \A d \in 1..idx[p] - 1 : files'[d] = Due(p, d, v)
             /\ \A d \in Dumpers :
                  d > idx[p] \/ (d = idx[p] /\ pc[p] \in {"encode", "open"})
                     => files'[d] = before[p][d]]_vars

\* src/dumper/file.go:68 says that Dump writes the encoded values atomically: a
\* file would hold a whole dump at every moment, whoever else dumps, and also
\* after a crash.
DumpIsAtomic == \A d \in Dumpers : \E m \in Maps : files[d] = Whole(m)
=============================================================================
