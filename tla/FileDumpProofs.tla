--------------------------- MODULE FileDumpProofs ---------------------------
(***************************************************************************)
(* Theorems about FileDump, for every number of callers and file dumpers   *)
(* and every bound on the versions of the configuration.                   *)
(***************************************************************************)
EXTENDS FileDump, SequenceTheorems, TLAPS

Blocks == Maps \cup {Hole}

\* The map of a stored configuration is a map, and a map has at least one block.
LEMMA MapsTyped ==
    /\ \A v \in Versions : Loaded(v) \in Maps
    /\ Loaded(0) \in Maps
    /\ \A m \in Maps : Size(m) \in 1..MaxVersion + 1
  BY DumpBoundsAssumption DEF Loaded, Maps, Versions, Size

\* A file of n blocks is a sequence of length n.
LEMMA FileLength ==
    ASSUME NEW n \in Nat, NEW f \in [1..n -> Blocks]
    PROVE  f \in Seq(Blocks) /\ Len(f) = n
  BY IsASeq, LenProperties

\* What a file holds: as many blocks as the longest dump has, or fewer.
LEMMA ContentsAre ==
    /\ \A n \in 0..MaxVersion + 1 : [1..n -> Blocks] \subseteq Contents
    /\ \A f \in Contents : \E n \in 0..MaxVersion + 1 : f \in [1..n -> Blocks]
    /\ << >> \in Contents
  <1>1. /\ \A n \in 0..MaxVersion + 1 : [1..n -> Blocks] \subseteq Contents
        /\ \A f \in Contents : \E n \in 0..MaxVersion + 1 : f \in [1..n -> Blocks]
    BY DEF Contents, Blocks
  <1>2. << >> \in [1..0 -> Blocks]
    OBVIOUS
  <1>3. 0 \in 0..MaxVersion + 1
    BY DumpBoundsAssumption
  <1> QED BY <1>1, <1>2, <1>3

\* A whole encoding fits in a file.
LEMMA WholeTyped ==
    ASSUME NEW m \in Maps
    PROVE  Whole(m) \in Contents
  <1>1. Size(m) \in 0..MaxVersion + 1
    BY MapsTyped, DumpBoundsAssumption
  <1>2. Whole(m) \in [1..Size(m) -> Blocks]
    BY DEF Whole, Blocks
  <1> QED BY <1>1, <1>2, ContentsAre

\* Writing a block keeps a file a file.
LEMMA WriteAtTyped ==
    ASSUME NEW f \in Contents, NEW n \in 1..MaxVersion + 1, NEW m \in Maps
    PROVE  WriteAt(f, n, m) \in Contents
  <1>1. PICK k \in 0..MaxVersion + 1 : f \in [1..k -> Blocks]
    BY ContentsAre
  <1>2. k \in Nat /\ Len(f) = k
    BY <1>1, FileLength, DumpBoundsAssumption
  <1> DEFINE l == IF n > k THEN n ELSE k
  <1>3. l \in 0..MaxVersion + 1
    BY <1>2, DumpBoundsAssumption
  <1>4. WriteAt(f, n, m) \in [1..l -> Blocks]
    BY <1>1, <1>2, DumpBoundsAssumption DEF WriteAt, Blocks
  <1> QED BY <1>3, <1>4, ContentsAre

\* Writing the next block of a file that holds n blocks of a map adds one.
LEMMA WriteAtEnd ==
    ASSUME NEW n \in Nat, NEW m \in Maps
    PROVE  WriteAt([b \in 1..n |-> m], n + 1, m) = [b \in 1..n + 1 |-> m]
  <1>1. Len([b \in 1..n |-> m]) = n
    BY FileLength DEF Blocks
  <1> QED BY <1>1 DEF WriteAt

-----------------------------------------------------------------------------

\* The files a call remembers are files.
BeforeTyped == before \in [Callers -> [Dumpers -> Contents]]

TypeInv == TypeOK /\ BeforeTyped

\* No file has content before anything is written.
LEMMA NoFilesTyped == NoFiles \in [Dumpers -> Contents]
  BY ContentsAre DEF NoFiles

\* The initial states are typed.
LEMMA InitTypeInv == Init => TypeInv
  <1> SUFFICES ASSUME Init PROVE TypeInv
    OBVIOUS
  <1>1. files \in [Dumpers -> Contents]
    BY MapsTyped, WholeTyped DEF Init
  <1>2. 1 \in Dumpers /\ 0 \in 0..MaxVersion + 1 /\ 0 \in 0..NumDumpers
    BY NumDumpersAssumption, DumpBoundsAssumption DEF Dumpers
  <1> QED
    BY <1>1, <1>2, MapsTyped, NoFilesTyped DEF Init, TypeInv, TypeOK, BeforeTyped

\* What the end of a call leaves has the types of the locals.
LEMMA LeaveTyped ==
    ASSUME TypeInv, NEW p \in Callers, NEW how \in {"nil", "error"}, Leave(p, how),
           UNCHANGED <<config, files>>
    PROVE  TypeInv'
  <1>1. 1 \in Dumpers /\ 0 \in 0..MaxVersion + 1 /\ 0 \in 0..NumDumpers
    BY NumDumpersAssumption, DumpBoundsAssumption DEF Dumpers
  <1> QED
    BY <1>1, MapsTyped, NoFilesTyped DEF Leave, TypeInv, TypeOK, BeforeTyped

\* Every step keeps the types.
LEMMA NextTypeInv == TypeInv /\ [Next]_vars => TypeInv'
  <1> SUFFICES ASSUME TypeInv, [Next]_vars PROVE TypeInv'
    OBVIOUS
  <1> USE DEF TypeInv, TypeOK, BeforeTyped
  <1>0. 1 \in Dumpers /\ 0 \in 0..MaxVersion + 1 /\ 0 \in 0..NumDumpers
    BY NumDumpersAssumption, DumpBoundsAssumption DEF Dumpers
  <1>1. CASE UNCHANGED vars
    BY <1>1 DEF vars
  <1>2. CASE ConfigChange
    BY <1>2, MapsTyped DEF ConfigChange
  <1>3. CASE Crash
    BY <1>0, <1>3, MapsTyped, NoFilesTyped DEF Crash
  <1>4. ASSUME NEW p \in Callers, Begin(p) PROVE TypeInv'
    <2>1. overlaps' \in [Callers -> BOOLEAN]
      BY <1>4 DEF Begin, Active
    <2>2. before' \in [Callers -> [Dumpers -> Contents]]
      BY <1>4, NoFilesTyped DEF Begin
    <2> QED BY <1>0, <1>4, <2>1, <2>2 DEF Begin
  <1>5. ASSUME NEW p \in Callers, BeginNilContext(p) PROVE TypeInv'
    BY <1>5 DEF BeginNilContext
  <1>6. ASSUME NEW p \in Callers, EditMap(p) PROVE TypeInv'
    <2>1. [snap[p] EXCEPT !.edited = TRUE] \in Maps
      BY DEF Maps
    <2>2. snap' \in [Callers -> Maps]
      BY <1>6, <2>1 DEF EditMap
    <2>3. idx[p] \in 0..NumDumpers
      BY NumDumpersAssumption DEF Dumpers
    <2> QED BY <1>6, <2>2, <2>3 DEF EditMap
  <1>7. ASSUME NEW p \in Callers, Encode(p) PROVE TypeInv'
    BY <1>7 DEF Encode
  <1>8. ASSUME NEW p \in Callers, EncodeFails(p) \/ OpenFails(p) \/ WriteFails(p) PROVE TypeInv'
    BY <1>8, LeaveTyped DEF EncodeFails, OpenFails, WriteFails, Fail
  <1>9. ASSUME NEW p \in Callers, Open(p) PROVE TypeInv'
    BY <1>0, <1>9, ContentsAre DEF Open
  <1>10. ASSUME NEW p \in Callers, Write(p) PROVE TypeInv'
    <2>1. off[p] + 1 \in 1..MaxVersion + 1
      BY <1>10, MapsTyped, DumpBoundsAssumption DEF Write
    <2>2. WriteAt(files[idx[p]], off[p] + 1, snap[p]) \in Contents
      BY <2>1, WriteAtTyped
    <2>3. files' \in [Dumpers -> Contents]
      BY <1>10, <2>2 DEF Write
    <2>4. off' \in [Callers -> 0..MaxVersion + 1]
      BY <1>10, <2>1 DEF Write
    <2> QED BY <1>10, <2>3, <2>4 DEF Write
  <1>11. ASSUME NEW p \in Callers, NextDumper(p) PROVE TypeInv'
    <2>1. idx[p] + 1 \in Dumpers
      BY <1>11, NumDumpersAssumption DEF NextDumper, Dumpers
    <2> QED BY <1>11, <2>1 DEF NextDumper
  <1>12. ASSUME NEW p \in Callers, Return(p) PROVE TypeInv'
    BY <1>12, LeaveTyped DEF Return
  <1> QED
    BY <1>1, <1>2, <1>3, <1>4, <1>5, <1>6, <1>7, <1>8, <1>9, <1>10, <1>11, <1>12 DEF Next

\* Every reachable state is well typed: no dump grows a file beyond its blocks,
\* and no call goes past the last dumper.
THEOREM TypeCorrect == Spec => []TypeOK
  <1>1. TypeInv => TypeOK
    BY DEF TypeInv
  <1> QED BY <1>1, InitTypeInv, NextTypeInv, PTL DEF Spec

-----------------------------------------------------------------------------
(* The invariant behind SuccessWritesOneSnapshot and FailureIsAPrefix      *)

\* A call that no other overlapped so far is the only one.
AloneOK ==
    \A p, q \in Callers : Active(p) /\ ~overlaps[p] /\ Active(q) => q = p

\* The copy of a call is edited once its dumpers have come to the editor, and no
\* more blocks are written of it than it has.
CopyOK(p) ==
    /\ ~Active(p) => editor[p] = 0
    /\ editor[p] <= idx[p]
    /\ Active(p) => (snap[p].edited <=> editor[p] # 0)
    /\ pc[p] = "write" => off[p] <= Size(snap[p])

\* The files before the dumper at work are done, its own is written as far as off
\* says, and those after it are as the call found them.
FilesOK(p) ==
    /\ \A d \in 1..idx[p] - 1 : files[d] = Due(p, d, snap[p].version)
    /\ pc[p] = "write" => files[idx[p]] = [b \in 1..off[p] |-> snap[p]]
    /\ \A d \in Dumpers : d > idx[p] \/ (d = idx[p] /\ pc[p] # "write")
                             => files[d] = before[p][d]

CallOK(p) == CopyOK(p) /\ (Active(p) /\ ~overlaps[p] => FilesOK(p))

DumpInv ==
    /\ TypeInv
    /\ AloneOK
    /\ ~config.edited
    /\ \A p \in Callers : CallOK(p)

\* Nothing has been dumped at first.
LEMMA InitDumpInv == Init => DumpInv
  <1> SUFFICES ASSUME Init PROVE DumpInv
    OBVIOUS
  <1>1. AloneOK /\ ~config.edited /\ \A p \in Callers : CallOK(p)
    BY DEF Init, Loaded, AloneOK, CallOK, CopyOK, Active
  <1> QED BY <1>1, InitTypeInv DEF DumpInv

\* What a step of p leaves to the other calls: their locals and histories.
OthersKept(p) ==
    \A q \in Callers \ {p} :
        /\ pc'[q] = pc[q] /\ idx'[q] = idx[q] /\ snap'[q] = snap[q] /\ off'[q] = off[q]
        /\ overlaps'[q] = overlaps[q] /\ editor'[q] = editor[q]

\* It is enough to look at the call whose step it is: the other active calls are
\* overlapped by it.
LEMMA OwnStep ==
    ASSUME DumpInv, NEW p \in Callers, Active(p), OthersKept(p), TypeInv', config' = config,
           Active(p)' => overlaps'[p] = overlaps[p],
           CallOK(p)'
    PROVE  DumpInv'
  <1>1. AloneOK'
    BY DEF DumpInv, AloneOK, Active, OthersKept
  <1>2. ASSUME NEW q \in Callers \ {p} PROVE CallOK(q)'
    <2>1. CopyOK(q)'
      BY DEF DumpInv, CallOK, CopyOK, Active, OthersKept
    <2>2. ~(Active(q) /\ ~overlaps[q])
      BY DEF DumpInv, AloneOK
    <2> QED BY <2>1, <2>2 DEF CallOK, OthersKept, Active
  <1> QED BY <1>1, <1>2 DEF DumpInv

\* A call that ends, whether it fails or succeeds.
LEMMA LeaveDumpInv ==
    ASSUME DumpInv, NEW p \in Callers, Active(p), NEW how \in {"nil", "error"},
           Leave(p, how), UNCHANGED <<config, files>>
    PROVE  DumpInv'
  <1> USE DEF Leave, DumpInv, TypeInv, TypeOK
  <1>1. TypeInv'
    BY LeaveTyped
  <1>2. OthersKept(p)
    BY DEF OthersKept
  <1>3. pc'[p] = "idle" /\ idx'[p] = 1 /\ editor'[p] = 0
    OBVIOUS
  <1>4. CallOK(p)'
    BY <1>3 DEF CallOK, CopyOK, Active
  <1>5. ~Active(p)'
    BY <1>3 DEF Active
  <1> QED BY <1>1, <1>2, <1>4, <1>5, OwnStep

\* A call begins with an unedited copy of the configuration and with the files as
\* they are, and overlaps every call that is active now.
LEMMA BeginDumpInv ==
    ASSUME DumpInv, NEW p \in Callers, Begin(p), TypeInv'
    PROVE  DumpInv'
  <1> USE DEF DumpInv, TypeInv, TypeOK, BeforeTyped, Begin
  <1>1. \A q \in Callers \ {p} : /\ pc'[q] = pc[q] /\ idx'[q] = idx[q] /\ snap'[q] = snap[q]
                                 /\ off'[q] = off[q] /\ editor'[q] = editor[q]
    OBVIOUS
  <1>2. /\ pc'[p] = "encode" /\ idx'[p] = 1 /\ snap'[p] = config /\ editor'[p] = editor[p]
        /\ files' = files /\ config' = config
    OBVIOUS
  <1>3. /\ \A q \in Callers \ {p} : overlaps'[q] = (overlaps[q] \/ Active(q))
        /\ overlaps'[p] = \E r \in Callers : Active(r)
    BY Zenon
  <1>4. ~overlaps'[p] => before'[p] = files
    BY Zenon
  <1>5. AloneOK'
    BY <1>1, <1>3 DEF AloneOK, Active
  <1>6. CallOK(p)'
    <2>1. CopyOK(p) /\ editor[p] = 0
      BY DEF CallOK, CopyOK
    <2>2. CopyOK(p)'
      BY <1>2, <2>1 DEF CopyOK, Active
    <2>3. ~overlaps'[p] => FilesOK(p)'
      BY <1>2, <1>4 DEF FilesOK, Dumpers
    <2> QED BY <2>2, <2>3 DEF CallOK
  <1>7. ASSUME NEW q \in Callers \ {p} PROVE CallOK(q)'
    <2>1. CopyOK(q)'
      BY <1>1 DEF CallOK, CopyOK, Active
    <2>2. ~(Active(q)' /\ ~overlaps'[q])
      BY <1>1, <1>3 DEF Active
    <2> QED BY <2>1, <2>2 DEF CallOK
  <1> QED BY <1>2, <1>5, <1>6, <1>7

\* When the last block is written, the dumper at work has what it is due: the copy
\* with the edits of the dumpers so far.
LEMMA SnapshotDue ==
    ASSUME DumpInv, NEW p \in Callers, pc[p] = "write", off[p] = Size(snap[p]), FilesOK(p)
    PROVE  files[idx[p]] = Due(p, idx[p], snap[p].version)
  <1>1. TypeInv /\ CopyOK(p) /\ Active(p)
    BY DEF DumpInv, CallOK, Active
  <1>2. editor[p] \in Nat /\ idx[p] \in Nat
    BY <1>1, NumDumpersAssumption DEF TypeInv, TypeOK, Dumpers
  <1>3. snap[p].edited <=> editor[p] \in 1..idx[p]
    BY <1>1, <1>2 DEF CopyOK
  <1>4. snap[p] \in Maps /\ snap[p].edited \in BOOLEAN
    BY <1>1 DEF TypeInv, TypeOK, Maps
  <1>5. snap[p] = [version |-> snap[p].version, edited |-> snap[p].edited]
    BY <1>4 DEF Maps
  <1>6. snap[p].edited = (editor[p] \in 1..idx[p])
    BY <1>3, <1>4
  <1>7. files[idx[p]] = Whole(snap[p])
    BY DEF FilesOK, Whole
  <1> QED BY <1>5, <1>6, <1>7 DEF Due

\* One step per action; a step of an active call is a case of OwnStep.
LEMMA NextDumpInv == DumpInv /\ [Next]_vars => DumpInv'
  <1> SUFFICES ASSUME DumpInv, [Next]_vars PROVE DumpInv'
    OBVIOUS
  <1>0. TypeInv'
    BY NextTypeInv DEF DumpInv
  <1>a. TypeInv
    BY DEF DumpInv
  <1> USE <1>a DEF TypeInv, TypeOK, BeforeTyped
  <1>1. CASE UNCHANGED vars
    BY <1>1 DEF vars, DumpInv, AloneOK, CallOK, CopyOK, FilesOK, Due, Active
  <1>2. CASE ConfigChange
    <2>1. ~config'.edited
      BY <1>2 DEF ConfigChange, Loaded
    <2>2. UNCHANGED <<files, pc, idx, snap, off, result, before, overlaps, editor>>
      BY <1>2 DEF ConfigChange
    <2> QED BY <1>0, <2>1, <2>2 DEF DumpInv, AloneOK, CallOK, CopyOK, FilesOK, Due, Active
  <1>3. CASE Crash
    <2>1. \A p \in Callers : ~Active(p)' /\ editor'[p] = 0 /\ idx'[p] = 1
      BY <1>3 DEF Crash, Active
    <2>2. config' = config
      BY <1>3 DEF Crash
    <2>3. \A p \in Callers : CallOK(p)'
      BY <2>1 DEF CallOK, CopyOK, Active
    <2> QED BY <1>0, <2>1, <2>2, <2>3 DEF DumpInv, AloneOK
  <1>4. ASSUME NEW p \in Callers, Begin(p) PROVE DumpInv'
    BY <1>0, <1>4, BeginDumpInv
  <1>5. ASSUME NEW p \in Callers, BeginNilContext(p) PROVE DumpInv'
    BY <1>0, <1>5 DEF BeginNilContext, DumpInv, AloneOK, CallOK, CopyOK, FilesOK, Due, Active
  <1>6. ASSUME NEW p \in Callers, EditMap(p) PROVE DumpInv'
    <2> USE <1>6 DEF EditMap
    <2>1. OthersKept(p) /\ Active(p) /\ config' = config /\ overlaps' = overlaps
      BY DEF OthersKept, Active
    <2>2. CopyOK(p) /\ editor[p] = 0
      BY DEF DumpInv, CallOK, CopyOK, Active
    <2>3. snap'[p].edited /\ snap'[p].version = snap[p].version
      BY DEF Maps
    <2>4. editor'[p] = idx[p] /\ pc'[p] = "encode" /\ idx'[p] = idx[p] /\ idx[p] \in 1..NumDumpers
      BY DEF Dumpers
    <2>5. CopyOK(p)'
      BY <2>3, <2>4 DEF CopyOK, Active
    <2>6. FilesOK(p) => FilesOK(p)'
      <3>1. \A d \in 1..idx[p] - 1, v \in Versions : Due(p, d, v)' = Due(p, d, v)
        BY <2>2, <2>4 DEF Due
      <3>2. snap[p].version \in Versions
        BY DEF Maps
      <3> QED BY <2>3, <2>4, <3>1, <3>2 DEF FilesOK
    <2> QED BY <1>0, <2>1, <2>5, <2>6, OwnStep DEF DumpInv, CallOK
  <1>7. ASSUME NEW p \in Callers, Encode(p) PROVE DumpInv'
    <2> USE <1>7 DEF Encode
    <2>1. OthersKept(p) /\ Active(p) /\ config' = config /\ overlaps' = overlaps
      BY DEF OthersKept, Active
    <2>2. CallOK(p)'
      BY DEF DumpInv, CallOK, CopyOK, FilesOK, Due, Active
    <2> QED BY <1>0, <2>1, <2>2, OwnStep
  <1>8. ASSUME NEW p \in Callers, EncodeFails(p) \/ OpenFails(p) \/ WriteFails(p) PROVE DumpInv'
    BY <1>8, LeaveDumpInv DEF EncodeFails, OpenFails, WriteFails, Fail, Active
  <1>9. ASSUME NEW p \in Callers, Open(p) PROVE DumpInv'
    <2> USE <1>9 DEF Open
    <2>1. OthersKept(p) /\ Active(p) /\ config' = config /\ overlaps' = overlaps
      BY DEF OthersKept, Active
    <2>2. /\ pc'[p] = "write" /\ off'[p] = 0 /\ idx' = idx /\ snap' = snap /\ editor' = editor
          /\ before' = before /\ files'[idx[p]] = << >>
          /\ \A d \in Dumpers \ {idx[p]} : files'[d] = files[d]
      OBVIOUS
    <2>3. CopyOK(p)'
      BY <2>2, MapsTyped DEF DumpInv, CallOK, CopyOK, Active
    <2>4. FilesOK(p) => FilesOK(p)'
      <3>1. << >> = [b \in 1..0 |-> snap[p]]
        OBVIOUS
      <3>2. files'[idx[p]] = [b \in 1..off'[p] |-> snap'[p]]
        BY <2>2, <3>1
      <3>3. \A d \in Dumpers \ {idx[p]} : /\ files'[d] = files[d]
                                         /\ Due(p, d, snap[p].version)' = Due(p, d, snap[p].version)
        BY <2>2 DEF Due
      <3>4. \A d \in 1..idx[p] - 1 : d \in Dumpers \ {idx[p]}
        BY NumDumpersAssumption DEF Dumpers
      <3>5. FilesOK(p) => \A d \in 1..idx'[p] - 1 : files'[d] = Due(p, d, snap[p].version)'
        BY <2>2, <3>3, <3>4 DEF FilesOK
      <3>6. \A d \in Dumpers : d > idx'[p] \/ (d = idx'[p] /\ pc'[p] # "write")
                               => /\ d > idx[p] \/ (d = idx[p] /\ pc[p] # "write")
                                  /\ files'[d] = files[d]
        BY <2>2, <3>3 DEF Dumpers
      <3> QED BY <2>2, <3>2, <3>5, <3>6 DEF FilesOK
    <2> QED BY <1>0, <2>1, <2>3, <2>4, OwnStep DEF DumpInv, CallOK
  <1>10. ASSUME NEW p \in Callers, Write(p) PROVE DumpInv'
    <2> USE <1>10 DEF Write
    <2>1. OthersKept(p) /\ Active(p) /\ config' = config /\ overlaps' = overlaps
      BY DEF OthersKept, Active
    <2>2. /\ pc' = pc /\ off'[p] = off[p] + 1 /\ idx' = idx /\ snap' = snap /\ editor' = editor
          /\ before' = before /\ files'[idx[p]] = WriteAt(files[idx[p]], off[p] + 1, snap[p])
          /\ \A d \in Dumpers \ {idx[p]} : files'[d] = files[d]
      OBVIOUS
    <2>3. CopyOK(p)'
      BY <2>2, MapsTyped DEF DumpInv, CallOK, CopyOK, Active
    <2>4. FilesOK(p) => files'[idx[p]] = [b \in 1..off[p] + 1 |-> snap[p]]
      <3>1. off[p] \in Nat /\ snap[p] \in Maps
        BY DumpBoundsAssumption
      <3>2. FilesOK(p) => files[idx[p]] = [b \in 1..off[p] |-> snap[p]]
        BY DEF FilesOK
      <3>3. WriteAt([b \in 1..off[p] |-> snap[p]], off[p] + 1, snap[p]) = [b \in 1..off[p] + 1 |-> snap[p]]
        BY <3>1, WriteAtEnd
      <3> QED BY <2>2, <3>2, <3>3
    <2>5. FilesOK(p) => FilesOK(p)'
      <3>1. \A d \in Dumpers \ {idx[p]} : /\ files'[d] = files[d]
                                         /\ Due(p, d, snap[p].version)' = Due(p, d, snap[p].version)
        BY <2>2 DEF Due
      <3>2. \A d \in 1..idx[p] - 1 : d \in Dumpers \ {idx[p]}
        BY NumDumpersAssumption DEF Dumpers
      <3>3. FilesOK(p) => \A d \in 1..idx'[p] - 1 : files'[d] = Due(p, d, snap[p].version)'
        BY <2>2, <3>1, <3>2 DEF FilesOK
      <3>4. \A d \in Dumpers : d > idx'[p] \/ (d = idx'[p] /\ pc'[p] # "write")
                               => /\ d > idx[p] \/ (d = idx[p] /\ pc[p] # "write")
                                  /\ files'[d] = files[d]
        BY <2>2, <3>1 DEF Dumpers
      <3> QED BY <2>2, <2>4, <3>3, <3>4 DEF FilesOK
    <2> QED BY <1>0, <2>1, <2>3, <2>5, OwnStep DEF DumpInv, CallOK
  <1>11. ASSUME NEW p \in Callers, NextDumper(p) PROVE DumpInv'
    <2> USE <1>11 DEF NextDumper
    <2>1. OthersKept(p) /\ Active(p) /\ config' = config /\ overlaps' = overlaps
      BY DEF OthersKept, Active
    <2>2. /\ pc'[p] = "encode" /\ idx'[p] = idx[p] + 1 /\ snap' = snap /\ editor' = editor
          /\ before' = before /\ files' = files
      OBVIOUS
    <2>3. CopyOK(p)'
      BY <2>2 DEF DumpInv, CallOK, CopyOK, Active, Dumpers
    <2>4. FilesOK(p) => files[idx[p]] = Due(p, idx[p], snap[p].version)
      BY SnapshotDue
    <2>5. FilesOK(p) => FilesOK(p)'
      BY <2>2, <2>4 DEF FilesOK, Due, Dumpers
    <2> QED BY <1>0, <2>1, <2>3, <2>5, OwnStep DEF DumpInv, CallOK
  <1>12. ASSUME NEW p \in Callers, Return(p) PROVE DumpInv'
    BY <1>12, LeaveDumpInv DEF Return, Active
  <1> QED
    BY <1>1, <1>2, <1>3, <1>4, <1>5, <1>6, <1>7, <1>8, <1>9, <1>10, <1>11, <1>12 DEF Next

\* A call that ends the way a caller sees it ends with one of these steps.
LEMMA ReturningSteps ==
    ASSUME TypeInv, [Next]_vars, NEW p \in Callers, Returns(p), result'[p] \in {"nil", "error"}
    PROVE  /\ files' = files
           /\ result'[p] = "nil" => Return(p)
           /\ result'[p] = "error" => EncodeFails(p) \/ OpenFails(p) \/ WriteFails(p)
  <1> USE DEF TypeInv, TypeOK, Returns, Active
  <1>1. ~UNCHANGED vars /\ ~ConfigChange
    BY DEF vars, ConfigChange
  <1>2. ~Crash
    BY DEF Crash
  <1>3. PICK q \in Callers :
            \/ Begin(q) \/ BeginNilContext(q)
            \/ EditMap(q) \/ Encode(q) \/ EncodeFails(q) \/ Open(q) \/ OpenFails(q)
            \/ Write(q) \/ WriteFails(q) \/ NextDumper(q) \/ Return(q)
    BY <1>1, <1>2 DEF Next
  <1>4. ~Begin(q) /\ ~BeginNilContext(q)
    BY DEF Begin, BeginNilContext
  <1>5. ~EditMap(q) /\ ~Encode(q) /\ ~Open(q) /\ ~Write(q) /\ ~NextDumper(q)
    BY DEF EditMap, Encode, Open, Write, NextDumper
  <1>6. CASE Return(q)
    BY <1>6 DEF Return, Leave
  <1>7. CASE EncodeFails(q) \/ OpenFails(q) \/ WriteFails(q)
    BY <1>7 DEF EncodeFails, OpenFails, WriteFails, Fail, Leave
  <1> QED BY <1>3, <1>4, <1>5, <1>6, <1>7

\* A Dump that succeeds and that no other Dump overlapped has written one
\* configuration, whole, to every dumper.
THEOREM OneSnapshot == Spec => SuccessWritesOneSnapshot
  <1>1. ASSUME DumpInv, [Next]_vars, NEW p \in Callers, Returns(p), result'[p] = "nil", ~overlaps[p]
        PROVE  \E v \in Versions : \A d \in Dumpers : files'[d] = Due(p, d, v)
    <2>1. files' = files /\ Return(p)
      BY <1>1, ReturningSteps DEF DumpInv
    <2>2. FilesOK(p)
      BY <1>1 DEF DumpInv, CallOK, Returns
    <2>3. files[idx[p]] = Due(p, idx[p], snap[p].version)
      BY <1>1, <2>1, <2>2, SnapshotDue DEF Return
    <2>4. \A d \in Dumpers : d = idx[p] \/ d \in 1..idx[p] - 1
      BY <2>1, NumDumpersAssumption DEF Return, Dumpers
    <2>5. snap[p].version \in Versions
      BY <1>1 DEF DumpInv, TypeInv, TypeOK, Maps
    <2> QED BY <2>1, <2>2, <2>3, <2>4, <2>5 DEF FilesOK
  <1>2. DumpInv /\ [Next]_vars =>
            [\A p \in Callers : Returns(p) /\ result'[p] = "nil" /\ ~overlaps[p]
                => \E v \in Versions : \A d \in Dumpers : files'[d] = Due(p, d, v)]_vars
    BY <1>1
  <1> QED
    BY <1>2, InitDumpInv, NextDumpInv, PTL DEF Spec, SuccessWritesOneSnapshot

\* A Dump that fails and that no other Dump overlapped has completed the dumpers
\* before the failing one with one configuration and has not touched those after
\* it, nor the file of its own when encoding or opening failed.
THEOREM FailedPrefix == Spec => FailureIsAPrefix
  <1>1. ASSUME DumpInv, [Next]_vars, NEW p \in Callers, Returns(p), result'[p] = "error", ~overlaps[p]
        PROVE  /\ \E v \in Versions : \A d \in 1..idx[p] - 1 : files'[d] = Due(p, d, v)
               /\ \A d \in Dumpers :
                    d > idx[p] \/ (d = idx[p] /\ pc[p] \in {"encode", "open"})
                       => files'[d] = before[p][d]
    <2>1. files' = files
      BY <1>1, ReturningSteps DEF DumpInv
    <2>2. FilesOK(p)
      BY <1>1 DEF DumpInv, CallOK, Returns
    <2>3. snap[p].version \in Versions
      BY <1>1 DEF DumpInv, TypeInv, TypeOK, Maps
    <2> QED BY <2>1, <2>2, <2>3 DEF FilesOK
  <1>2. DumpInv /\ [Next]_vars =>
            [\A p \in Callers : Returns(p) /\ result'[p] = "error" /\ ~overlaps[p]
                => /\ \E v \in Versions : \A d \in 1..idx[p] - 1 : files'[d] = Due(p, d, v)
                   /\ \A d \in Dumpers :
                        d > idx[p] \/ (d = idx[p] /\ pc[p] \in {"encode", "open"})
                           => files'[d] = before[p][d]]_vars
    BY <1>1
  <1> QED
    BY <1>2, InitDumpInv, NextDumpInv, PTL DEF Spec, FailureIsAPrefix
=============================================================================
