-------------------------- MODULE SourceLoadProofs --------------------------
(***************************************************************************)
(* Theorems about SourceLoad, for every number of concurrent Loads of one  *)
(* source, every set of kinds and every number of versions of the data.    *)
(***************************************************************************)
EXTENDS SourceLoad, TLAPS

\* A slice of one version, and the one of NewFileContent, is a slice.
LEMMA WholeTyped ==
    /\ \A v \in 0..MaxVersion : Whole(v) \in Slices
    /\ NilSlice \in Slices /\ Content \in Slices
  BY BoundsAssumption DEF Whole, NilSlice, Content, Slices

\* Storing one word of a slice changes that word and keeps the other.
LEMMA WordStored ==
    ASSUME NEW s \in Slices, NEW w \in Word, NEW n \in 0..MaxVersion
    PROVE  /\ [s EXCEPT ![w] = n] \in Slices
           /\ [s EXCEPT ![w] = n][w] = n
           /\ \A x \in Word \ {w} : [s EXCEPT ![w] = n][x] = s[x]
  <1>1. CASE w = "ptr"
    BY <1>1 DEF Slices, Word
  <1>2. CASE w = "len"
    BY <1>2 DEF Slices, Word
  <1> QED BY <1>1, <1>2 DEF Word

\* The words of a slice are versions, and a slice is nothing but its words.
LEMMA SliceIsItsWords ==
    /\ \A s \in Slices, w \in Word : s[w] \in 0..MaxVersion
    /\ \A s, t \in Slices : (\A w \in Word : s[w] = t[w]) => s = t
  BY DEF Slices, Word

-----------------------------------------------------------------------------

\* The initial states are typed.
LEMMA InitTypeOK == Init => TypeOK
  BY WholeTyped, BoundsAssumption DEF Init, TypeOK

\* One step per action of a Load; StoreChange touches nothing a Load has.
LEMMA NextTypeOK == TypeOK /\ [Next]_vars => TypeOK'
  <1> SUFFICES ASSUME TypeOK, [Next]_vars PROVE TypeOK'
    OBVIOUS
  <1> USE DEF TypeOK
  <1>1. CASE UNCHANGED vars
    BY <1>1 DEF vars
  <1>2. CASE StoreChange
    BY <1>2 DEF StoreChange
  <1>3. ASSUME NEW p \in Loaders, Call(p) PROVE TypeOK'
    <2>1. overlaps' \in [Loaders -> BOOLEAN]
      BY <1>3 DEF Call, Active
    <2> QED BY <1>3, <2>1 DEF Call
  <1>4. ASSUME NEW p \in Loaders, ReadFile(p) PROVE TypeOK'
    <2>1. PICK v \in {0, store} : buf' = [buf EXCEPT ![p] = Whole(v)]
      BY <1>4 DEF ReadFile
    <2>2. buf' \in [Loaders -> Slices]
      BY <2>1, WholeTyped, BoundsAssumption
    <2>3. readErr' \in [Loaders -> BOOLEAN]
      BY <1>4 DEF ReadFile
    <2> QED BY <1>4, <2>2, <2>3 DEF ReadFile
  <1>5. ASSUME NEW p \in Loaders, StoreWord(p) PROVE TypeOK'
    <2>1. PICK w \in words[p] : /\ data' = [data EXCEPT ![w] = buf[p][w]]
                                /\ words' = [words EXCEPT ![p] = @ \ {w}]
      BY <1>5 DEF StoreWord
    <2>2. w \in Word /\ buf[p][w] \in 0..MaxVersion
      BY SliceIsItsWords
    <2>3. data' \in Slices
      BY <2>1, <2>2, WordStored
    <2> QED BY <1>5, <2>1, <2>3 DEF StoreWord
  <1>6. ASSUME NEW p \in Loaders, CheckRead(p) PROVE TypeOK'
    BY <1>6 DEF CheckRead, Return
  <1>7. ASSUME NEW p \in Loaders, LoadWord(p) PROVE TypeOK'
    <2>1. PICK w \in words[p] : /\ arg' = [arg EXCEPT ![p][w] = data[w]]
                                /\ words' = [words EXCEPT ![p] = @ \ {w}]
      BY <1>7 DEF LoadWord
    <2>2. w \in Word /\ data[w] \in 0..MaxVersion
      BY SliceIsItsWords
    <2>3. [arg[p] EXCEPT ![w] = data[w]] \in Slices
      BY <2>2, WordStored
    <2>4. arg' \in [Loaders -> Slices]
      BY <2>1, <2>3
    <2> QED BY <1>7, <2>1, <2>4 DEF LoadWord
  <1>8. ASSUME NEW p \in Loaders, ReadLocal(p) PROVE TypeOK'
    BY <1>8, WholeTyped DEF ReadLocal
  <1>9. ASSUME NEW p \in Loaders, ReadFails(p) PROVE TypeOK'
    BY <1>9, WholeTyped DEF ReadFails, Return
  <1>10. ASSUME NEW p \in Loaders, KeyMissing(p) PROVE TypeOK'
    BY <1>10, WholeTyped DEF KeyMissing, Return
  <1>11. ASSUME NEW p \in Loaders, Decode(p) PROVE TypeOK'
    <2>1. PICK r \in Outcomes(arg[p]) : Return(p, r)
      BY <1>11 DEF Decode
    <2>2. r \in {"nil", "error", "panic"}
      BY DEF Outcomes
    <2> QED BY <1>11, <2>1, <2>2 DEF Decode, Return
  <1> QED
    BY <1>1, <1>2, <1>3, <1>4, <1>5, <1>6, <1>7, <1>8, <1>9, <1>10, <1>11 DEF Next

\* Every reachable state is well typed.
THEOREM TypeCorrect == Spec => []TypeOK
  BY InitTypeOK, NextTypeOK, PTL DEF Spec

-----------------------------------------------------------------------------
(* The invariant behind LoadDecodesItsOwnRead                              *)

\* A call that no other overlapped so far is the only one.
AloneOK ==
    \A p, q \in Loaders : Active(p) /\ ~overlaps[p] /\ Active(q) => q = p

\* What a Load decodes: the bytes the source was made with, or those it read.
Due(p) == IF kind = "content" THEN Content ELSE buf[p]

\* Where a call of each kind of source can be, and how its read ended there.
PathOK(p) ==
    /\ kind = "content" => pc[p] \in {"idle", "load"}
    /\ kind \in {"fs", "consul"} => pc[p] \in {"idle", "read", "load"}
    /\ pc[p] = "read" => words[p] = Word
    /\ pc[p] \in {"read", "load"} => ~readErr[p]
    /\ Active(p) => result[p] # "nil"

\* The words of the field a call has stored are those of its own read, and the
\* words of the argument it has loaded are those it is to decode.
WordsOK(p) ==
    /\ pc[p] = "store" => \A w \in Word \ words[p] : data[w] = buf[p][w]
    /\ pc[p] = "load" => \A w \in Word \ words[p] : arg[p][w] = Due(p)[w]
    /\ pc[p] = "load" /\ kind = "file" => data = buf[p]
    /\ pc[p] = "load" /\ kind \in {"fs", "consul"} => words[p] = {}

\* Other calls may come between for a file source only.
CallOK(p) ==
    /\ PathOK(p)
    /\ (kind = "file" /\ overlaps[p]) \/ (WordsOK(p) /\ DecodedItsOwnRead(p))

DecodeInv ==
    /\ TypeOK
    /\ AloneOK
    /\ kind = "content" => data = Content
    /\ \A p \in Loaders : CallOK(p)

\* No call has read anything at first.
LEMMA InitDecodeInv == Init => DecodeInv
  <1> SUFFICES ASSUME Init PROVE DecodeInv
    OBVIOUS
  <1>1. TypeOK
    BY InitTypeOK
  <1>2. AloneOK /\ \A p \in Loaders : CallOK(p)
    BY DEF Init, AloneOK, CallOK, PathOK, WordsOK, DecodedItsOwnRead, Active
  <1> QED BY <1>1, <1>2 DEF DecodeInv, Init

\* What a step of p leaves to the other calls: their locals and histories.
OthersKept(p) ==
    \A q \in Loaders \ {p} :
        /\ pc'[q] = pc[q] /\ buf'[q] = buf[q] /\ readErr'[q] = readErr[q]
        /\ words'[q] = words[q] /\ arg'[q] = arg[q] /\ result'[q] = result[q]
        /\ overlaps'[q] = overlaps[q]

\* It is enough to look at the call whose step it is: on a file source the other
\* active calls have been overlapped, on the other kinds they share nothing that
\* changes.
LEMMA OwnStep ==
    ASSUME DecodeInv, NEW p \in Loaders, Active(p), OthersKept(p), TypeOK',
           kind' = kind, kind # "file" => data' = data, overlaps' = overlaps,
           CallOK(p)'
    PROVE  DecodeInv'
  <1>1. AloneOK'
    BY DEF DecodeInv, AloneOK, Active, OthersKept
  <1>2. ASSUME NEW q \in Loaders \ {p} PROVE CallOK(q)'
    <2>1. CallOK(q)
      BY DEF DecodeInv
    <2>2. PathOK(q)'
      BY <2>1 DEF CallOK, PathOK, Active, OthersKept
    <2>3. ASSUME ~(kind = "file" /\ overlaps[q])
          PROVE  WordsOK(q)' /\ DecodedItsOwnRead(q)'
      <3>1. kind = "file" => pc[q] = "idle"
        BY <2>3 DEF DecodeInv, AloneOK, Active
      <3>2. Due(q)' = Due(q)
        BY DEF OthersKept, Due
      <3>3. WordsOK(q)'
        BY <2>1, <2>3, <3>1, <3>2 DEF CallOK, WordsOK, OthersKept
      <3>4. DecodedItsOwnRead(q)'
        BY <2>1, <2>3 DEF CallOK, DecodedItsOwnRead, OthersKept
      <3> QED BY <3>3, <3>4
    <2> QED BY <2>2, <2>3 DEF CallOK
  <1> QED BY <1>1, <1>2 DEF DecodeInv

\* A call begins: every call that is active now overlaps it.
LEMMA CallDecodeInv ==
    ASSUME DecodeInv, NEW p \in Loaders, Call(p), TypeOK'
    PROVE  DecodeInv'
  <1> USE DEF DecodeInv, TypeOK, Call
  <1>1. \A q \in Loaders \ {p} : pc'[q] = pc[q] /\ result'[q] = result[q] /\ readErr'[q] = readErr[q]
                                 /\ words'[q] = words[q]
    OBVIOUS
  <1>2. /\ pc'[p] = (IF kind = "content" THEN "load" ELSE "read")
        /\ result'[p] = "none" /\ readErr'[p] = FALSE /\ words'[p] = Word
    OBVIOUS
  <1>3. /\ \A q \in Loaders \ {p} : overlaps'[q] = (overlaps[q] \/ Active(q))
        /\ overlaps'[p] = \E r \in Loaders : Active(r)
    BY Zenon
  <1>4. AloneOK'
    BY <1>1, <1>3 DEF AloneOK, Active
  <1>5. CallOK(p)'
    BY <1>2, KindsAssumption DEF CallOK, PathOK, WordsOK, DecodedItsOwnRead, Active
  <1>6. ASSUME NEW q \in Loaders \ {p} PROVE CallOK(q)'
    <2>1. PathOK(q)'
      BY <1>1 DEF CallOK, PathOK, Active
    <2>2. WordsOK(q)' = WordsOK(q) /\ DecodedItsOwnRead(q)' = DecodedItsOwnRead(q)
      BY <1>1 DEF WordsOK, DecodedItsOwnRead, Due
    <2> QED BY <1>3, <2>1, <2>2 DEF CallOK
  <1> QED BY <1>4, <1>5, <1>6

\* One step per action; an active call's step is a case of OwnStep.
LEMMA NextDecodeInv == DecodeInv /\ [Next]_vars => DecodeInv'
  <1> SUFFICES ASSUME DecodeInv, [Next]_vars PROVE DecodeInv'
    OBVIOUS
  <1>0. TypeOK /\ TypeOK'
    BY NextTypeOK DEF DecodeInv
  <1>1. CASE UNCHANGED vars \/ StoreChange
    BY <1>0, <1>1 DEF vars, StoreChange, DecodeInv, AloneOK, CallOK, PathOK, WordsOK,
                      DecodedItsOwnRead, Due, Active
  <1>2. ASSUME NEW p \in Loaders, Call(p) PROVE DecodeInv'
    BY <1>0, <1>2, CallDecodeInv
  <1>3. ASSUME NEW p \in Loaders, ReadFile(p) PROVE DecodeInv'
    <2> USE <1>0, <1>3 DEF ReadFile, TypeOK
    <2>1. OthersKept(p) /\ Active(p) /\ kind' = kind /\ overlaps' = overlaps
      BY DEF OthersKept, Active
    <2>2. pc'[p] = "store" /\ words'[p] = Word /\ result'[p] # "nil"
      BY DEF DecodeInv, CallOK, PathOK, Active
    <2> QED BY <2>1, <2>2, OwnStep DEF CallOK, PathOK, WordsOK, DecodedItsOwnRead, Active
  <1>4. ASSUME NEW p \in Loaders, StoreWord(p) PROVE DecodeInv'
    <2> USE <1>0, <1>4 DEF StoreWord, TypeOK
    <2>1. OthersKept(p) /\ Active(p) /\ kind' = kind /\ overlaps' = overlaps
      BY DEF OthersKept, Active
    <2>2. CallOK(p) /\ kind = "file"
      BY KindsAssumption DEF DecodeInv, CallOK, PathOK
    <2>3. PICK w \in words[p] : /\ data' = [data EXCEPT ![w] = buf[p][w]]
                                /\ words' = [words EXCEPT ![p] = @ \ {w}]
      OBVIOUS
    <2>4. w \in Word /\ buf[p][w] \in 0..MaxVersion /\ words'[p] = words[p] \ {w}
      BY <2>3, SliceIsItsWords
    <2>5. data'[w] = buf[p][w] /\ \A x \in Word \ {w} : data'[x] = data[x]
      BY <2>3, <2>4, WordStored
    <2>6. WordsOK(p) => WordsOK(p)'
      BY <2>4, <2>5 DEF WordsOK
    <2> QED BY <2>1, <2>2, <2>6, OwnStep DEF CallOK, PathOK, DecodedItsOwnRead, Active
  <1>5. ASSUME NEW p \in Loaders, CheckRead(p) PROVE DecodeInv'
    <2> USE <1>0, <1>5 DEF CheckRead, TypeOK, Return
    <2>1. OthersKept(p) /\ Active(p) /\ kind' = kind /\ overlaps' = overlaps
      BY DEF OthersKept, Active
    <2>2. CallOK(p) /\ kind = "file"
      BY KindsAssumption DEF DecodeInv, CallOK, PathOK
    <2>3. WordsOK(p) => data = buf[p]
      BY SliceIsItsWords DEF WordsOK
    <2>4. CASE readErr[p]
      BY <2>1, <2>2, <2>4, OwnStep DEF CallOK, PathOK, WordsOK, DecodedItsOwnRead, Active
    <2>5. CASE ~readErr[p]
      BY <2>1, <2>2, <2>3, <2>5, OwnStep DEF CallOK, PathOK, WordsOK, DecodedItsOwnRead, Active
    <2> QED BY <2>4, <2>5
  <1>6. ASSUME NEW p \in Loaders, LoadWord(p) PROVE DecodeInv'
    <2> USE <1>0, <1>6 DEF LoadWord, TypeOK
    <2>1. OthersKept(p) /\ Active(p) /\ kind' = kind /\ overlaps' = overlaps /\ data' = data
      BY DEF OthersKept, Active
    <2>2. CallOK(p)
      BY DEF DecodeInv
    <2>3. PICK w \in words[p] : /\ arg' = [arg EXCEPT ![p][w] = data[w]]
                                /\ words' = [words EXCEPT ![p] = @ \ {w}]
      OBVIOUS
    <2>4. w \in Word /\ data[w] \in 0..MaxVersion /\ words'[p] = words[p] \ {w}
      BY <2>3, SliceIsItsWords
    <2>5. arg'[p] = [arg[p] EXCEPT ![w] = data[w]]
      BY <2>3
    <2>6. arg'[p][w] = data[w] /\ \A x \in Word \ {w} : arg'[p][x] = arg[p][x]
      BY <2>4, <2>5, WordStored
    <2>7. WordsOK(p) => WordsOK(p)'
      <3>1. WordsOK(p) => data = Due(p)
        BY <2>3, KindsAssumption DEF WordsOK, Due, DecodeInv
      <3> QED BY <2>4, <2>6, <3>1 DEF WordsOK, Due
    <2> QED BY <2>1, <2>2, <2>7, OwnStep DEF CallOK, PathOK, DecodedItsOwnRead, Active
  <1>7. ASSUME NEW p \in Loaders, ReadLocal(p) PROVE DecodeInv'
    <2> USE <1>0, <1>7 DEF ReadLocal, TypeOK
    <2>1. OthersKept(p) /\ Active(p) /\ kind' = kind /\ overlaps' = overlaps /\ data' = data
      BY DEF OthersKept, Active
    <2>2. CallOK(p)
      BY DEF DecodeInv
    <2> QED BY <2>1, <2>2, OwnStep DEF CallOK, PathOK, WordsOK, Due, DecodedItsOwnRead, Active
  <1>8. ASSUME NEW p \in Loaders, ReadFails(p) PROVE DecodeInv'
    <2> USE <1>0, <1>8 DEF ReadFails, TypeOK, Return
    <2>1. OthersKept(p) /\ Active(p) /\ kind' = kind /\ overlaps' = overlaps /\ data' = data
      BY DEF OthersKept, Active
    <2>2. pc'[p] = "idle" /\ result'[p] = "error"
      OBVIOUS
    <2> QED BY <2>1, <2>2, OwnStep DEF CallOK, PathOK, WordsOK, DecodedItsOwnRead, Active
  <1>9. ASSUME NEW p \in Loaders, KeyMissing(p) PROVE DecodeInv'
    <2> USE <1>0, <1>9 DEF KeyMissing, TypeOK, Return
    <2>1. OthersKept(p) /\ Active(p) /\ kind' = kind /\ overlaps' = overlaps /\ data' = data
      BY DEF OthersKept, Active
    <2>2. CallOK(p)
      BY DEF DecodeInv
    <2> QED BY <2>1, <2>2, OwnStep DEF CallOK, PathOK, WordsOK, DecodedItsOwnRead, Active
  <1>10. ASSUME NEW p \in Loaders, Decode(p) PROVE DecodeInv'
    <2> USE <1>0, <1>10 DEF Decode, TypeOK, Return
    <2>1. OthersKept(p) /\ Active(p) /\ kind' = kind /\ overlaps' = overlaps /\ data' = data
      BY DEF OthersKept, Active
    <2>2. CallOK(p) /\ pc'[p] = "idle"
      BY DEF DecodeInv
    <2>3. WordsOK(p) => arg[p] = Due(p)
      <3>1. Due(p) \in Slices
        BY WholeTyped DEF Due
      <3> QED BY <3>1, SliceIsItsWords DEF WordsOK
    <2>4. WordsOK(p) => DecodedItsOwnRead(p)'
      BY <2>2, <2>3 DEF CallOK, PathOK, DecodedItsOwnRead, Due
    <2> QED BY <2>1, <2>2, <2>4, OwnStep DEF CallOK, PathOK, WordsOK, Active
  <1> QED
    BY <1>1, <1>2, <1>3, <1>4, <1>5, <1>6, <1>7, <1>8, <1>9, <1>10 DEF Next

\* A Load that succeeds decoded the bytes its own read returned, however many
\* other Loads of the source run beside it; for a file source, as long as no
\* other overlapped it.
THEOREM OwnReadDecoded == Spec => []LoadDecodesItsOwnRead
  <1>1. Init => DecodeInv
    BY InitDecodeInv
  <1>2. DecodeInv /\ [Next]_vars => DecodeInv'
    BY NextDecodeInv
  <1>3. DecodeInv => LoadDecodesItsOwnRead
    BY DEF DecodeInv, CallOK, LoadDecodesItsOwnRead
  <1> QED BY <1>1, <1>2, <1>3, PTL DEF Spec

\* On sources of the other kinds the promise of src/source.go:23 holds as it
\* stands: every Load decodes its own read, whatever runs beside it.
THEOREM ConcurrentReadsDecoded ==
    ASSUME "file" \notin Kinds
    PROVE  Spec => []ConcurrentLoadsDecodeTheirOwnReads
  <1>1. DecodeInv => ConcurrentLoadsDecodeTheirOwnReads
    BY DEF DecodeInv, TypeOK, CallOK, ConcurrentLoadsDecodeTheirOwnReads
  <1> QED BY <1>1, InitDecodeInv, NextDecodeInv, PTL DEF Spec
=============================================================================
