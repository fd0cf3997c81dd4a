------------------------- MODULE SynthraLoadProofs -------------------------
(***************************************************************************)
(* Theorems about SynthraLoad, for every number of loaders, sources, steps *)
(* and hooks, and for every bound on the versions.                         *)
(***************************************************************************)
EXTENDS SynthraLoad, TLAPS

\* The loop index is in the range of the loop the call is in.
IndexOK ==
    \A p \in Loaders :
        /\ pc[p] \in {"check", "read"} => idx[p] \in Sources
        /\ pc[p] = "step" => idx[p] \in 1..NumSteps
        /\ pc[p] = "hook" => idx[p] \in 1..NumHooks

TypeInv == TypeOK /\ IndexOK

\* The empty map and the zero struct, from which a call starts, have their types.
LEMMA ValuesTyped == EmptyValues \in Values /\ ZeroStruct \in Structs
  BY DEF EmptyValues, Values, ZeroStruct, Structs

\* A value map and a struct stay what they are under the updates of Load.
LEMMA ValuesUpdate ==
    ASSUME NEW v \in Values
    PROVE  /\ \A i \in Sources, n \in Nat : [v EXCEPT !.src[i] = n] \in Values
           /\ [v EXCEPT !.steps = @ + 1] \in Values
  <1>1. v.src \in [Sources -> Nat] /\ v.steps \in Nat
    BY DEF Values
  <1>2. ASSUME NEW i \in Sources, NEW n \in Nat
        PROVE  [v EXCEPT !.src[i] = n] \in Values
    <2>1. [v.src EXCEPT ![i] = n] \in [Sources -> Nat]
      BY <1>1
    <2>2. [v EXCEPT !.src[i] = n] = [v EXCEPT !.src = [v.src EXCEPT ![i] = n]]
      BY DEF Values
    <2> QED BY <2>1, <2>2 DEF Values
  <1>3. [v EXCEPT !.steps = @ + 1] \in Values
    BY <1>1 DEF Values
  <1> QED BY <1>2, <1>3

\* The defaults, a hook and the validation leave a struct a struct.
LEMMA StructUpdate ==
    ASSUME NEW s \in Structs
    PROVE  /\ [s EXCEPT !.defaulted = TRUE] \in Structs
           /\ [s EXCEPT !.hooks = @ + 1] \in Structs
           /\ [s EXCEPT !.checked = TRUE] \in Structs
  <1>1. s.hooks + 1 \in Nat
    BY DEF Structs
  <1> QED BY <1>1 DEF Structs

\* TypeInv holds before the first call.
LEMMA InitTypeInv == Init => TypeInv
  <1> SUFFICES ASSUME Init PROVE TypeInv OBVIOUS
  <1>1. TypeOK
    BY ValuesTyped DEF Init, TypeOK, PCs
  <1>2. IndexOK
    BY DEF Init, IndexOK
  <1> QED BY <1>1, <1>2 DEF TypeInv

\* A jump keeps the types when the index fits the loop it jumps into.
LEMMA GotoTyped ==
    ASSUME TypeInv, NEW p \in Loaders, NEW label \in PCs, NEW i \in Nat,
           Goto(p, label, i),
           label \in {"check", "read"} => i \in Sources,
           label = "step" => i \in 1..NumSteps,
           label = "hook" => i \in 1..NumHooks
    PROVE  pc' \in [Loaders -> PCs] /\ idx' \in [Loaders -> Nat] /\ IndexOK'
  <1>1. pc' \in [Loaders -> PCs] /\ idx' \in [Loaders -> Nat]
    BY DEF TypeInv, TypeOK, Goto
  <1>2. ASSUME NEW q \in Loaders
        PROVE  /\ pc'[q] \in {"check", "read"} => idx'[q] \in Sources
               /\ pc'[q] = "step" => idx'[q] \in 1..NumSteps
               /\ pc'[q] = "hook" => idx'[q] \in 1..NumHooks
    <2>1. CASE q = p
      BY <2>1 DEF TypeInv, TypeOK, Goto
    <2>2. CASE q # p
      BY <2>2 DEF TypeInv, TypeOK, IndexOK, Goto
    <2> QED BY <2>1, <2>2
  <1> QED BY <1>1, <1>2 DEF IndexOK

\* The steps that only touch the locals of one call keep the types.
LEMMA LeaveTyped ==
    ASSUME TypeInv, NEW p \in Loaders, Leave(p)
    PROVE  /\ pc' \in [Loaders -> PCs] /\ idx' \in [Loaders -> Nat]
           /\ newValues' \in [Loaders -> Values]
           /\ tempBinding' \in [Loaders -> Structs]
           /\ cancelled' \in [Loaders -> BOOLEAN]
           /\ startWorld' \in [Loaders -> [Sources -> Nat]]
           /\ overlapped' \in [Loaders -> BOOLEAN]
           /\ lateReads' \in [Loaders -> Nat]
           /\ IndexOK'
  <1> USE DEF TypeInv, TypeOK, Leave, Goto
  <1>1. /\ pc' \in [Loaders -> PCs] /\ idx' \in [Loaders -> Nat]
        /\ newValues' \in [Loaders -> Values]
        /\ tempBinding' \in [Loaders -> Structs]
    BY ValuesTyped DEF PCs
  <1>2. /\ cancelled' \in [Loaders -> BOOLEAN]
        /\ startWorld' \in [Loaders -> [Sources -> Nat]]
        /\ overlapped' \in [Loaders -> BOOLEAN]
        /\ lateReads' \in [Loaders -> Nat]
    OBVIOUS
  <1>3. IndexOK'
    BY DEF IndexOK
  <1> QED BY <1>1, <1>2, <1>3

\* A failure before the lock (src/synthra.go:217, 222, 270) keeps the types.
LEMMA FailBeforeLockTyped ==
    ASSUME TypeInv, NEW p \in Loaders, NEW how \in {"error", "panic"},
           FailBeforeLock(p, how)
    PROVE  TypeInv'
  BY LeaveTyped DEF TypeInv, TypeOK, FailBeforeLock, shared

\* A failure with the lock held (src/synthra.go:284-303) keeps the types.
LEMMA FailLockedTyped ==
    ASSUME TypeInv, NEW p \in Loaders, NEW how \in {"error", "panic"},
           FailLocked(p, how)
    PROVE  TypeInv'
  BY DEF TypeInv, TypeOK, IndexOK, FailLocked, Goto, PCs, shared, history

\* Every step keeps the types and the loop indices in range.
LEMMA NextTypeInv == TypeInv /\ [Next]_vars => TypeInv'
  <1> SUFFICES ASSUME TypeInv, [Next]_vars PROVE TypeInv' OBVIOUS
  <1> USE NumSourcesAssumption, NumStepsAssumption, NumHooksAssumption
  <1>1. ASSUME NEW i \in Sources, SourceChange(i) PROVE TypeInv'
    BY <1>1 DEF TypeInv, TypeOK, IndexOK, SourceChange, locals, history
  <1>2. ASSUME NEW p \in Loaders, Cancel(p) PROVE TypeInv'
    BY <1>2 DEF TypeInv, TypeOK, IndexOK, Cancel, shared, history
  <1>3. ASSUME NEW p \in Loaders, Begin(p) PROVE TypeInv'
    <2> USE <1>3 DEF Begin, TypeInv, TypeOK
    <2>1. overlapped' \in [Loaders -> BOOLEAN]
      BY DEF Active
    <2>2. pc' \in [Loaders -> PCs] /\ idx' \in [Loaders -> Nat]
      BY DEF Goto, AfterSources, PCs
    <2>3. IndexOK'
      BY DEF Goto, AfterSources, IndexOK, Sources
    <2> QED BY <2>1, <2>2, <2>3 DEF shared
  <1>4. ASSUME NEW p \in Loaders, BeginNilContext(p) PROVE TypeInv'
    BY <1>4 DEF TypeInv, TypeOK, IndexOK, BeginNilContext, shared
  <1>5. ASSUME NEW p \in Loaders, AcquireLock(p) PROVE TypeInv'
    BY <1>5 DEF TypeInv, TypeOK, IndexOK, AcquireLock, Goto, PCs, history
  <1>6. ASSUME NEW p \in Loaders, ContextLive(p) PROVE TypeInv'
    BY <1>6 DEF TypeInv, TypeOK, IndexOK, ContextLive, Goto, PCs, shared, history
  <1>7. ASSUME NEW p \in Loaders, ContextDone(p) PROVE TypeInv'
    BY <1>7, FailBeforeLockTyped DEF ContextDone
  <1>8. ASSUME NEW p \in Loaders, ReadSource(p) PROVE TypeInv'
    <2> USE <1>8 DEF ReadSource, ReadVersion
    <2>1. idx[p] \in Sources
      BY DEF TypeInv, IndexOK
    <2>2. /\ newValues' \in [Loaders -> Values]
          /\ lateReads' \in [Loaders -> Nat]
      <3>1. world[idx[p]] \in Nat
        BY <2>1 DEF TypeInv, TypeOK
      <3>2. newValues' \in [Loaders -> Values]
        BY <2>1, <3>1, ValuesUpdate DEF TypeInv, TypeOK
      <3>3. lateReads' \in [Loaders -> Nat]
        BY DEF TypeInv, TypeOK
      <3> QED BY <3>2, <3>3
    <2>3. pc' \in [Loaders -> PCs] /\ idx' \in [Loaders -> Nat] /\ IndexOK'
      <3>1. CASE idx[p] < NumSources
        <4>1. idx[p] + 1 \in Sources
          BY <2>1, <3>1 DEF Sources
        <4> QED BY <3>1, <4>1, GotoTyped DEF PCs, Sources
      <3>2. CASE ~(idx[p] < NumSources)
        BY <3>2, GotoTyped DEF PCs, AfterSources
      <3> QED BY <3>1, <3>2
    <2> QED BY <2>2, <2>3 DEF TypeInv, TypeOK, shared
  <1>9. ASSUME NEW p \in Loaders, ReadSourceFails(p) PROVE TypeInv'
    BY <1>9, FailBeforeLockTyped DEF ReadSourceFails
  <1>10. ASSUME NEW p \in Loaders, RunStep(p) PROVE TypeInv'
    <2> USE <1>10 DEF RunStep
    <2>1. idx[p] \in 1..NumSteps
      BY DEF TypeInv, IndexOK
    <2>2. newValues' \in [Loaders -> Values]
      BY <2>1, ValuesUpdate DEF TypeInv, TypeOK
    <2>3. pc' \in [Loaders -> PCs] /\ idx' \in [Loaders -> Nat] /\ IndexOK'
      <3>1. CASE idx[p] < NumSteps
        <4>1. idx[p] + 1 \in 1..NumSteps
          BY <2>1, <3>1 DEF Sources
        <4> QED BY <3>1, <4>1, GotoTyped DEF PCs, Sources
      <3>2. CASE ~(idx[p] < NumSteps)
        BY <3>2, GotoTyped DEF PCs
      <3> QED BY <3>1, <3>2
    <2> QED BY <2>2, <2>3 DEF TypeInv, TypeOK, shared, history
  <1>11. ASSUME NEW p \in Loaders, StepFails(p) PROVE TypeInv'
    BY <1>11, FailBeforeLockTyped DEF StepFails, StepOutcomes
  <1>12. ASSUME NEW p \in Loaders, Decode(p) PROVE TypeInv'
    BY <1>12 DEF TypeInv, TypeOK, IndexOK, Decode, Goto, PCs, Structs,
                 ZeroStruct, shared, history
  <1>13. ASSUME NEW p \in Loaders, ApplyDefaults(p) PROVE TypeInv'
    <2> USE <1>13 DEF ApplyDefaults, TypeInv, TypeOK
    <2>1. tempBinding' \in [Loaders -> Structs]
      BY StructUpdate
    <2>2. pc' \in [Loaders -> PCs] /\ idx' \in [Loaders -> Nat] /\ IndexOK'
      BY DEF Goto, AfterDefaults, IndexOK, PCs
    <2> QED BY <2>1, <2>2 DEF shared, history
  <1>14. ASSUME NEW p \in Loaders, RunHook(p) PROVE TypeInv'
    <2> USE <1>14 DEF RunHook
    <2>1. idx[p] \in 1..NumHooks
      BY DEF TypeInv, IndexOK
    <2>2. tempBinding' \in [Loaders -> Structs]
      BY <2>1, StructUpdate DEF TypeInv, TypeOK
    <2>3. pc' \in [Loaders -> PCs] /\ idx' \in [Loaders -> Nat] /\ IndexOK'
      <3>1. CASE idx[p] < NumHooks
        <4>1. idx[p] + 1 \in 1..NumHooks
          BY <2>1, <3>1 DEF Sources
        <4> QED BY <3>1, <4>1, GotoTyped DEF PCs, Sources
      <3>2. CASE ~(idx[p] < NumHooks)
        BY <3>2, GotoTyped DEF PCs, AfterHooks
      <3> QED BY <3>1, <3>2
    <2> QED BY <2>2, <2>3 DEF TypeInv, TypeOK, shared, history
  <1>15. ASSUME NEW p \in Loaders, Validate(p) PROVE TypeInv'
    BY <1>15, StructUpdate DEF TypeInv, TypeOK, IndexOK, Validate, Goto, PCs,
                               shared, history
  <1>16. ASSUME NEW p \in Loaders, BindingFails(p) PROVE TypeInv'
    BY <1>16, FailLockedTyped DEF BindingFails
  <1>17. ASSUME NEW p \in Loaders, Bind(p) PROVE TypeInv'
    BY <1>17 DEF TypeInv, TypeOK, IndexOK, Bind, Goto, PCs
  <1>18. ASSUME NEW p \in Loaders, Store(p) PROVE TypeInv'
    BY <1>18 DEF TypeInv, TypeOK, IndexOK, Store, Goto, PCs
  <1>19. ASSUME NEW p \in Loaders, Unlock(p) PROVE TypeInv'
    BY <1>19, LeaveTyped DEF TypeInv, TypeOK, Unlock
  <1>21. ASSUME NEW p \in Loaders, Reenter(p) PROVE TypeInv'
    BY <1>21 DEF TypeInv, TypeOK, IndexOK, Reenter, Goto, PCs, shared, history
  <1>20. CASE UNCHANGED vars
    BY <1>20 DEF TypeInv, TypeOK, IndexOK, vars
  <1> QED
    BY <1>1, <1>2, <1>3, <1>4, <1>5, <1>6, <1>7, <1>8, <1>9, <1>10, <1>11,
       <1>12, <1>13, <1>14, <1>15, <1>16, <1>17, <1>18, <1>19, <1>20, <1>21
       DEF Next, Running

\* Every reachable state is well typed, and every loop index in its range
\* (src/synthra.go:215-303).
THEOREM TypeCorrect == Spec => []TypeOK
  <1>1. Spec => []TypeInv
    BY InitTypeInv, NextTypeInv, PTL DEF Spec
  <1>2. TypeInv => TypeOK
    BY DEF TypeInv
  <1> QED BY <1>1, <1>2, PTL

-----------------------------------------------------------------------------
(* The critical section: the bound struct agrees with the configuration.   *)

\* The owner of loadMu is the one call in the critical section.
LockOK == \A p \in Loaders : pc[p] \in Locked <=> loadMu = p

\* The struct comes from the map the call is about to store.
TransferOK ==
    \A p \in Loaders :
        /\ pc[p] \in {"defaults", "hook", "validate", "bind"}
              => tempBinding[p].values = newValues[p]
        /\ HasBinding /\ pc[p] = "store" => binding.values = newValues[p]
        /\ pc[p] \in {"decode", "defaults", "hook", "validate", "bind"} => HasBinding

CommitInv == TypeInv /\ LockOK /\ TransferOK /\ BindingAgrees

\* No call holds the lock and nothing is bound or stored at first.
LEMMA InitCommitInv == Init => CommitInv
  BY InitTypeInv, LoadersAssumption
     DEF Init, CommitInv, LockOK, TransferOK, BindingAgrees, Locked, ZeroStruct

\* A call that fails outside the lock does not disturb who holds it.
LEMMA FailBeforeLockCommit ==
    ASSUME CommitInv, NEW p \in Loaders, NEW how, pc[p] \notin Locked,
           FailBeforeLock(p, how)
    PROVE  (LockOK /\ TransferOK /\ BindingAgrees)'
  BY DEF CommitInv, TypeInv, TypeOK, LockOK, TransferOK, BindingAgrees, Locked,
         FailBeforeLock, Leave, Goto, shared

\* Every step keeps the lock exclusive and the two published values paired.
LEMMA NextCommitInv == CommitInv /\ [Next]_vars => CommitInv'
  <1> SUFFICES ASSUME CommitInv, [Next]_vars
               PROVE  (LockOK /\ TransferOK /\ BindingAgrees)'
    BY NextTypeInv DEF CommitInv
  <1> USE DEF CommitInv, TypeInv, TypeOK, LockOK, TransferOK, BindingAgrees, Locked
  <1>1. ASSUME NEW i \in Sources, SourceChange(i)
        PROVE  (LockOK /\ TransferOK /\ BindingAgrees)'
    BY <1>1 DEF SourceChange, locals, history
  <1>2. ASSUME NEW p \in Loaders, Cancel(p)
        PROVE  (LockOK /\ TransferOK /\ BindingAgrees)'
    BY <1>2 DEF Cancel, shared, history
  <1>3. ASSUME NEW p \in Loaders, Begin(p)
        PROVE  (LockOK /\ TransferOK /\ BindingAgrees)'
    BY <1>3 DEF Begin, Active, AfterSources, Goto, shared
  <1>4. ASSUME NEW p \in Loaders, BeginNilContext(p)
        PROVE  (LockOK /\ TransferOK /\ BindingAgrees)'
    BY <1>4 DEF BeginNilContext, shared
  <1>5. ASSUME NEW p \in Loaders, AcquireLock(p)
        PROVE  (LockOK /\ TransferOK /\ BindingAgrees)'
    BY <1>5, LoadersAssumption DEF AcquireLock, Goto, history
  <1>6. ASSUME NEW p \in Loaders, ContextLive(p)
        PROVE  (LockOK /\ TransferOK /\ BindingAgrees)'
    BY <1>6 DEF ContextLive, Goto, shared, history
  <1>7. ASSUME NEW p \in Loaders, ContextDone(p)
        PROVE  (LockOK /\ TransferOK /\ BindingAgrees)'
    BY <1>7, FailBeforeLockCommit DEF ContextDone
  <1>8. ASSUME NEW p \in Loaders, ReadSource(p)
        PROVE  (LockOK /\ TransferOK /\ BindingAgrees)'
    BY <1>8 DEF ReadSource, ReadVersion, AfterSources, Goto, shared
  <1>9. ASSUME NEW p \in Loaders, ReadSourceFails(p)
        PROVE  (LockOK /\ TransferOK /\ BindingAgrees)'
    BY <1>9, FailBeforeLockCommit DEF ReadSourceFails
  <1>10. ASSUME NEW p \in Loaders, RunStep(p)
        PROVE  (LockOK /\ TransferOK /\ BindingAgrees)'
    BY <1>10 DEF RunStep, Goto, shared, history
  <1>11. ASSUME NEW p \in Loaders, StepFails(p)
        PROVE  (LockOK /\ TransferOK /\ BindingAgrees)'
    BY <1>11, FailBeforeLockCommit DEF StepFails
  <1>12. ASSUME NEW p \in Loaders, Decode(p)
        PROVE  (LockOK /\ TransferOK /\ BindingAgrees)'
    BY <1>12 DEF Decode, Goto, shared, history
  <1>13. ASSUME NEW p \in Loaders, ApplyDefaults(p)
        PROVE  (LockOK /\ TransferOK /\ BindingAgrees)'
    BY <1>13 DEF ApplyDefaults, AfterDefaults, Goto, shared, history
  <1>14. ASSUME NEW p \in Loaders, RunHook(p)
        PROVE  (LockOK /\ TransferOK /\ BindingAgrees)'
    BY <1>14 DEF RunHook, AfterHooks, Goto, shared, history
  <1>15. ASSUME NEW p \in Loaders, Validate(p)
        PROVE  (LockOK /\ TransferOK /\ BindingAgrees)'
    BY <1>15 DEF Validate, Goto, shared, history
  <1>16. ASSUME NEW p \in Loaders, BindingFails(p)
        PROVE  (LockOK /\ TransferOK /\ BindingAgrees)'
    BY <1>16 DEF BindingFails, FailLocked, Goto, shared, history
  <1>17. ASSUME NEW p \in Loaders, Bind(p)
        PROVE  (LockOK /\ TransferOK /\ BindingAgrees)'
    BY <1>17 DEF Bind, Goto
  <1>18. ASSUME NEW p \in Loaders, Store(p)
        PROVE  (LockOK /\ TransferOK /\ BindingAgrees)'
    BY <1>18 DEF Store, Goto
  <1>19. ASSUME NEW p \in Loaders, Unlock(p)
        PROVE  (LockOK /\ TransferOK /\ BindingAgrees)'
    BY <1>19, LoadersAssumption DEF Unlock, Goto, Leave
  <1>21. ASSUME NEW p \in Loaders, Reenter(p)
        PROVE  (LockOK /\ TransferOK /\ BindingAgrees)'
    BY <1>21 DEF Reenter, Goto, shared, history
  <1>20. CASE UNCHANGED vars
    BY <1>20 DEF vars
  <1> QED
    BY <1>1, <1>2, <1>3, <1>4, <1>5, <1>6, <1>7, <1>8, <1>9, <1>10, <1>11, <1>12, <1>13, <1>14, <1>15, <1>16, <1>17, <1>18, <1>19, <1>20, <1>21
       DEF Next, Running

\* When no call is between its two writes, the bound struct was decoded from
\* the stored configuration, for any number of concurrent calls and whatever
\* fails (src/synthra.go:278-308).
THEOREM BindingAgreement == Spec => []BindingAgrees
  <1>1. Spec => []CommitInv
    BY InitCommitInv, NextCommitInv, PTL DEF Spec
  <1>2. CommitInv => BindingAgrees
    BY DEF CommitInv
  <1> QED BY <1>1, <1>2, PTL

-----------------------------------------------------------------------------
(* Freshness: which versions a call reads and publishes.                   *)

\* Nothing holds a version its source has not reached yet.
WindowOK ==
    \A i \in Sources :
        /\ config.src[i] <= world[i]
        /\ \A p \in Loaders : /\ startWorld[p][i] <= world[i]
                              /\ newValues[p].src[i] <= world[i]

\* What a call has read, it has read since it began.
ReadOK ==
    \A p \in Loaders, i \in Sources :
        \/ pc[p] \in {"check", "read"} /\ i < idx[p]
        \/ pc[p] \notin {"idle", "check", "read"}
        => startWorld[p][i] <= newValues[p].src[i]

\* While a call that runs alone has not published, the configuration is the
\* one it found.
AloneOK ==
    \A p \in Loaders :
        Active(p) /\ ~overlapped[p]
        => /\ \A q \in Loaders : q # p => ~Active(q)
           /\ pc[p] # "unlock" => \A i \in Sources : config.src[i] <= startWorld[p][i]

\* A call has no result before it is about to return.
ResultOK ==
    \A p \in Loaders :
        /\ pc[p] \notin {"idle", "unlock"} => result[p] = "none"
        /\ pc[p] = "idle" => newValues[p] = EmptyValues

FreshInv == TypeInv /\ WindowOK /\ ReadOK /\ AloneOK /\ ResultOK

\* No call has read or published anything at first.
LEMMA InitFreshInv == Init => FreshInv
  <1> SUFFICES ASSUME Init PROVE WindowOK /\ ReadOK /\ AloneOK /\ ResultOK
    BY InitTypeInv DEF FreshInv
  <1> QED BY DEF Init, WindowOK, ReadOK, AloneOK, ResultOK, Active, EmptyValues

\* A call that fails outside the lock does not age what the others have read.
LEMMA FailBeforeLockFresh ==
    ASSUME FreshInv, NEW p \in Loaders, NEW how, FailBeforeLock(p, how)
    PROVE  (WindowOK /\ ReadOK /\ AloneOK /\ ResultOK)'
  <1> USE DEF FreshInv, TypeInv, TypeOK, FailBeforeLock, Leave, Goto, shared
  <1>1. WindowOK'
    BY DEF WindowOK, EmptyValues, Values
  <1>2. ReadOK'
    BY DEF ReadOK
  <1>3. AloneOK'
    BY DEF AloneOK, Active
  <1>4. ResultOK'
    BY DEF ResultOK
  <1> QED BY <1>1, <1>2, <1>3, <1>4

\* Every step keeps what an active call has read within the window of the call.
LEMMA NextFreshInv == FreshInv /\ [Next]_vars => FreshInv'
  <1> SUFFICES ASSUME FreshInv, [Next]_vars
               PROVE  (WindowOK /\ ReadOK /\ AloneOK /\ ResultOK)'
    BY NextTypeInv DEF FreshInv
  <1> USE DEF FreshInv, TypeInv, TypeOK
  <1>1. ASSUME NEW i \in Sources, SourceChange(i)
        PROVE  (WindowOK /\ ReadOK /\ AloneOK /\ ResultOK)'
    BY <1>1 DEF SourceChange, locals, history, WindowOK, ReadOK, AloneOK, ResultOK, Active, Values
  <1>2. ASSUME NEW p \in Loaders, Cancel(p)
        PROVE  (WindowOK /\ ReadOK /\ AloneOK /\ ResultOK)'
    <2> USE <1>2 DEF Cancel, shared, history
    <2>1. WindowOK'
      BY DEF WindowOK, Values
    <2>2. ReadOK'
      BY DEF ReadOK, Values
    <2>3. AloneOK'
      BY DEF AloneOK, Active
    <2>4. ResultOK'
      BY DEF ResultOK
    <2> QED BY <2>1, <2>2, <2>3, <2>4
  <1>3. ASSUME NEW p \in Loaders, Begin(p)
        PROVE  (WindowOK /\ ReadOK /\ AloneOK /\ ResultOK)'
    <2> USE <1>3 DEF Begin, Active, AfterSources, Goto, shared
    <2>1. WindowOK'
      BY DEF WindowOK, Values
    <2>2. ReadOK'
      <3> SUFFICES ASSUME NEW q \in Loaders, NEW i \in Sources,
                          \/ pc'[q] \in {"check", "read"} /\ i < idx'[q]
                          \/ pc'[q] \notin {"idle", "check", "read"}
                   PROVE  startWorld'[q][i] <= newValues'[q].src[i]
        BY DEF ReadOK
      <3>1. q # p
        BY NumSourcesAssumption DEF Sources
      <3> QED BY <3>1 DEF ReadOK
    <2>3. AloneOK'
      <3> SUFFICES ASSUME NEW q \in Loaders, Active(q)', ~overlapped'[q]
                   PROVE  /\ \A r \in Loaders : r # q => ~Active(r)'
                          /\ \A i \in Sources : config'.src[i] <= startWorld'[q][i]
        BY DEF AloneOK
      <3>1. q = p
        OBVIOUS
      <3> QED BY <3>1 DEF WindowOK
    <2>4. ResultOK'
      BY DEF ResultOK
    <2> QED BY <2>1, <2>2, <2>3, <2>4
  <1>4. ASSUME NEW p \in Loaders, BeginNilContext(p)
        PROVE  (WindowOK /\ ReadOK /\ AloneOK /\ ResultOK)'
    <2> USE <1>4 DEF BeginNilContext, Active, shared
    <2>1. WindowOK'
      BY DEF WindowOK, Values
    <2>2. ReadOK'
      BY DEF ReadOK, Values
    <2>3. AloneOK'
      BY DEF AloneOK, Active
    <2>4. ResultOK'
      BY DEF ResultOK
    <2> QED BY <2>1, <2>2, <2>3, <2>4
  <1>5. ASSUME NEW p \in Loaders, AcquireLock(p)
        PROVE  (WindowOK /\ ReadOK /\ AloneOK /\ ResultOK)'
    <2> USE <1>5 DEF AcquireLock, Goto, history
    <2>1. WindowOK'
      BY DEF WindowOK, Values
    <2>2. ReadOK'
      BY DEF ReadOK, Values
    <2>3. AloneOK'
      BY DEF AloneOK, Active
    <2>4. ResultOK'
      BY DEF ResultOK
    <2> QED BY <2>1, <2>2, <2>3, <2>4
  <1>6. ASSUME NEW p \in Loaders, ContextLive(p)
        PROVE  (WindowOK /\ ReadOK /\ AloneOK /\ ResultOK)'
    <2> USE <1>6 DEF ContextLive, Goto, shared, history
    <2>1. WindowOK'
      BY DEF WindowOK, Values
    <2>2. ReadOK'
      BY DEF ReadOK, Values
    <2>3. AloneOK'
      BY DEF AloneOK, Active
    <2>4. ResultOK'
      BY DEF ResultOK
    <2> QED BY <2>1, <2>2, <2>3, <2>4
  <1>7. ASSUME NEW p \in Loaders, ContextDone(p)
        PROVE  (WindowOK /\ ReadOK /\ AloneOK /\ ResultOK)'
    BY <1>7, FailBeforeLockFresh DEF ContextDone
  <1>8. ASSUME NEW p \in Loaders, ReadSource(p)
        PROVE  (WindowOK /\ ReadOK /\ AloneOK /\ ResultOK)'
    <2> USE <1>8 DEF ReadSource, ReadVersion, AfterSources, Goto, shared
    <2>1. WindowOK'
      BY DEF WindowOK, Values
    <2>2. ReadOK'
      <3> SUFFICES ASSUME NEW q \in Loaders, NEW i \in Sources,
                          \/ pc'[q] \in {"check", "read"} /\ i < idx'[q]
                          \/ pc'[q] \notin {"idle", "check", "read"}
                   PROVE  startWorld'[q][i] <= newValues'[q].src[i]
        BY DEF ReadOK
      <3>1. CASE q # p
        BY <3>1 DEF ReadOK
      <3>2. CASE q = p /\ i = idx[p]
        BY <3>2 DEF WindowOK, Values
      <3>3. CASE q = p /\ i # idx[p]
        <4>1. i < idx[p]
          BY <3>3, NumSourcesAssumption DEF Sources
        <4>2. newValues'[p].src[i] = newValues[p].src[i]
          BY <3>3 DEF Values
        <4> QED BY <3>3, <4>1, <4>2 DEF ReadOK
      <3> QED BY <3>1, <3>2, <3>3
    <2>3. AloneOK'
      <3>1. \A q \in Loaders : /\ pc'[q] = "idle" <=> pc[q] = "idle"
                              /\ pc'[q] # "unlock" => pc[q] # "unlock"
        OBVIOUS
      <3>2. config' = config /\ startWorld' = startWorld /\ overlapped' = overlapped
        OBVIOUS
      <3>3. AloneOK
        OBVIOUS
      <3>4. \A a \in Loaders : Active(a)' /\ ~overlapped'[a] => Active(a) /\ ~overlapped[a]
        BY <3>1, <3>2 DEF Active
      <3>5. ASSUME NEW a \in Loaders, Active(a)', ~overlapped'[a]
            PROVE  \A b \in Loaders : b # a => ~Active(b)'
        BY <3>1, <3>3, <3>4, <3>5 DEF Active, AloneOK
      <3>6. ASSUME NEW a \in Loaders, Active(a)', ~overlapped'[a], pc'[a] # "unlock"
            PROVE  \A b \in Sources : config'.src[b] <= startWorld'[a][b]
        <4>1. Active(a) /\ ~overlapped[a] /\ pc[a] # "unlock"
          BY <3>1, <3>4, <3>6
        <4>2. \A b \in Sources : config.src[b] <= startWorld[a][b]
          BY <3>3, <4>1 DEF AloneOK
        <4> QED BY <3>2, <4>2
      <3> QED BY <3>5, <3>6 DEF AloneOK
    <2>4. ResultOK'
      BY DEF ResultOK
    <2> QED BY <2>1, <2>2, <2>3, <2>4
  <1>9. ASSUME NEW p \in Loaders, ReadSourceFails(p)
        PROVE  (WindowOK /\ ReadOK /\ AloneOK /\ ResultOK)'
    BY <1>9, FailBeforeLockFresh DEF ReadSourceFails
  <1>10. ASSUME NEW p \in Loaders, RunStep(p)
        PROVE  (WindowOK /\ ReadOK /\ AloneOK /\ ResultOK)'
    <2> USE <1>10 DEF RunStep, Goto, shared, history
    <2>1. WindowOK'
      BY DEF WindowOK, Values
    <2>2. ReadOK'
      BY ZenonT(30) DEF ReadOK, Values
    <2>3. AloneOK'
      <3>1. \A q \in Loaders : /\ pc'[q] = "idle" <=> pc[q] = "idle"
                              /\ pc'[q] # "unlock" => pc[q] # "unlock"
        OBVIOUS
      <3>2. config' = config /\ startWorld' = startWorld /\ overlapped' = overlapped
        OBVIOUS
      <3>3. AloneOK
        OBVIOUS
      <3>4. \A a \in Loaders : Active(a)' /\ ~overlapped'[a] => Active(a) /\ ~overlapped[a]
        BY <3>1, <3>2 DEF Active
      <3>5. ASSUME NEW a \in Loaders, Active(a)', ~overlapped'[a]
            PROVE  \A b \in Loaders : b # a => ~Active(b)'
        BY <3>1, <3>3, <3>4, <3>5 DEF Active, AloneOK
      <3>6. ASSUME NEW a \in Loaders, Active(a)', ~overlapped'[a], pc'[a] # "unlock"
            PROVE  \A b \in Sources : config'.src[b] <= startWorld'[a][b]
        <4>1. Active(a) /\ ~overlapped[a] /\ pc[a] # "unlock"
          BY <3>1, <3>4, <3>6
        <4>2. \A b \in Sources : config.src[b] <= startWorld[a][b]
          BY <3>3, <4>1 DEF AloneOK
        <4> QED BY <3>2, <4>2
      <3> QED BY <3>5, <3>6 DEF AloneOK
    <2>4. ResultOK'
      BY DEF ResultOK
    <2> QED BY <2>1, <2>2, <2>3, <2>4
  <1>11. ASSUME NEW p \in Loaders, StepFails(p)
        PROVE  (WindowOK /\ ReadOK /\ AloneOK /\ ResultOK)'
    BY <1>11, FailBeforeLockFresh DEF StepFails
  <1>12. ASSUME NEW p \in Loaders, Decode(p)
        PROVE  (WindowOK /\ ReadOK /\ AloneOK /\ ResultOK)'
    <2> USE <1>12 DEF Decode, Goto, shared, history
    <2>1. WindowOK'
      BY DEF WindowOK, Values
    <2>2. ReadOK'
      BY DEF ReadOK, Values
    <2>3. AloneOK'
      BY DEF AloneOK, Active
    <2>4. ResultOK'
      BY DEF ResultOK
    <2> QED BY <2>1, <2>2, <2>3, <2>4
  <1>13. ASSUME NEW p \in Loaders, ApplyDefaults(p)
        PROVE  (WindowOK /\ ReadOK /\ AloneOK /\ ResultOK)'
    <2> USE <1>13 DEF ApplyDefaults, AfterDefaults, Goto, shared, history
    <2>1. WindowOK'
      BY DEF WindowOK, Values
    <2>2. ReadOK'
      BY DEF ReadOK, Values
    <2>3. AloneOK'
      BY DEF AloneOK, Active
    <2>4. ResultOK'
      BY DEF ResultOK
    <2> QED BY <2>1, <2>2, <2>3, <2>4
  <1>14. ASSUME NEW p \in Loaders, RunHook(p)
        PROVE  (WindowOK /\ ReadOK /\ AloneOK /\ ResultOK)'
    <2> USE <1>14 DEF RunHook, AfterHooks, Goto, shared, history
    <2>1. WindowOK'
      BY DEF WindowOK, Values
    <2>2. ReadOK'
      BY DEF ReadOK, Values
    <2>3. AloneOK'
      <3>1. \A q \in Loaders : /\ pc'[q] = "idle" <=> pc[q] = "idle"
                              /\ pc'[q] # "unlock" => pc[q] # "unlock"
        OBVIOUS
      <3>2. config' = config /\ startWorld' = startWorld /\ overlapped' = overlapped
        OBVIOUS
      <3>3. AloneOK
        OBVIOUS
      <3>4. \A a \in Loaders : Active(a)' /\ ~overlapped'[a] => Active(a) /\ ~overlapped[a]
        BY <3>1, <3>2 DEF Active
      <3>5. ASSUME NEW a \in Loaders, Active(a)', ~overlapped'[a]
            PROVE  \A b \in Loaders : b # a => ~Active(b)'
        BY <3>1, <3>3, <3>4, <3>5 DEF Active, AloneOK
      <3>6. ASSUME NEW a \in Loaders, Active(a)', ~overlapped'[a], pc'[a] # "unlock"
            PROVE  \A b \in Sources : config'.src[b] <= startWorld'[a][b]
        <4>1. Active(a) /\ ~overlapped[a] /\ pc[a] # "unlock"
          BY <3>1, <3>4, <3>6
        <4>2. \A b \in Sources : config.src[b] <= startWorld[a][b]
          BY <3>3, <4>1 DEF AloneOK
        <4> QED BY <3>2, <4>2
      <3> QED BY <3>5, <3>6 DEF AloneOK
    <2>4. ResultOK'
      BY DEF ResultOK
    <2> QED BY <2>1, <2>2, <2>3, <2>4
  <1>15. ASSUME NEW p \in Loaders, Validate(p)
        PROVE  (WindowOK /\ ReadOK /\ AloneOK /\ ResultOK)'
    <2> USE <1>15 DEF Validate, Goto, shared, history
    <2>1. WindowOK'
      BY DEF WindowOK, Values
    <2>2. ReadOK'
      BY DEF ReadOK, Values
    <2>3. AloneOK'
      BY DEF AloneOK, Active
    <2>4. ResultOK'
      BY DEF ResultOK
    <2> QED BY <2>1, <2>2, <2>3, <2>4
  <1>16. ASSUME NEW p \in Loaders, BindingFails(p)
        PROVE  (WindowOK /\ ReadOK /\ AloneOK /\ ResultOK)'
    <2> USE <1>16 DEF BindingFails, FailLocked, Goto, shared, history
    <2>1. WindowOK'
      BY DEF WindowOK, Values
    <2>2. ReadOK'
      BY DEF ReadOK, Values
    <2>3. AloneOK'
      BY DEF AloneOK, Active
    <2>4. ResultOK'
      BY DEF ResultOK
    <2> QED BY <2>1, <2>2, <2>3, <2>4
  <1>17. ASSUME NEW p \in Loaders, Bind(p)
        PROVE  (WindowOK /\ ReadOK /\ AloneOK /\ ResultOK)'
    <2> USE <1>17 DEF Bind, Goto
    <2>1. WindowOK'
      BY DEF WindowOK, Values
    <2>2. ReadOK'
      BY DEF ReadOK, Values
    <2>3. AloneOK'
      BY DEF AloneOK, Active
    <2>4. ResultOK'
      BY DEF ResultOK
    <2> QED BY <2>1, <2>2, <2>3, <2>4
  <1>18. ASSUME NEW p \in Loaders, Store(p)
        PROVE  (WindowOK /\ ReadOK /\ AloneOK /\ ResultOK)'
    <2> USE <1>18 DEF Store, Goto
    <2>1. WindowOK'
      BY DEF WindowOK, Values
    <2>2. ReadOK'
      BY DEF ReadOK, Values
    <2>3. AloneOK'
      BY DEF AloneOK, Active
    <2>4. ResultOK'
      BY DEF ResultOK
    <2> QED BY <2>1, <2>2, <2>3, <2>4
  <1>19. ASSUME NEW p \in Loaders, Unlock(p)
        PROVE  (WindowOK /\ ReadOK /\ AloneOK /\ ResultOK)'
    <2> USE <1>19 DEF Unlock, Leave, Goto
    <2>1. WindowOK'
      BY DEF WindowOK, Values, EmptyValues
    <2>2. ReadOK'
      BY DEF ReadOK, Values
    <2>3. AloneOK'
      BY DEF AloneOK, Active
    <2>4. ResultOK'
      BY DEF ResultOK
    <2> QED BY <2>1, <2>2, <2>3, <2>4
  <1>21. ASSUME NEW p \in Loaders, Reenter(p)
        PROVE  (WindowOK /\ ReadOK /\ AloneOK /\ ResultOK)'
    <2> USE <1>21 DEF Reenter, Goto, shared, history
    <2>1. WindowOK'
      BY DEF WindowOK, Values
    <2>2. ReadOK'
      BY DEF ReadOK, Values
    <2>3. AloneOK'
      BY DEF AloneOK, Active
    <2>4. ResultOK'
      BY DEF ResultOK
    <2> QED BY <2>1, <2>2, <2>3, <2>4
  <1>20. CASE UNCHANGED vars
    BY <1>20 DEF vars, WindowOK, ReadOK, AloneOK, ResultOK, Active
  <1> QED
    BY <1>1, <1>2, <1>3, <1>4, <1>5, <1>6, <1>7, <1>8, <1>9, <1>10, <1>11, <1>12, <1>13, <1>14, <1>15, <1>16, <1>17, <1>18, <1>19, <1>20, <1>21
       DEF Next, Running

\* The invariant of the windows holds for ever.
LEMMA FreshAlways == Spec => []FreshInv
  BY InitFreshInv, NextFreshInv, PTL DEF Spec

\* A call during which no other call was active replaces no source's data by
\* an older version, however often the sources change meanwhile
\* (src/synthra.go:209-308).
THEOREM AloneFreshness == Spec => AloneNeverGoesBack
  <1> DEFINE Step == \A p \in Loaders :
                       pc[p] = "store" /\ pc'[p] = "unlock" /\ ~overlapped[p]
                       => \A i \in Sources : config'.src[i] >= config.src[i]
  <1>1. FreshInv /\ [Next]_vars => [Step]_vars
    <2> SUFFICES ASSUME FreshInv, Next,
                        NEW p \in Loaders, pc[p] = "store", pc'[p] = "unlock",
                        ~overlapped[p], NEW i \in Sources
                 PROVE  config'.src[i] >= config.src[i]
      OBVIOUS
    <2> USE DEF FreshInv, TypeInv, TypeOK
    <2>1. CASE config' = config
      BY <2>1 DEF Values
    <2>2. CASE config' # config
      <3>1. PICK q \in Loaders : Store(q)
        BY <2>2 DEF Next, Running, SourceChange, Cancel, Begin, BeginNilContext,
                    AcquireLock, ContextLive, ContextDone, ReadSource, ReadVersion,
                    ReadSourceFails, RunStep, StepFails, Decode, ApplyDefaults,
                    RunHook, Validate, Reenter, BindingFails, Bind, Unlock,
                    FailBeforeLock, FailLocked, shared
      <3>2. q = p
        BY <3>1 DEF Store, Goto
      <3>3. /\ config.src[i] <= startWorld[p][i]
            /\ startWorld[p][i] <= newValues[p].src[i]
        BY DEF AloneOK, ReadOK, Active
      <3> QED BY <3>1, <3>2, <3>3 DEF Store, Values
    <2> QED BY <2>1, <2>2
  <1> QED BY <1>1, FreshAlways, PTL DEF Spec, AloneNeverGoesBack

-----------------------------------------------------------------------------
(* What a call writes: everything or nothing, and only finished values.    *)

\* A call has written nothing before Bind, and everything but the
\* configuration before Store.
WroteOK ==
    \A p \in Loaders :
        /\ pc[p] \notin {"idle", "store", "unlock"}
              => wrote[p] = {} /\ result[p] = "none"
        /\ pc[p] = "store" => wrote[p] = Targets \ {"config"} /\ result[p] = "none"
        /\ pc[p] \in {"decode", "defaults", "hook", "validate", "bind"} => HasBinding

WroteInv == TypeInv /\ WroteOK /\ AllOrNothing

\* No call has written anything at first.
LEMMA InitWroteInv == Init => WroteInv
  BY InitTypeInv DEF Init, WroteInv, WroteOK, AllOrNothing

\* A call that fails outside the lock has written nothing.
LEMMA FailBeforeLockWrote ==
    ASSUME WroteInv, NEW p \in Loaders, NEW how \in {"error", "panic"},
           pc[p] \in {"check", "read", "step"}, FailBeforeLock(p, how)
    PROVE  (WroteOK /\ AllOrNothing)'
  BY DEF WroteInv, TypeInv, TypeOK, WroteOK, AllOrNothing, FailBeforeLock, Leave, Goto

\* Nor has a call that fails before Bind.
LEMMA FailLockedWrote ==
    ASSUME WroteInv, NEW p \in Loaders, NEW how \in {"error", "panic"},
           pc[p] \in {"decode", "defaults", "hook", "validate"}, FailLocked(p, how)
    PROVE  (WroteOK /\ AllOrNothing)'
  BY DEF WroteInv, TypeInv, TypeOK, WroteOK, AllOrNothing, FailLocked, Goto, shared, history

\* Every step keeps the record of writes in line with where the call is.
LEMMA NextWroteInv == WroteInv /\ [Next]_vars => WroteInv'
  <1> SUFFICES ASSUME WroteInv, [Next]_vars PROVE (WroteOK /\ AllOrNothing)'
    BY NextTypeInv DEF WroteInv
  <1> USE DEF WroteInv, TypeInv, TypeOK, WroteOK, AllOrNothing
  <1>1. ASSUME NEW i \in Sources, SourceChange(i) PROVE (WroteOK /\ AllOrNothing)'
    BY <1>1 DEF SourceChange, locals, history
  <1>2. ASSUME NEW p \in Loaders, Cancel(p) PROVE (WroteOK /\ AllOrNothing)'
    BY <1>2 DEF Cancel, shared, history
  <1>3. ASSUME NEW p \in Loaders, Begin(p) PROVE (WroteOK /\ AllOrNothing)'
    BY <1>3 DEF Begin, Active, AfterSources, Goto, shared
  <1>4. ASSUME NEW p \in Loaders, BeginNilContext(p) PROVE (WroteOK /\ AllOrNothing)'
    BY <1>4 DEF BeginNilContext, Active, shared
  <1>5. ASSUME NEW p \in Loaders, AcquireLock(p) PROVE (WroteOK /\ AllOrNothing)'
    BY <1>5 DEF AcquireLock, Goto, history, Targets
  <1>6. ASSUME NEW p \in Loaders, ContextLive(p) PROVE (WroteOK /\ AllOrNothing)'
    BY <1>6 DEF ContextLive, Goto, shared, history
  <1>7. ASSUME NEW p \in Loaders, ContextDone(p) PROVE (WroteOK /\ AllOrNothing)'
    BY <1>7, FailBeforeLockWrote DEF ContextDone
  <1>8. ASSUME NEW p \in Loaders, ReadSource(p) PROVE (WroteOK /\ AllOrNothing)'
    BY <1>8 DEF ReadSource, ReadVersion, AfterSources, Goto, shared
  <1>9. ASSUME NEW p \in Loaders, ReadSourceFails(p) PROVE (WroteOK /\ AllOrNothing)'
    BY <1>9, FailBeforeLockWrote DEF ReadSourceFails
  <1>10. ASSUME NEW p \in Loaders, RunStep(p) PROVE (WroteOK /\ AllOrNothing)'
    BY <1>10 DEF RunStep, Goto, shared, history
  <1>11. ASSUME NEW p \in Loaders, StepFails(p) PROVE (WroteOK /\ AllOrNothing)'
    BY <1>11, FailBeforeLockWrote DEF StepFails, StepOutcomes
  <1>12. ASSUME NEW p \in Loaders, Decode(p) PROVE (WroteOK /\ AllOrNothing)'
    BY <1>12 DEF Decode, Goto, shared, history
  <1>13. ASSUME NEW p \in Loaders, ApplyDefaults(p) PROVE (WroteOK /\ AllOrNothing)'
    BY <1>13 DEF ApplyDefaults, AfterDefaults, Goto, shared, history
  <1>14. ASSUME NEW p \in Loaders, RunHook(p) PROVE (WroteOK /\ AllOrNothing)'
    BY <1>14, SMTT(30) DEF RunHook, AfterHooks, Goto, shared, history
  <1>15. ASSUME NEW p \in Loaders, Validate(p) PROVE (WroteOK /\ AllOrNothing)'
    BY <1>15 DEF Validate, Goto, shared, history
  <1>16. ASSUME NEW p \in Loaders, BindingFails(p) PROVE (WroteOK /\ AllOrNothing)'
    <2>1. PICK how \in {"error", "panic"} : FailLocked(p, how)
      BY <1>16 DEF BindingFails
    <2>2. pc[p] \in {"decode", "defaults", "hook", "validate"}
      BY <1>16 DEF BindingFails
    <2> QED BY <2>1, <2>2, FailLockedWrote
  <1>17. ASSUME NEW p \in Loaders, Bind(p) PROVE (WroteOK /\ AllOrNothing)'
    BY <1>17 DEF Bind, Goto, Targets
  <1>18. ASSUME NEW p \in Loaders, Store(p) PROVE (WroteOK /\ AllOrNothing)'
    BY <1>18 DEF Store, Goto, Targets
  <1>19. ASSUME NEW p \in Loaders, Unlock(p) PROVE (WroteOK /\ AllOrNothing)'
    BY <1>19 DEF Unlock, Leave, Goto
  <1>21. ASSUME NEW p \in Loaders, Reenter(p)
        PROVE  (WroteOK /\ AllOrNothing)'
    BY <1>21 DEF Reenter, Goto, shared, history
  <1>20. CASE UNCHANGED vars
    BY <1>20 DEF vars
  <1> QED
    BY <1>1, <1>2, <1>3, <1>4, <1>5, <1>6, <1>7, <1>8, <1>9, <1>10, <1>11, <1>12, <1>13, <1>14, <1>15, <1>16, <1>17, <1>18, <1>19, <1>20, <1>21
       DEF Next, Running

\* A call that fails or panics wrote neither the bound struct nor the
\* configuration; a call that succeeds wrote both (src/synthra.go:281-310).
THEOREM NoPartialWrite == Spec => []AllOrNothing
  <1>1. Spec => []WroteInv
    BY InitWroteInv, NextWroteInv, PTL DEF Spec
  <1>2. WroteInv => AllOrNothing
    BY DEF WroteInv
  <1> QED BY <1>1, <1>2, PTL

\* How far the map of a call has come.
MapOK ==
    /\ \A i \in Sources : world[i] > 0
    /\ \A p \in Loaders :
        /\ pc[p] = "idle" => newValues[p] = EmptyValues
        /\ pc[p] \in {"check", "read"}
              => /\ \A i \in Sources : i < idx[p] => newValues[p].src[i] > 0
                 /\ newValues[p].steps = 0
        /\ pc[p] = "step"
              => /\ \A i \in Sources : newValues[p].src[i] > 0
                 /\ newValues[p].steps + 1 = idx[p]
        /\ pc[p] \in {"lock", "decode", "defaults", "hook", "validate", "bind", "store"}
              => Complete(newValues[p])

\* How far the struct of a call has come.
StructOK ==
    \A p \in Loaders :
        LET t == tempBinding[p] IN
        /\ pc[p] = "defaults"
              => Complete(t.values) /\ t.hooks = 0 /\ ~t.checked
        /\ pc[p] = "hook"
              => Complete(t.values) /\ t.defaulted /\ t.hooks + 1 = idx[p] /\ ~t.checked
        /\ pc[p] = "validate"
              => Complete(t.values) /\ t.defaulted /\ t.hooks = NumHooks /\ HasValidate
        /\ pc[p] = "bind" => Finished(t)

CompleteInv == TypeInv /\ MapOK /\ StructOK /\ PublishedIsComplete

\* At first every map is empty and every struct zero.
LEMMA InitCompleteInv == Init => CompleteInv
  BY InitTypeInv DEF Init, CompleteInv, MapOK, StructOK, PublishedIsComplete

\* A call that fails outside the lock publishes nothing.
LEMMA FailBeforeLockComplete ==
    ASSUME CompleteInv, NEW p \in Loaders, NEW how, FailBeforeLock(p, how)
    PROVE  (MapOK /\ StructOK /\ PublishedIsComplete)'
  BY DEF CompleteInv, TypeInv, TypeOK, MapOK, StructOK, PublishedIsComplete,
         FailBeforeLock, Leave, Goto, shared, Complete, Finished

\* The index at which a loop ends is its last.
LEMMA LastIndex ==
    \A n \in Nat : \A i \in 1..n : ~(i < n) => i = n
  OBVIOUS

\* Every step keeps the maps and structs as complete as the place of the call says.
LEMMA NextCompleteInv == CompleteInv /\ [Next]_vars => CompleteInv'
  <1> SUFFICES ASSUME CompleteInv, [Next]_vars
               PROVE  (MapOK /\ StructOK /\ PublishedIsComplete)'
    BY NextTypeInv DEF CompleteInv
  <1> USE DEF CompleteInv, TypeInv, TypeOK
  <1>1. ASSUME NEW i \in Sources, SourceChange(i)
        PROVE  (MapOK /\ StructOK /\ PublishedIsComplete)'
    BY <1>1 DEF SourceChange, locals, history, MapOK, StructOK,
                PublishedIsComplete, Complete, Finished
  <1>2. ASSUME NEW p \in Loaders, Cancel(p)
        PROVE  (MapOK /\ StructOK /\ PublishedIsComplete)'
    <2> USE <1>2 DEF Cancel, shared, history
    <2>1. MapOK'
      BY DEF MapOK, Complete, Values
    <2>2. StructOK'
      BY DEF StructOK, MapOK, Complete, Finished, Structs
    <2>3. PublishedIsComplete'
      BY DEF PublishedIsComplete, MapOK, StructOK, Complete, Finished
    <2> QED BY <2>1, <2>2, <2>3
  <1>3. ASSUME NEW p \in Loaders, Begin(p)
        PROVE  (MapOK /\ StructOK /\ PublishedIsComplete)'
    <2> USE <1>3 DEF Begin, Active, AfterSources, Goto, shared
    <2>1. MapOK'
      <3>1. Complete(EmptyValues) \/ NumSources > 0 \/ NumSteps > 0
        BY NumSourcesAssumption, NumStepsAssumption DEF Complete, EmptyValues, Sources
      <3>2. newValues[p] = EmptyValues
        BY DEF MapOK
      <3>3. \A q \in Loaders : q # p => pc'[q] = pc[q] /\ idx'[q] = idx[q]
        OBVIOUS
      <3>4. CASE NumSources > 0
        <4>1. pc'[p] = "check" /\ idx'[p] = 1
          BY <3>4
        <4>2. \A i \in Sources : ~(i < 1)
          BY DEF Sources
        <4> QED BY <3>2, <3>3, <4>1, <4>2 DEF MapOK, EmptyValues
      <3>5. CASE ~(NumSources > 0)
        <4>1. pc'[p] = AfterSources /\ idx'[p] = 1
          BY <3>5
        <4>2. Sources = {}
          BY <3>5, NumSourcesAssumption DEF Sources
        <4> QED BY <3>1, <3>2, <3>3, <3>5, <4>1, <4>2 DEF MapOK, EmptyValues
      <3> QED BY <3>4, <3>5
    <2>2. StructOK'
      BY DEF StructOK, MapOK, Complete, Finished, Structs
    <2>3. PublishedIsComplete'
      BY DEF PublishedIsComplete, MapOK, StructOK, Complete, Finished
    <2> QED BY <2>1, <2>2, <2>3
  <1>4. ASSUME NEW p \in Loaders, BeginNilContext(p)
        PROVE  (MapOK /\ StructOK /\ PublishedIsComplete)'
    <2> USE <1>4 DEF BeginNilContext, Active, shared
    <2>1. MapOK'
      BY DEF MapOK, Complete, Values
    <2>2. StructOK'
      BY DEF StructOK, MapOK, Complete, Finished, Structs
    <2>3. PublishedIsComplete'
      BY DEF PublishedIsComplete, MapOK, StructOK, Complete, Finished
    <2> QED BY <2>1, <2>2, <2>3
  <1>5. ASSUME NEW p \in Loaders, AcquireLock(p)
        PROVE  (MapOK /\ StructOK /\ PublishedIsComplete)'
    <2> USE <1>5 DEF AcquireLock, Goto, history
    <2>1. MapOK'
      BY DEF MapOK, Complete, Values
    <2>2. StructOK'
      BY DEF StructOK, MapOK, Complete, Finished, Structs
    <2>3. PublishedIsComplete'
      BY DEF PublishedIsComplete, MapOK, StructOK, Complete, Finished
    <2> QED BY <2>1, <2>2, <2>3
  <1>6. ASSUME NEW p \in Loaders, ContextLive(p)
        PROVE  (MapOK /\ StructOK /\ PublishedIsComplete)'
    <2> USE <1>6 DEF ContextLive, Goto, shared, history
    <2>1. MapOK'
      BY DEF MapOK, Complete, Values
    <2>2. StructOK'
      BY DEF StructOK, MapOK, Complete, Finished, Structs
    <2>3. PublishedIsComplete'
      BY DEF PublishedIsComplete, MapOK, StructOK, Complete, Finished
    <2> QED BY <2>1, <2>2, <2>3
  <1>7. ASSUME NEW p \in Loaders, ContextDone(p)
        PROVE  (MapOK /\ StructOK /\ PublishedIsComplete)'
    BY <1>7, FailBeforeLockComplete DEF ContextDone
  <1>8. ASSUME NEW p \in Loaders, ReadSource(p)
        PROVE  (MapOK /\ StructOK /\ PublishedIsComplete)'
    <2> USE <1>8 DEF ReadSource, ReadVersion, AfterSources, Goto, shared
    <2>1. MapOK'
      <3>1. idx[p] \in Sources
        BY DEF IndexOK
      <3>2. /\ newValues'[p].src = [newValues[p].src EXCEPT ![idx[p]] = world[idx[p]]]
            /\ newValues'[p].steps = newValues[p].steps
            /\ newValues[p].src \in [Sources -> Nat]
        BY <3>1 DEF Values
      <3>3. /\ \A i \in Sources : i <= idx[p] => newValues'[p].src[i] > 0
            /\ newValues'[p].steps = 0
        <4>1. /\ world[idx[p]] > 0
              /\ newValues[p].steps = 0
              /\ \A i \in Sources : i < idx[p] => newValues[p].src[i] > 0
          BY <3>1 DEF MapOK
        <4>2. \A i \in Sources : i <= idx[p] => i < idx[p] \/ i = idx[p]
          BY <3>1 DEF Sources
        <4> QED BY <3>1, <3>2, <4>1, <4>2
      <3>4. \A q \in Loaders : q # p => pc'[q] = pc[q] /\ idx'[q] = idx[q]
                                        /\ newValues'[q] = newValues[q]
        OBVIOUS
      <3>5. CASE idx[p] < NumSources
        <4>1. pc'[p] = "check" /\ idx'[p] = idx[p] + 1
          BY <3>5
        <4> QED BY <3>1, <3>3, <3>4, <4>1, SMTT(30) DEF MapOK, Complete, Sources
      <3>6. CASE ~(idx[p] < NumSources)
        <4>1. pc'[p] = AfterSources /\ idx'[p] = 1
          BY <3>6
        <4>2. /\ \A i \in Sources : newValues'[p].src[i] > 0
              /\ NumSteps > 0 \/ Complete(newValues'[p])
          BY <3>1, <3>3, <3>6, NumSourcesAssumption, NumStepsAssumption
             DEF Sources, Complete
        <4> QED BY <3>3, <3>4, <4>1, <4>2 DEF MapOK, Complete
      <3> QED BY <3>5, <3>6
    <2>2. StructOK'
      BY DEF StructOK, MapOK, Complete, Finished, Structs
    <2>3. PublishedIsComplete'
      BY DEF PublishedIsComplete, MapOK, StructOK, Complete, Finished
    <2> QED BY <2>1, <2>2, <2>3
  <1>9. ASSUME NEW p \in Loaders, ReadSourceFails(p)
        PROVE  (MapOK /\ StructOK /\ PublishedIsComplete)'
    BY <1>9, FailBeforeLockComplete DEF ReadSourceFails
  <1>10. ASSUME NEW p \in Loaders, RunStep(p)
        PROVE  (MapOK /\ StructOK /\ PublishedIsComplete)'
    <2> USE <1>10 DEF RunStep, Goto, shared, history
    <2>1. MapOK'
      <3>1. idx[p] \in 1..NumSteps
        BY DEF IndexOK
      <3>2. /\ newValues'[p].src = newValues[p].src
            /\ newValues'[p].steps = idx[p]
            /\ \A i \in Sources : newValues[p].src[i] > 0
        BY DEF Values, MapOK
      <3>3. \A q \in Loaders : q # p => pc'[q] = pc[q] /\ idx'[q] = idx[q]
                                        /\ newValues'[q] = newValues[q]
        OBVIOUS
      <3>4. CASE idx[p] < NumSteps
        <4>1. pc'[p] = "step" /\ idx'[p] = idx[p] + 1
          BY <3>4
        <4> QED BY <3>2, <3>3, <4>1 DEF MapOK, Complete
      <3>5. CASE ~(idx[p] < NumSteps)
        <4>1. idx[p] = NumSteps
          BY <3>1, <3>5, LastIndex, NumStepsAssumption
        <4>2. pc'[p] = "lock"
          BY <3>5
        <4>3. Complete(newValues'[p])
          BY <3>2, <4>1 DEF Complete
        <4> QED BY <3>3, <4>2, <4>3 DEF MapOK
      <3> QED BY <3>4, <3>5
    <2>2. StructOK'
      BY DEF StructOK, MapOK, Complete, Finished, Structs
    <2>3. PublishedIsComplete'
      BY DEF PublishedIsComplete, MapOK, StructOK, Complete, Finished
    <2> QED BY <2>1, <2>2, <2>3
  <1>11. ASSUME NEW p \in Loaders, StepFails(p)
        PROVE  (MapOK /\ StructOK /\ PublishedIsComplete)'
    BY <1>11, FailBeforeLockComplete DEF StepFails
  <1>12. ASSUME NEW p \in Loaders, Decode(p)
        PROVE  (MapOK /\ StructOK /\ PublishedIsComplete)'
    <2> USE <1>12 DEF Decode, Goto, shared, history
    <2>1. MapOK'
      BY DEF MapOK, Complete, Values
    <2>2. StructOK'
      <3>1. /\ tempBinding'[p].values = newValues[p]
            /\ tempBinding'[p].hooks = 0
            /\ ~tempBinding'[p].checked
        BY DEF ZeroStruct
      <3> QED BY <3>1 DEF StructOK, MapOK
    <2>3. PublishedIsComplete'
      BY DEF PublishedIsComplete, MapOK, StructOK, Complete, Finished
    <2> QED BY <2>1, <2>2, <2>3
  <1>13. ASSUME NEW p \in Loaders, ApplyDefaults(p)
        PROVE  (MapOK /\ StructOK /\ PublishedIsComplete)'
    <2> USE <1>13 DEF ApplyDefaults, AfterDefaults, Goto, shared, history
    <2>1. MapOK'
      BY DEF MapOK, Complete, Values
    <2>2. StructOK'
      <3>1. /\ tempBinding'[p].values = tempBinding[p].values
            /\ tempBinding'[p].defaulted
            /\ tempBinding'[p].hooks = 0
            /\ tempBinding'[p].checked = FALSE
        BY DEF StructOK, Structs
      <3>2. Complete(tempBinding[p].values)
        BY DEF StructOK
      <3>3. \A q \in Loaders : q # p => pc'[q] = pc[q] /\ idx'[q] = idx[q]
                                        /\ tempBinding'[q] = tempBinding[q]
        OBVIOUS
      <3>4. CASE NumHooks > 0
        <4>1. pc'[p] = "hook" /\ idx'[p] = 1
          BY <3>4
        <4> QED BY <3>1, <3>2, <3>3, <4>1 DEF StructOK
      <3>5. CASE ~(NumHooks > 0)
        <4>1. NumHooks = 0
          BY <3>5, NumHooksAssumption
        <4>2. CASE HasValidate
          <5>1. pc'[p] = "validate"
            BY <3>5, <4>2
          <5> QED BY <3>1, <3>2, <3>3, <4>1, <4>2, <5>1 DEF StructOK
        <4>3. CASE ~HasValidate
          <5>1. pc'[p] = "bind"
            BY <3>5, <4>3
          <5>2. Finished(tempBinding'[p])
            BY <3>1, <3>2, <4>1, <4>3, HasValidateAssumption DEF Finished
          <5> QED BY <3>3, <5>1, <5>2 DEF StructOK
        <4> QED BY <4>2, <4>3
      <3> QED BY <3>4, <3>5
    <2>3. PublishedIsComplete'
      BY DEF PublishedIsComplete, MapOK, StructOK, Complete, Finished
    <2> QED BY <2>1, <2>2, <2>3
  <1>14. ASSUME NEW p \in Loaders, RunHook(p)
        PROVE  (MapOK /\ StructOK /\ PublishedIsComplete)'
    <2> USE <1>14 DEF RunHook, AfterHooks, Goto, shared, history
    <2>1. MapOK'
      BY DEF MapOK, Complete, Values
    <2>2. StructOK'
      <3>1. idx[p] \in 1..NumHooks
        BY DEF IndexOK
      <3>2. /\ tempBinding'[p].values = tempBinding[p].values
            /\ tempBinding'[p].defaulted
            /\ tempBinding'[p].hooks = idx[p]
            /\ tempBinding'[p].checked = FALSE
            /\ Complete(tempBinding[p].values)
        BY DEF StructOK, Structs
      <3>3. \A q \in Loaders : q # p => pc'[q] = pc[q] /\ idx'[q] = idx[q]
                                        /\ tempBinding'[q] = tempBinding[q]
        OBVIOUS
      <3>4. CASE idx[p] < NumHooks
        <4>1. pc'[p] = "hook" /\ idx'[p] = idx[p] + 1
          BY <3>4
        <4> QED BY <3>2, <3>3, <4>1 DEF StructOK
      <3>5. CASE ~(idx[p] < NumHooks)
        <4>1. idx[p] = NumHooks
          BY <3>1, <3>5, LastIndex, NumHooksAssumption
        <4>2. CASE HasValidate
          BY <3>2, <3>3, <3>5, <4>1, <4>2 DEF StructOK
        <4>3. CASE ~HasValidate
          <5>1. Finished(tempBinding'[p])
            BY <3>2, <4>1, <4>3, HasValidateAssumption DEF Finished
          <5> QED BY <3>3, <3>5, <4>3, <5>1 DEF StructOK
        <4> QED BY <4>2, <4>3
      <3> QED BY <3>4, <3>5
    <2>3. PublishedIsComplete'
      BY DEF PublishedIsComplete, MapOK, StructOK, Complete, Finished
    <2> QED BY <2>1, <2>2, <2>3
  <1>15. ASSUME NEW p \in Loaders, Validate(p)
        PROVE  (MapOK /\ StructOK /\ PublishedIsComplete)'
    <2> USE <1>15 DEF Validate, Goto, shared, history
    <2>1. MapOK'
      BY DEF MapOK, Complete, Values
    <2>2. StructOK'
      <3>1. /\ tempBinding'[p] = [tempBinding[p] EXCEPT !.checked = TRUE]
            /\ Finished(tempBinding'[p])
        BY HasValidateAssumption, ZenonT(30) DEF StructOK, Structs, Finished
      <3> QED BY <3>1 DEF StructOK
    <2>3. PublishedIsComplete'
      BY DEF PublishedIsComplete, MapOK, StructOK, Complete, Finished
    <2> QED BY <2>1, <2>2, <2>3
  <1>16. ASSUME NEW p \in Loaders, BindingFails(p)
        PROVE  (MapOK /\ StructOK /\ PublishedIsComplete)'
    <2> USE <1>16 DEF BindingFails, FailLocked, Goto, shared, history
    <2>1. MapOK'
      BY DEF MapOK, Complete, Values
    <2>2. StructOK'
      BY DEF StructOK, MapOK, Complete, Finished, Structs
    <2>3. PublishedIsComplete'
      BY DEF PublishedIsComplete, MapOK, StructOK, Complete, Finished
    <2> QED BY <2>1, <2>2, <2>3
  <1>17. ASSUME NEW p \in Loaders, Bind(p)
        PROVE  (MapOK /\ StructOK /\ PublishedIsComplete)'
    <2> USE <1>17 DEF Bind, Goto
    <2>1. MapOK'
      BY DEF MapOK, Complete, Values
    <2>2. StructOK'
      BY DEF StructOK, MapOK, Complete, Finished, Structs
    <2>3. PublishedIsComplete'
      BY DEF PublishedIsComplete, MapOK, StructOK, Complete, Finished
    <2> QED BY <2>1, <2>2, <2>3
  <1>18. ASSUME NEW p \in Loaders, Store(p)
        PROVE  (MapOK /\ StructOK /\ PublishedIsComplete)'
    <2> USE <1>18 DEF Store, Goto
    <2>1. MapOK'
      BY DEF MapOK, Complete, Values
    <2>2. StructOK'
      BY DEF StructOK, MapOK, Complete, Finished, Structs
    <2>3. PublishedIsComplete'
      BY DEF PublishedIsComplete, MapOK, StructOK, Complete, Finished
    <2> QED BY <2>1, <2>2, <2>3
  <1>19. ASSUME NEW p \in Loaders, Unlock(p)
        PROVE  (MapOK /\ StructOK /\ PublishedIsComplete)'
    <2> USE <1>19 DEF Unlock, Leave, Goto
    <2>1. MapOK'
      BY DEF MapOK, Complete, Values
    <2>2. StructOK'
      BY DEF StructOK, MapOK, Complete, Finished, Structs
    <2>3. PublishedIsComplete'
      BY DEF PublishedIsComplete, MapOK, StructOK, Complete, Finished
    <2> QED BY <2>1, <2>2, <2>3
  <1>21. ASSUME NEW p \in Loaders, Reenter(p)
        PROVE  (MapOK /\ StructOK /\ PublishedIsComplete)'
    <2> USE <1>21 DEF Reenter, Goto, shared, history
    <2>1. MapOK'
      BY DEF MapOK, Complete, Values
    <2>2. StructOK'
      BY DEF StructOK, MapOK, Complete, Finished, Structs
    <2>3. PublishedIsComplete'
      BY DEF PublishedIsComplete, MapOK, StructOK, Complete, Finished
    <2> QED BY <2>1, <2>2, <2>3
  <1>20. CASE UNCHANGED vars
    BY <1>20 DEF vars, MapOK, StructOK, PublishedIsComplete, Complete, Finished
  <1> QED
    BY <1>1, <1>2, <1>3, <1>4, <1>5, <1>6, <1>7, <1>8, <1>9, <1>10, <1>11, <1>12, <1>13, <1>14, <1>15, <1>16, <1>17, <1>18, <1>19, <1>20, <1>21
       DEF Next, Running

\* What is published went through every source and step, and the struct also
\* through the defaults, every hook and its Validate (src/synthra.go:213-308).
THEOREM Completeness == Spec => []PublishedIsComplete
  <1>1. Spec => []CompleteInv
    BY InitCompleteInv, NextCompleteInv, PTL DEF Spec
  <1>2. CompleteInv => PublishedIsComplete
    BY DEF CompleteInv
  <1> QED BY <1>1, <1>2, PTL

-----------------------------------------------------------------------------
(* Load implements ConfigStore.                                            *)

\* The initial states of SynthraLoad are initial states of ConfigStore.
LEMMA InitAbstract == Init => Abstract!Init
  BY DEF Init, Abstract!Init, Abstract!None, EmptyValues, Phase, Active

\* A failing call that leaves before the lock is an abstract return.
LEMMA FailBeforeLockAbstract ==
    ASSUME FreshInv, NEW p \in Loaders, NEW how, pc[p] \in {"check", "read", "step"},
           FailBeforeLock(p, how)
    PROVE  Abstract!Return(p)
  <1> USE DEF FreshInv, TypeInv, TypeOK, ResultOK, FailBeforeLock, Leave, Goto, shared
  <1>1. Phase(p) = "loading"
    BY DEF Phase, Active
  <1>2. [q \in Loaders |-> Phase(q)]' = [[q \in Loaders |-> Phase(q)] EXCEPT ![p] = "idle"]
    BY DEF Phase, Active
  <1> QED BY <1>1, <1>2 DEF Abstract!Return, Abstract!None

\* A step that leaves the phases, the windows, the world and the configuration
\* alone is a stutter.
LEMMA StutterAbstract ==
    ASSUME UNCHANGED <<world, config, startWorld>>,
           \A p \in Loaders : Phase(p)' = Phase(p)
    PROVE  UNCHANGED Abstract!vars
  BY DEF Abstract!vars

\* Every step of SynthraLoad is a step of ConfigStore or changes nothing of it.
LEMMA NextAbstract == FreshInv /\ [Next]_vars => [Abstract!Next]_(Abstract!vars)
  <1> SUFFICES ASSUME FreshInv, [Next]_vars
               PROVE  Abstract!Next \/ UNCHANGED Abstract!vars
    OBVIOUS
  <1> USE DEF FreshInv, TypeInv, TypeOK
  <1>1. ASSUME NEW i \in Sources, SourceChange(i) PROVE Abstract!Next
    <2>1. \A p \in Loaders : Phase(p)' = Phase(p)
      BY <1>1 DEF SourceChange, locals, Phase, Active
    <2>2. Abstract!Change(i)
      BY <1>1, <2>1 DEF SourceChange, history, Abstract!Change
    <2> QED BY <2>2 DEF Abstract!Next
  <1>2. ASSUME NEW p \in Loaders, Cancel(p) PROVE UNCHANGED Abstract!vars
    BY <1>2, StutterAbstract DEF Cancel, Phase, Active, shared, history
  <1>3. ASSUME NEW p \in Loaders, Begin(p) PROVE Abstract!Next
    <2> USE <1>3 DEF Begin, Goto, Active, AfterSources, shared
    <2>1. Phase(p) = "idle" /\ Phase(p)' = "loading"
      BY DEF Phase
    <2>2. \A q \in Loaders : q # p => Phase(q)' = Phase(q)
      BY DEF Phase
    <2>3. [q \in Loaders |-> Phase(q)]' = [[q \in Loaders |-> Phase(q)] EXCEPT ![p] = "loading"]
      BY <2>1, <2>2
    <2>4. Abstract!Begin(p)
      BY <2>1, <2>3 DEF Abstract!Begin
    <2> QED BY <2>4 DEF Abstract!Next
  <1>4. ASSUME NEW p \in Loaders, BeginNilContext(p) PROVE UNCHANGED Abstract!vars
    BY <1>4, StutterAbstract DEF BeginNilContext, Phase, Active, shared
  <1>5. ASSUME NEW p \in Loaders, AcquireLock(p) PROVE UNCHANGED Abstract!vars
    BY <1>5, StutterAbstract DEF AcquireLock, Goto, Phase, Active, history
  <1>6. ASSUME NEW p \in Loaders, ContextLive(p) PROVE UNCHANGED Abstract!vars
    BY <1>6, StutterAbstract DEF ContextLive, Goto, Phase, Active, shared, history
  <1>7. ASSUME NEW p \in Loaders,
               ContextDone(p) \/ ReadSourceFails(p) \/ StepFails(p)
        PROVE  Abstract!Next
    <2>1. Abstract!Return(p)
      BY <1>7, FailBeforeLockAbstract DEF ContextDone, ReadSourceFails, StepFails
    <2> QED BY <2>1 DEF Abstract!Next
  <1>8. ASSUME NEW p \in Loaders, ReadSource(p) PROVE UNCHANGED Abstract!vars
    BY <1>8, StutterAbstract DEF ReadSource, ReadVersion, AfterSources, Goto, Phase, Active, shared
  <1>9. ASSUME NEW p \in Loaders, RunStep(p) PROVE UNCHANGED Abstract!vars
    BY <1>9, StutterAbstract DEF RunStep, Goto, Phase, Active, shared, history
  <1>10. ASSUME NEW p \in Loaders, Decode(p) PROVE UNCHANGED Abstract!vars
    BY <1>10, StutterAbstract DEF Decode, Goto, Phase, Active, shared, history
  <1>11. ASSUME NEW p \in Loaders, ApplyDefaults(p) PROVE UNCHANGED Abstract!vars
    BY <1>11, StutterAbstract DEF ApplyDefaults, AfterDefaults, Goto, Phase, Active, shared, history
  <1>12. ASSUME NEW p \in Loaders, RunHook(p) PROVE UNCHANGED Abstract!vars
    BY <1>12, StutterAbstract DEF RunHook, AfterHooks, Goto, Phase, Active, shared, history
  <1>13. ASSUME NEW p \in Loaders, Validate(p) PROVE UNCHANGED Abstract!vars
    BY <1>13, StutterAbstract DEF Validate, Goto, Phase, Active, shared, history
  <1>14. ASSUME NEW p \in Loaders, Bind(p) PROVE UNCHANGED Abstract!vars
    BY <1>14, StutterAbstract DEF Bind, Goto, Phase, Active
  <1>15. ASSUME NEW p \in Loaders, BindingFails(p) PROVE UNCHANGED Abstract!vars
    BY <1>15, StutterAbstract DEF BindingFails, FailLocked, Goto, Phase, Active,
                                 ResultOK, shared, history
  <1>16. ASSUME NEW p \in Loaders, Store(p) PROVE Abstract!Next
    <2> USE <1>16 DEF Store, Goto
    <2>1. Phase(p) = "loading" /\ Phase(p)' = "published"
      BY DEF Phase, Active, ResultOK
    <2>2. [q \in Loaders |-> Phase(q)]' = [[q \in Loaders |-> Phase(q)] EXCEPT ![p] = "published"]
      BY <2>1 DEF Phase, Active
    <2>3. /\ config'.src \in [Sources -> Nat]
          /\ \A i \in Sources : /\ startWorld[p][i] <= config'.src[i]
                               /\ config'.src[i] <= world[i]
      BY DEF ReadOK, WindowOK, Values
    <2>4. Abstract!Publish(p)
      BY <2>1, <2>2, <2>3 DEF Abstract!Publish
    <2> QED BY <2>4 DEF Abstract!Next
  <1>17. ASSUME NEW p \in Loaders, Unlock(p) PROVE Abstract!Next
    <2> USE <1>17 DEF Unlock, Leave, Goto
    <2>1. Phase(p) \in {"loading", "published"} /\ Phase(p)' = "idle"
      BY DEF Phase, Active
    <2>2. [q \in Loaders |-> Phase(q)]' = [[q \in Loaders |-> Phase(q)] EXCEPT ![p] = "idle"]
      BY <2>1 DEF Phase, Active
    <2>3. Abstract!Return(p)
      BY <2>1, <2>2 DEF Abstract!Return, Abstract!None
    <2> QED BY <2>3 DEF Abstract!Next
  <1>19. ASSUME NEW p \in Loaders, Reenter(p) PROVE UNCHANGED Abstract!vars
    BY <1>19, StutterAbstract DEF Reenter, Goto, Phase, Active, shared, history
  <1>18. CASE UNCHANGED vars
    BY <1>18, StutterAbstract DEF vars, Phase, Active
  <1> QED
    BY <1>1, <1>2, <1>3, <1>4, <1>5, <1>6, <1>7, <1>8, <1>9, <1>10, <1>11, <1>12, <1>13, <1>14, <1>15, <1>16, <1>17, <1>18, <1>19
       DEF Next, Running

\* Load implements the promise of ConfigStore: an error or a panic publishes
\* nothing, and every source's part of a published configuration is a version
\* that source had during the call (src/synthra.go:238-311).
THEOREM Refinement == Spec => ImplementsConfigStore
  <1>1. Init => Abstract!Init
    BY InitAbstract
  <1>2. FreshInv /\ [Next]_vars => [Abstract!Next]_(Abstract!vars)
    BY NextAbstract
  <1> QED BY <1>1, <1>2, FreshAlways, PTL
          DEF Spec, ImplementsConfigStore, Abstract!Spec
-----------------------------------------------------------------------------
(* Cancellation.  A call is at "read" only after a check that found the    *)
(* context live, so no read before that was late.                          *)

LateOK ==
    \A p \in Loaders :
        /\ lateReads[p] \in {0, 1}
        /\ pc[p] = "read" => lateReads[p] = 0
        /\ lateReads[p] = 1 => cancelled[p]

CancelInv == TypeInv /\ LateOK

\* No read was late at first.
LEMMA InitCancelInv == Init => CancelInv
  BY InitTypeInv DEF Init, CancelInv, LateOK

\* The end of a call forgets its late reads.
LEMMA LeaveLate ==
    ASSUME CancelInv, NEW p \in Loaders, Leave(p)
    PROVE  LateOK'
  BY DEF CancelInv, TypeInv, TypeOK, LateOK, Leave, Goto

\* Every step keeps the late reads of a call at one.
LEMMA NextCancelInv == CancelInv /\ [Next]_vars => CancelInv'
  <1> SUFFICES ASSUME CancelInv, [Next]_vars PROVE LateOK'
    BY NextTypeInv DEF CancelInv
  <1> USE DEF CancelInv, TypeInv, TypeOK, LateOK, Goto
  <1>1. ASSUME NEW i \in Sources, SourceChange(i) PROVE LateOK'
    BY <1>1 DEF SourceChange, locals, history
  <1>2. ASSUME NEW p \in Loaders, Cancel(p) PROVE LateOK'
    BY <1>2 DEF Cancel, history
  <1>3. ASSUME NEW p \in Loaders, Begin(p) PROVE LateOK'
    BY <1>3 DEF Begin, AfterSources
  <1>4. ASSUME NEW p \in Loaders, BeginNilContext(p) PROVE LateOK'
    BY <1>4 DEF BeginNilContext
  <1>5. ASSUME NEW p \in Loaders, AcquireLock(p) PROVE LateOK'
    BY <1>5 DEF AcquireLock, history
  <1>6. ASSUME NEW p \in Loaders, ContextLive(p) PROVE LateOK'
    BY <1>6 DEF ContextLive, history
  <1>7. ASSUME NEW p \in Loaders, ReadSource(p) PROVE LateOK'
    BY <1>7 DEF ReadSource, ReadVersion, AfterSources
  <1>8. ASSUME NEW p \in Loaders, NEW how, FailBeforeLock(p, how) PROVE LateOK'
    BY <1>8, LeaveLate DEF FailBeforeLock
  <1>9. ASSUME NEW p \in Loaders, NEW how, FailLocked(p, how) PROVE LateOK'
    BY <1>9 DEF FailLocked, history
  <1>10. ASSUME NEW p \in Loaders, RunStep(p) PROVE LateOK'
    BY <1>10 DEF RunStep, history
  <1>11. ASSUME NEW p \in Loaders, Decode(p) \/ ApplyDefaults(p) PROVE LateOK'
    BY <1>11 DEF Decode, ApplyDefaults, AfterDefaults, history
  <1>12. ASSUME NEW p \in Loaders, RunHook(p) \/ Validate(p) PROVE LateOK'
    BY <1>12 DEF RunHook, Validate, AfterHooks, history
  <1>13. ASSUME NEW p \in Loaders, Bind(p) \/ Store(p) PROVE LateOK'
    BY <1>13 DEF Bind, Store
  <1>14. ASSUME NEW p \in Loaders, Unlock(p) PROVE LateOK'
    BY <1>14, LeaveLate DEF Unlock
  <1>17. ASSUME NEW p \in Loaders, Reenter(p) PROVE LateOK'
    BY <1>17 DEF Reenter, history
  <1>15. ASSUME UNCHANGED vars PROVE LateOK'
    BY <1>15 DEF vars
  <1>16. ASSUME NEW p \in Loaders, Running(p) PROVE LateOK'
    BY <1>6, <1>7, <1>8, <1>9, <1>10, <1>11, <1>12, <1>13, <1>14, <1>16
    DEF Running, ContextDone, ReadSourceFails, StepFails, BindingFails
  <1> QED BY <1>1, <1>2, <1>3, <1>4, <1>5, <1>15, <1>16, <1>17 DEF Next

\* A call whose context is done finishes at most the read it is in
\* (src/synthra.go:216-218): CancelStopsReading.
THEOREM Cancellation == Spec => []CancelStopsReading
  <1>1. Spec => []CancelInv
    BY InitCancelInv, NextCancelInv, PTL DEF Spec
  <1>2. CancelInv => CancelStopsReading
    <2> SUFFICES ASSUME CancelInv, NEW p \in Loaders PROVE lateReads[p] <= 1
      BY DEF CancelStopsReading
    <2>1. lateReads[p] = 0 \/ lateReads[p] = 1
      BY DEF CancelInv, LateOK
    <2> QED BY <2>1
  <1> QED BY <1>1, <1>2, PTL

-----------------------------------------------------------------------------
(* A call that waits for its own mutex holds it for ever, and only the     *)
(* owner of the mutex publishes.                                           *)

\* No step moves a call that waits for its own mutex.
LEMMA ReenteredStays ==
    ASSUME TypeInv, [Next]_vars, NEW p \in Loaders, pc[p] = "reentered"
    PROVE  pc'[p] = "reentered"
  <1> USE DEF TypeInv, TypeOK, Goto
  <1>1. ASSUME NEW i \in Sources, SourceChange(i) PROVE pc'[p] = pc[p]
    BY <1>1 DEF SourceChange, locals
  <1>2. ASSUME NEW q \in Loaders,
               Cancel(q) \/ Begin(q) \/ BeginNilContext(q) \/ AcquireLock(q) \/ Reenter(q)
        PROVE  pc'[p] = pc[p]
    BY <1>2 DEF Cancel, Begin, BeginNilContext, AcquireLock, Reenter, Active
  <1>3. ASSUME NEW q \in Loaders, Running(q) PROVE pc'[p] = pc[p]
    <2>1. pc[q] # "reentered"
      BY <1>3 DEF Running, ContextLive, ContextDone, ReadSource, ReadVersion,
                  ReadSourceFails, RunStep, StepFails, Decode, ApplyDefaults, RunHook,
                  Validate, BindingFails, Bind, Store, Unlock
    <2> QED
      BY <1>3, <2>1 DEF Running, ContextLive, ContextDone, ReadSource, ReadVersion,
                  ReadSourceFails, RunStep, StepFails, Decode, ApplyDefaults, RunHook,
                  Validate, BindingFails, Bind, Store, Unlock, FailBeforeLock,
                  FailLocked, Leave
  <1>4. UNCHANGED vars => pc'[p] = pc[p]
    BY DEF vars
  <1> QED BY <1>1, <1>2, <1>3, <1>4 DEF Next

\* While a call waits for its own mutex no other call is in the critical section,
\* so none writes the bound struct or the configuration.
LEMMA ReenteredPublishesNothing ==
    ASSUME CommitInv, [Next]_vars, NEW p \in Loaders, pc[p] = "reentered"
    PROVE  UNCHANGED <<config, binding>>
  <1>1. \A q \in Loaders : ~Bind(q) /\ ~Store(q)
    <2> SUFFICES ASSUME NEW q \in Loaders PROVE pc[q] \notin {"bind", "store"}
      BY DEF Bind, Store
    <2> QED BY DEF CommitInv, LockOK, Locked
  <1> QED
    BY <1>1 DEF Next, Running, SourceChange, Cancel, Begin, BeginNilContext,
                AcquireLock, ContextLive, ContextDone, ReadSource, ReadVersion,
                ReadSourceFails, RunStep, StepFails, Decode, ApplyDefaults,
                RunHook, Validate, Reenter, BindingFails, Unlock,
                FailBeforeLock, FailLocked, shared, vars

\* A hook or a Validate that waits for the mutex of its own call stops every
\* publication for ever (src/synthra.go:278-308): ReentryFreezes.
THEOREM ReentryFreeze == Spec => ReentryFreezes
  <1> DEFINE Step == \A p \in Loaders : pc[p] = "reentered" =>
                       pc'[p] = "reentered" /\ UNCHANGED <<config, binding>>
  <1>1. CommitInv /\ [Next]_vars => [Step]_vars
    BY ReenteredStays, ReenteredPublishesNothing DEF CommitInv
  <1>2. Spec => []CommitInv
    BY InitCommitInv, NextCommitInv, PTL DEF Spec
  <1> QED BY <1>1, <1>2, PTL DEF Spec, ReentryFreezes
=============================================================================
