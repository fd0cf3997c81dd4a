---------------------------- MODULE SynthraLoad ----------------------------
(***************************************************************************)
(* Concurrent calls of Synthra.Load (src/synthra.go:258-311) on one        *)
(* Synthra.                                                                *)
(*                                                                         *)
(* A call reads the sources one after the other, runs the pipeline steps,  *)
(* then takes loadMu, fills and validates a temporary struct, copies it    *)
(* into the bound struct and stores the new configuration.  The sources    *)
(* and the steps run OUTSIDE the lock.                                     *)
(*                                                                         *)
(* What a source returns is abstracted to a version number: world[i] is    *)
(* the version of the outside data (file, environment, Consul key) that    *)
(* source i reads, and it may grow at any time.  A value map is abstracted *)
(* to the version of each source merged into it (0: not merged) and the    *)
(* number of steps it went through.                                        *)
(***************************************************************************)
EXTENDS Naturals

CONSTANTS
    Loaders,       \* goroutines that call Load
    NoLoader,      \* owner of the free loadMu
    NumSources,    \* len(c.sources)
    NumSteps,      \* len(c.steps)
    StepKind,      \* kind() of every step
    HasBinding,    \* c.binding != nil
    NumHooks,      \* len(c.bindingHooks)
    HasValidate,   \* the bound struct implements Validator
    MaxVersion     \* bound: sources change only up to this version

Kinds == {"schema", "transform", "validator"}

ASSUME LoadersAssumption == NoLoader \notin Loaders
ASSUME NumSourcesAssumption == NumSources \in Nat
ASSUME NumStepsAssumption == NumSteps \in Nat
ASSUME StepKindAssumption == StepKind \in [1..NumSteps -> Kinds]
ASSUME HasBindingAssumption == HasBinding \in BOOLEAN
ASSUME NumHooksAssumption == NumHooks \in Nat
ASSUME HasValidateAssumption == HasValidate \in BOOLEAN
ASSUME MaxVersionAssumption == MaxVersion \in Nat \ {0}

Sources == 1..NumSources

VARIABLES
    \* Shared state
    world,        \* version of the data behind every source
    config,       \* the value map of the stored *Configuration
    binding,      \* the bound struct
    loadMu,       \* owner of the mutex
    \* Locals of the call each loader is in
    pc,
    idx,          \* loop index of the source, step or hook loop
    newValues,    \* the map being built
    tempBinding,  \* the struct being filled
    cancelled,    \* the context of the call is done
    result,       \* how the loader's last call ended
    \* History
    wrote,        \* what the call has written: "binding", "config"
    startWorld,   \* world when the call began
    overlapped,   \* another call was active during this one
    lateReads     \* sources read by the call after its context was done

shared  == <<world, config, binding, loadMu>>
locals  == <<pc, idx, newValues, tempBinding, cancelled, result>>
history == <<wrote, startWorld, overlapped, lateReads>>
vars    == <<world, config, binding, loadMu, pc, idx, newValues, tempBinding,
             cancelled, result, wrote, startWorld, overlapped, lateReads>>

Values == [src : [Sources -> Nat], steps : Nat]
EmptyValues == [src |-> [i \in Sources |-> 0], steps |-> 0]

\* A struct of the bound type: the map it was decoded from and what was done
\* to it since.
Structs == [values : Values, defaulted : BOOLEAN, hooks : Nat, checked : BOOLEAN]
ZeroStruct == [values |-> EmptyValues, defaulted |-> FALSE, hooks |-> 0,
               checked |-> FALSE]

PCs == {"idle", "check", "read", "step", "lock", "decode", "defaults", "hook",
        "validate", "reentered", "bind", "store", "unlock"}
Locked == {"decode", "defaults", "hook", "validate", "reentered", "bind", "store", "unlock"}

Active(p) == pc[p] # "idle"
Targets == IF HasBinding THEN {"binding", "config"} ELSE {"config"}

\* A map that went through the whole pipeline.
Complete(values) == /\ \A i \in Sources : values.src[i] > 0
                    /\ values.steps = NumSteps

\* A struct that went through the whole binding block.
Finished(struct) == /\ Complete(struct.values)
                    /\ struct.defaulted
                    /\ struct.hooks = NumHooks
                    /\ struct.checked = HasValidate

Init ==
    /\ world = [i \in Sources |-> 1]
    /\ config = EmptyValues
    /\ binding = ZeroStruct
    /\ loadMu = NoLoader
    /\ pc = [p \in Loaders |-> "idle"]
    /\ idx = [p \in Loaders |-> 1]
    /\ newValues = [p \in Loaders |-> EmptyValues]
    /\ tempBinding = [p \in Loaders |-> ZeroStruct]
    /\ cancelled = [p \in Loaders |-> FALSE]
    /\ result = [p \in Loaders |-> "none"]
    /\ wrote = [p \in Loaders |-> {}]
    /\ startWorld = [p \in Loaders |-> [i \in Sources |-> 0]]
    /\ overlapped = [p \in Loaders |-> FALSE]
    /\ lateReads = [p \in Loaders |-> 0]

-----------------------------------------------------------------------------
(* The environment: a source's data changes, a caller cancels its context. *)

SourceChange(i) ==
    /\ world[i] < MaxVersion
    /\ world' = [world EXCEPT ![i] = @ + 1]
    /\ UNCHANGED <<config, binding, loadMu, locals, history>>

Cancel(p) ==
    /\ Active(p)
    /\ ~cancelled[p]
    /\ cancelled' = [cancelled EXCEPT ![p] = TRUE]
    /\ UNCHANGED <<shared, pc, idx, newValues, tempBinding, result, history>>

-----------------------------------------------------------------------------
(* Control of a call *)

Goto(p, label, i) == /\ pc' = [pc EXCEPT ![p] = label]
                     /\ idx' = [idx EXCEPT ![p] = i]

\* The call is over: its locals are gone.
Leave(p) ==
    /\ Goto(p, "idle", 1)
    /\ newValues' = [newValues EXCEPT ![p] = EmptyValues]
    /\ tempBinding' = [tempBinding EXCEPT ![p] = ZeroStruct]
    /\ cancelled' = [cancelled EXCEPT ![p] = FALSE]
    /\ startWorld' = [startWorld EXCEPT ![p] = [i \in Sources |-> 0]]
    /\ overlapped' = [overlapped EXCEPT ![p] = FALSE]
    /\ lateReads' = [lateReads EXCEPT ![p] = 0]

\* An error return, or a panic, before the mutex is taken.
FailBeforeLock(p, how) ==
    /\ Leave(p)
    /\ result' = [result EXCEPT ![p] = how]
    /\ UNCHANGED <<shared, wrote>>

\* An error return, or a panic, with the mutex held: the deferred Unlock runs.
FailLocked(p, how) ==
    /\ Goto(p, "unlock", 1)
    /\ result' = [result EXCEPT ![p] = how]
    /\ UNCHANGED <<shared, newValues, tempBinding, cancelled, history>>

AfterSources == IF NumSteps > 0 THEN "step" ELSE "lock"
AfterDefaults == IF NumHooks > 0 THEN "hook"
                 ELSE IF HasValidate THEN "validate" ELSE "bind"
AfterHooks == IF HasValidate THEN "validate" ELSE "bind"

\* A call enters Load and allocates its map.
Begin(p) ==
    /\ ~Active(p)
    /\ Goto(p, IF NumSources > 0 THEN "check" ELSE AfterSources, 1)
    /\ result' = [result EXCEPT ![p] = "none"]
    /\ wrote' = [wrote EXCEPT ![p] = {}]
    /\ startWorld' = [startWorld EXCEPT ![p] = world]
    /\ overlapped' = [q \in Loaders |->
                        IF q = p THEN \E r \in Loaders : r # p /\ Active(r)
                        ELSE overlapped[q] \/ Active(q)]
    /\ UNCHANGED <<shared, newValues, tempBinding, cancelled, lateReads>>

\* Load(nil) fails before it does anything.
BeginNilContext(p) ==
    /\ ~Active(p)
    /\ result' = [result EXCEPT ![p] = "error"]
    /\ wrote' = [wrote EXCEPT ![p] = {}]
    /\ UNCHANGED <<shared, pc, idx, newValues, tempBinding, cancelled,
                   startWorld, overlapped, lateReads>>

-----------------------------------------------------------------------------
(* loadSourcesSequential: ctx.Err() before every source, then its Load and *)
(* deepMerge.                                                              *)

\* Bug variant: the check before a source is forgotten.
ContextLiveUnchecked(p) ==
    /\ pc[p] = "check"
    /\ Goto(p, "read", idx[p])
    /\ UNCHANGED <<shared, newValues, tempBinding, cancelled, result, history>>

ContextLive(p) ==
    /\ pc[p] = "check"
    /\ ~cancelled[p]
    /\ Goto(p, "read", idx[p])
    /\ UNCHANGED <<shared, newValues, tempBinding, cancelled, result, history>>

ContextDone(p) ==
    /\ pc[p] = "check"
    /\ cancelled[p]
    /\ FailBeforeLock(p, "error")

\* ReadSource returning version v of the source.
ReadVersion(p, v) ==
    /\ pc[p] = "read"
    /\ newValues' = [newValues EXCEPT ![p].src[idx[p]] = v]
    /\ IF idx[p] < NumSources THEN Goto(p, "check", idx[p] + 1)
                              ELSE Goto(p, AfterSources, 1)
    /\ lateReads' = [lateReads EXCEPT ![p] = IF cancelled[p] THEN @ + 1 ELSE @]
    /\ UNCHANGED <<shared, tempBinding, cancelled, result, wrote, startWorld,
                   overlapped>>

\* Bug variant: the source keeps what it read first.
ReadSourceOnce(p) == ReadVersion(p, 1)

\* Bug variant: the source answers from a lagging replica.
ReadSourceStale(p) == \E v \in 1..world[idx[p]] : ReadVersion(p, v)

ReadSource(p) == ReadVersion(p, world[idx[p]])

\* Bug variant: a failing source is skipped.
ReadSourceFailsSkips(p) ==
    /\ pc[p] = "read"
    /\ IF idx[p] < NumSources THEN Goto(p, "check", idx[p] + 1)
                              ELSE Goto(p, AfterSources, 1)
    /\ UNCHANGED <<shared, newValues, tempBinding, cancelled, result, history>>

\* Bug variant: a failing source is tried again, for ever.
ReadSourceFailsRetries(p) ==
    /\ pc[p] = "read"
    /\ Goto(p, "check", idx[p])
    /\ UNCHANGED <<shared, newValues, tempBinding, cancelled, result, history>>

ReadSourceFails(p) ==
    /\ pc[p] = "read"
    /\ \E how \in {"error", "panic"} : FailBeforeLock(p, how)

-----------------------------------------------------------------------------
(* The steps, in registration order.  A panic of a validator is recovered  *)
(* into an error, a panic of a schema selector or a transform is not.      *)

RunStep(p) ==
    /\ pc[p] = "step"
    /\ newValues' = [newValues EXCEPT ![p].steps = @ + 1]
    /\ IF idx[p] < NumSteps THEN Goto(p, "step", idx[p] + 1)
                            ELSE Goto(p, "lock", 1)
    /\ UNCHANGED <<shared, tempBinding, cancelled, result, history>>

StepOutcomes(kind) == IF kind = "validator" THEN {"error"} ELSE {"error", "panic"}

StepFails(p) ==
    /\ pc[p] = "step"
    /\ \E how \in StepOutcomes(StepKind[idx[p]]) : FailBeforeLock(p, how)

-----------------------------------------------------------------------------
(* The critical section *)

\* Bug variant: the critical section is entered without the lock.
AcquireLockWithoutWaiting(p) ==
    /\ pc[p] = "lock"
    /\ loadMu' = p
    /\ Goto(p, IF HasBinding THEN "decode" ELSE "store", 1)
    /\ UNCHANGED <<world, config, binding, newValues, tempBinding, cancelled,
                   result, history>>

AcquireLock(p) ==
    /\ pc[p] = "lock"
    /\ loadMu = NoLoader
    /\ loadMu' = p
    /\ Goto(p, IF HasBinding THEN "decode" ELSE "store", 1)
    /\ UNCHANGED <<world, config, binding, newValues, tempBinding, cancelled,
                   result, history>>

Decode(p) ==
    /\ pc[p] = "decode"
    /\ tempBinding' = [tempBinding EXCEPT ![p] = [ZeroStruct EXCEPT !.values = newValues[p]]]
    /\ Goto(p, "defaults", 1)
    /\ UNCHANGED <<shared, newValues, cancelled, result, history>>

ApplyDefaults(p) ==
    /\ pc[p] = "defaults"
    /\ tempBinding' = [tempBinding EXCEPT ![p].defaulted = TRUE]
    /\ Goto(p, AfterDefaults, 1)
    /\ UNCHANGED <<shared, newValues, cancelled, result, history>>

RunHook(p) ==
    /\ pc[p] = "hook"
    /\ tempBinding' = [tempBinding EXCEPT ![p].hooks = @ + 1]
    /\ IF idx[p] < NumHooks THEN Goto(p, "hook", idx[p] + 1)
                            ELSE Goto(p, AfterHooks, 1)
    /\ UNCHANGED <<shared, newValues, cancelled, result, history>>

Validate(p) ==
    /\ pc[p] = "validate"
    /\ tempBinding' = [tempBinding EXCEPT ![p].checked = TRUE]
    /\ Goto(p, "bind", 1)
    /\ UNCHANGED <<shared, newValues, cancelled, result, history>>

\* A hook or Validate calls Load of the same Synthra.  Until that call wants the
\* mutex it has no effect on what is modelled, and when it fails before, the hook
\* goes on as RunHook or BindingFails say.  Else it waits for the mutex, which its
\* own goroutine holds and a sync.Mutex does not hand over: no action continues.
Reenter(p) ==
    /\ pc[p] \in {"hook", "validate"}
    /\ Goto(p, "reentered", idx[p])
    /\ UNCHANGED <<shared, newValues, tempBinding, cancelled, result, history>>

\* Decoding and the defaults may return an error; a hook and Validate are the
\* caller's code and may also panic.
BindingFails(p) ==
    \/ pc[p] \in {"decode", "defaults"} /\ FailLocked(p, "error")
    \/ /\ pc[p] \in {"hook", "validate"}
       /\ \E how \in {"error", "panic"} : FailLocked(p, how)

\* Bug variant: the map is assigned where the struct belongs.
BindMap(p) ==
    /\ pc[p] = "bind"
    /\ binding' = newValues[p]
    /\ wrote' = [wrote EXCEPT ![p] = @ \cup {"binding"}]
    /\ Goto(p, "store", 1)
    /\ UNCHANGED <<world, config, loadMu, newValues, tempBinding, cancelled,
                   result, startWorld, overlapped, lateReads>>

\* reflect.ValueOf(c.binding).Elem().Set(...): the whole struct is copied.
Bind(p) ==
    /\ pc[p] = "bind"
    /\ binding' = tempBinding[p]
    /\ wrote' = [wrote EXCEPT ![p] = @ \cup {"binding"}]
    /\ Goto(p, "store", 1)
    /\ UNCHANGED <<world, config, loadMu, newValues, tempBinding, cancelled,
                   result, startWorld, overlapped, lateReads>>

\* Bug variant: the context is checked once more, after the publication.
StoreThenCheck(p) ==
    /\ pc[p] = "store"
    /\ config' = newValues[p]
    /\ wrote' = [wrote EXCEPT ![p] = @ \cup {"config"}]
    /\ result' = [result EXCEPT ![p] = IF cancelled[p] THEN "error" ELSE "nil"]
    /\ Goto(p, "unlock", 1)
    /\ UNCHANGED <<world, binding, loadMu, newValues, tempBinding, cancelled,
                   startWorld, overlapped, lateReads>>

Store(p) ==
    /\ pc[p] = "store"
    /\ config' = newValues[p]
    /\ wrote' = [wrote EXCEPT ![p] = @ \cup {"config"}]
    /\ result' = [result EXCEPT ![p] = "nil"]
    /\ Goto(p, "unlock", 1)
    /\ UNCHANGED <<world, binding, loadMu, newValues, tempBinding, cancelled,
                   startWorld, overlapped, lateReads>>

Unlock(p) ==
    /\ pc[p] = "unlock"
    /\ loadMu' = NoLoader
    /\ Leave(p)
    /\ UNCHANGED <<world, config, binding, result, wrote>>

-----------------------------------------------------------------------------

\* Everything a call does once it began, except taking the lock.
Running(p) ==
    \/ ContextLive(p) \/ ContextDone(p) \/ ReadSource(p) \/ ReadSourceFails(p)
    \/ RunStep(p) \/ StepFails(p)
    \/ Decode(p) \/ ApplyDefaults(p) \/ RunHook(p) \/ Validate(p)
    \/ BindingFails(p) \/ Bind(p) \/ Store(p) \/ Unlock(p)

Next ==
    \/ \E i \in Sources : SourceChange(i)
    \/ \E p \in Loaders : \/ Cancel(p)
                          \/ Begin(p)
                          \/ BeginNilContext(p)
                          \/ AcquireLock(p)
                          \/ Reenter(p)
                          \/ Running(p)

Spec == Init /\ [][Next]_vars

\* A goroutine that can run does (sources, steps and hooks return); a goroutine
\* that keeps waiting for a sync.Mutex gets it (its starvation mode).
Fairness == \A p \in Loaders : WF_vars(Running(p)) /\ SF_vars(AcquireLock(p))

FairSpec == Spec /\ Fairness

-----------------------------------------------------------------------------
(* Properties *)

TypeOK ==
    /\ world \in [Sources -> Nat]
    /\ config \in Values
    /\ binding \in Structs
    /\ loadMu \in Loaders \cup {NoLoader}
    /\ pc \in [Loaders -> PCs]
    /\ idx \in [Loaders -> Nat]
    /\ newValues \in [Loaders -> Values]
    /\ tempBinding \in [Loaders -> Structs]
    /\ cancelled \in [Loaders -> BOOLEAN]
    /\ result \in [Loaders -> {"none", "nil", "error", "panic"}]
    /\ wrote \in [Loaders -> SUBSET {"binding", "config"}]
    /\ startWorld \in [Loaders -> [Sources -> Nat]]
    /\ overlapped \in [Loaders -> BOOLEAN]
    /\ lateReads \in [Loaders -> Nat]

\* The bound struct and the stored configuration come from the same map
\* whenever no call is between its two writes: no error, panic or interleaving
\* leaves one call's struct beside another call's configuration
\* (src/synthra.go:278-308).
BindingAgrees ==
    HasBinding /\ (\A p \in Loaders : pc[p] # "store") => binding.values = config

\* A call that ends with an error or a panic has written neither the bound
\* struct nor the configuration, and one that returns nil has written both
\* (src/synthra.go:281-310).
AllOrNothing ==
    \A p \in Loaders :
        /\ result[p] \in {"error", "panic"} => wrote[p] = {}
        /\ result[p] = "nil" => wrote[p] = Targets

\* What is published went through every source, step, default, hook and check;
\* no reader ever sees a half-built map or struct (src/synthra.go:213-308).
PublishedIsComplete ==
    /\ config = EmptyValues \/ Complete(config)
    /\ binding = ZeroStruct \/ Finished(binding)

\* A call stops reading sources at the first check after its context is done:
\* at most the read in progress still happens (src/synthra.go:216-218).
CancelStopsReading == \A p \in Loaders : lateReads[p] <= 1

\* A call that ran alone never replaces the data of a source by an older
\* version: a reload brings the configuration forward (src/synthra.go:308).
AloneNeverGoesBack ==
    [][\A p \in Loaders : pc[p] = "store" /\ pc'[p] = "unlock" /\ ~overlapped[p]
          => \A i \in Sources : config'.src[i] >= config.src[i]]_vars

\* Every call of Load returns, whatever the other calls do, for the mutex is
\* released on every path (src/synthra.go:278-279); only a hook or a Validate that
\* calls Load of the same Synthra can make calls hang.
LoadReturns ==
    \A p \in Loaders : Active(p) ~> ~Active(p) \/ \E q \in Loaders : pc[q] = "reentered"

\* Once a hook or a Validate waits for the mutex of its own call, it waits for ever,
\* and no call publishes anything again: readers keep the configuration and the
\* bound struct of that moment (src/synthra.go:278-308).
ReentryFreezes ==
    [][\A p \in Loaders : pc[p] = "reentered" =>
          pc'[p] = "reentered" /\ UNCHANGED <<config, binding>>]_vars

-----------------------------------------------------------------------------
(* The abstract promise *)

\* A call is published from its Store to its return; a failed call is still
\* loading until it returns.
Phase(p) == IF ~Active(p) THEN "idle"
            ELSE IF result[p] = "nil" THEN "published" ELSE "loading"

Abstract == INSTANCE ConfigStore WITH
                current <- config.src,
                phase <- [p \in Loaders |-> Phase(p)],
                since <- startWorld

\* Load keeps the promise of ConfigStore (src/synthra.go:238): what a call
\* publishes was read during that call, and a failing call publishes nothing.
ImplementsConfigStore == Abstract!Spec
=============================================================================
