# A verification of synthra

Synthra is a Go library that loads configuration. It reads several sources,
merges their maps, runs a pipeline of steps over the result, fills a bound
struct, and publishes an immutable snapshot; it can also dump the snapshot to
files. This directory holds TLA+ models of that library, TLC configurations that
check them, and TLAPS proofs of what matters most in them.

Paths below are relative to the repository, `src/`.

## Contents

1. [Inventory](#inventory)
2. [The modules and the code](#the-modules-and-the-code)
3. [What the runs check](#what-the-runs-check)
4. [Bounds and fairness](#bounds-and-fairness)
5. [What is proved](#what-is-proved)
6. [Where the code and its documentation disagree](#where-the-code-and-its-documentation-disagree)
7. [What is not modelled](#what-is-not-modelled)
8. [Plan](#plan)
9. [Running the checks](#running-the-checks)

## Inventory

| Component | Files | State it keeps | Operations |
|---|---|---|---|
| Synthra | `synthra.go`, `step.go` | an atomic pointer to the current `Configuration`, the bound struct, `loadMu` | `Load`, `Configuration`, `Dump`, `Values` |
| Sources | `source/*.go`, `source.go` | file: the bytes of the last read; content and map: what they were made with; Consul: an index | `Load` |
| Environment source | `source/env.go`, `codec/env.go` | none (the OS environment) | `Load` |
| Codecs | `codec/*.go` | none | `Encode`, `Decode` |
| File dumper | `dumper/file.go` | the file | `Dump` |
| Configuration maps | `keys.go`, `configuration.go`, `configurable.go`, `deepMerge` in `synthra.go` | nested maps | lookup, `Has`, `Set`, `Delete`, merge, `Walk`, `EachMap`, `Find` |
| Schema step | `schema.go`, `keys.go`, `step.go` | a compiled schema | canonicalize, defaults, validate |
| Options and New | `options.go`, `format.go`, `synthra.go` | captured variables of closures, the `config` under construction | `New`, `WithX` |
| Resolvers | `resolver.go`, `WithEnvSubst` in `options.go` | `.env` files as they were when opened | `FromMap`, `FromEnv`, `FromEnvFile`, `CoalesceEnvFile`, `Prefix`, `Or` |
| Accessors | `get.go`, `configuration.go` | none | strict, `Or` and generic accessors |
| Binding | `binding.go` | `defaultsCache`, shared by the whole program | decode, `applyDefaults`, hooks, `Validate` |
| Errors, test helpers, examples | `error.go`, `synthratest/`, `examples/` | none | |

**How they interact.** `New` applies the options to a `config` and builds a
`Synthra`. `Load` calls every source in turn (`source.Load`, then `deepMerge` into
the map of this call), then the steps (schema, transforms, validators, the last
two being callbacks), all of this *without* a lock. It then takes `loadMu`,
decodes the map into a temporary struct, applies `default` tags (through the cache
that all Synthras share), calls the hooks and `Validate` (callbacks), copies the
struct into the bound one, stores the new configuration and unlocks. Readers
take the atomic pointer and never lock. `Dump` takes the pointer once and hands a
shallow copy of the map to the dumpers in turn.

**What is hard about it.**

- Calls of `Load` overlap before the lock: they share the sources, and they may
  store in another order than they read.
- Two writes publish (struct, pointer); anything before them may fail, panic, or
  find its context cancelled.
- `deepMerge` copies some objects and assigns others, so that a source, a
  published snapshot and the maps of concurrent calls may share an object.
- A callback runs with the mutex held and may call `Load` again.
- A file is truncated and then written, possibly by several Dumps at once,
  possibly by a process that dies.
- Keys are case-insensitive in maps that are not; Go's iteration order is
  random; a key may hold a literal dot or be empty; a schema has a casing of its
  own, and puts one default object in several places.
- `EachMap` and `Find` hand out the parent's own elements; `Walk` goes on in what
  its callback changes.
- The environment and `.env` files change while they are read.
- A file option is a closure that assigns to its captured path; one for Consul is not.
- Walking recursive struct types, with a cache that goroutines fill concurrently.

**What makes each correct.** Load: all or nothing, struct and snapshot agree,
what is published was read in that call, every call returns. Sources: a success
decodes what was read. Snapshots: never change, and concurrent Loads neither
influence each other nor race. Merge: later sources override
path by path, first casing wins, no two keys that differ in case only. Schema:
fills gaps, keeps values. Set and Delete: agree with Get, change nothing else,
and reach the parent from an array element. Walk: leaves nothing to replace. Environment: no
variable is lost. Resolvers: the highest layer wins. New: the instance is what
the options say, errors are complete. Defaults: every tagged zero field, nothing
else, and the walk ends. Accessors: what they answer for a path follows from the
sources, nulls and values that do not convert included. Dump: one snapshot, whole.

## The modules and the code

| Module | Models | State and actions |
|---|---|---|
| `SynthraLoad` | `synthra.go:207-311`, `step.go` | One program counter per caller of `Load`. A value map is the version of each source merged into it and the number of steps it went through. Each `ctx.Err()` check, source, step, hook and write is an action; each has its failing twin, with the deferred unlock after errors and panics; in `Reenter` a callback calls `Load` of the same Synthra. |
| `ConfigStore` | the promise of `Load` | Abstract specification: one current configuration, replaced in one step by versions the sources had during the call, or left alone. |
| `SynthraLoadProofs` | | Theorems about `SynthraLoad` and their proofs. |
| `SourceLoad` | `source/file.go`, `fs.go`, `consul.go` | Concurrent calls on one source. The field `f.data` is a slice of two words (pointer, length) that a call stores and loads one at a time, since nothing orders racing goroutines. |
| `FileDump` | `synthra.go:319-333`, `dumper/file.go` | Callers that encode, open with truncation and write block after block, each at its own offset; in `EditMap` an encoder, or a dumper of the caller's, changes the shared copy of the map; `Crash` ends all of them. |
| `LoadAliasing` | `deepMerge`, `source/map.go`, `Configurable.Set`, `envsubstMap` | Concurrent Loads over a heap of nested objects, so that sharing shows: what is copied, what assigned, what a merge (`MergeSource`), a transform (`Set`) or an expansion (`Subst`) writes in place. `Reads` and `Writes` name the objects the next step touches. |
| `ConfigMap` | `keys.go:16-32`, `configuration.go:54-71` | Values, maps and keys, `findKeyFold`, and a lookup along the segments of a path. A key is its folded segments and a casing. Random iteration makes an operator return the *set* of outcomes. Nothing in it is recursive but one function over the segments. |
| `ConfigTree` | `keys.go`, `configuration.go:43-95` and `402-460`, `configurable.go:51-203`, `deepMerge`, `schema.go` | Recursive operators on trees of maps and arrays, each of which makes a whole operation in one step. A map that a schema declares as a default has an id, and a change of it in one place is a change in all (`Agree`). |
| `EnvVarSource` | `source/env.go`, `codec/env.go` | `Decode`: the nested map of a set of variable names, with the byte order of `sort.Strings`. |
| `Accessors` | `get.go`, `requirePath`, `hasPath` | What each family returns for each class of raw value. |
| `MapSteps` | `synthra.go:180-233`, `configurable.go:51-115` | The same merge, `Set` and `Delete` step by step, on a stack of maps: `deepMerge` calls itself for a map under a key (`InsertMap`, `MergeMaps`), assigns anything else (`InsertValue`, `ReplaceValue`) and takes the keys of `src` in any order; `Set` and `Delete` enter or make one map per segment (`EnterMap`, `CreateMap`), give up, or arrive. A map is put back into the one around it when it is finished (`ReturnMap`): nobody looks in between. Readers look at the result through the accessors. |
| `ConfigPipeline` | the map of one `Load` on its way | Composes `ConfigTree` and `EnvVarSource`: merge a source or an environment, then schema steps, `Set`, `Delete`, changes of array elements (`ElementStep`) and walks (`WalkStep`) in any order; readers look at the result. |
| `Resolvers` | `resolver.go`, `options.go:769-902` | A resolver is what it answers now to every name it may be asked for, and whether it is nil; that of the environment is made anew in every state. The environment and the files change at any moment; `CoalesceEnvFile` tries one path at a time, a Load expands one string at a time. |
| `Construction` | `New`, `options.go` | Options are applied one by one to a `config`; each has its place in the nested list of the call. A file option (`Keeps`) has a captured path that its first application overwrites; a Consul option hands its path by value to `addConsulSource`, and is expanded each time. `Flat` is what the list means: every `WithIf` opened, `Nesting` times. |
| `BindingDefaults` | `binding.go:26-184` | The recursion of `setDefaults`, `structHasDefaults` and `scanDefaults` as a stack of frames per goroutine, over types given as data; a full stack ends the program. Scalars are numbers with the width and sign of their field. |
| `SourceLoadProofs`, `FileDumpProofs`, `LoadAliasingProofs`, `MapStepsProofs`, `ResolversProofs`, `ConstructionProofs`, `BindingDefaultsProofs` | | Theorems about the module of the same name and their proofs. |
| `MC...` | | Constants of the small instances. |

`SourceLoad` and `SynthraLoad` meet in "the source returns the version it finds":
the latter takes for granted what the former checks of the former's kinds, and
what it refutes for concurrent calls on a file. `LoadAliasing` and
`MapSteps` look at the same merge, one for identity and one for content. `MapSteps` and
`ConfigTree` are two translations of the same code: the first can be proved about, and the
run `MapSteps` checks that it ends where the second does
(`StepsMakeTheResult`), on which `ConfigPipeline` builds.

Definitions carry the names of the code. Each module's "Bug variant"
definitions are mutations of the definition after them, used to make sure that
every property can fail; nothing else refers to them.

## What the runs check

Passing runs. Where the code has a case in which a promise does not hold, the
case stays in the model and the property names it as an exception.

| Run | Properties | What it shows |
|---|---|---|
| `SynthraLoad` | `TypeOK`, `BindingAgrees`, `AllOrNothing`, `PublishedIsComplete`, `CancelStopsReading`, `AloneNeverGoesBack`, `ImplementsConfigStore`, `LoadReturns`, `ReentryFreezes` | Two calls, two sources that change, a step that may fail or panic, a hook, a `Validate`, cancellation at any time. No interleaving leaves one call's struct beside another call's snapshot; a failing call leaves no trace; what is published is complete and was read in that call; a call alone never goes back in time; under fairness each call returns, unless a callback calls `Load` of its own Synthra, after which nothing is ever published again. |
| `SourceLoad` | `LoadDecodesItsOwnRead` | Concurrent calls on a content, filesystem or Consul source each decode the bytes they read; a file source keeps this promise for calls that do not overlap, also after failures. |
| `FileDump` | `SuccessWritesOneSnapshot`, `FailureIsAPrefix` | A Dump that no other overlaps writes one version to all files although Loads go on; a failed one has finished the dumpers before the failing one and not touched those after. What a dumper changes in its map reaches the dumpers after it in the same Dump, and neither those before it nor any later Dump. |
| `LoadAliasing` | `SnapshotsStay`, `SourcesAreUntouched`, `LoadsDoNotInterfere`, `NoDataRaces` | Without maps of in-memory sources that replace scalars, and slices of them with placeholders (`AliasFree`), nothing published and no source ever changes, and a Load computes what it would compute alone, whatever ran before it or runs beside it. Without any strings in such slices (`Isolated`) no object is written by one goroutine while another may read it: an expansion writes every string, also one that it leaves as it is. |
| `MapSteps` | `KeysStayFoldUnique`, `MergeIsOverlay`, `FirstCasingIsKept`, `EditsMeetGet`, `AccessorsFollowSources`, `StepsMakeTheResult` | For every order of iteration at every level: a merge is an overlay, path by path, whatever the casings; the keys that are there keep their casing; two keys of one map that differ in case only come from a source that has them, never from a merge or a `Set`. `Set` fails only at a value that is no map, and then nothing a reader sees has changed; else a lookup finds what was set, in any casing, unless a segment is empty. `Delete` reports what a lookup would have found, and removes it. Neither changes anything beside its path. What each family of accessors answers after a merge is decided by what the last source that speaks of the path says: a null there takes an earlier value away from all of them, though `Has` still finds the key; a value that converts is what all return; and, as an exception to what is documented, one that does not is an error of the strict accessor and a zero of all others. |
| `ConfigPipeline` | `KeysStayFoldUnique`, `EveryVariableIsFound`, `NestedKeysWin`, `DefaultsKeepValues`, `DefaultsFillGaps`, `ElementsReachTheParent`, `ChangesStayLocal`, `WalkIsComplete` | What a reader finds at every path in any casing and in every array element, after every sequence of merges and steps; `Set` on what `EachMap` and `Find` yield reaches the element it came from and nothing else; `Walk` leaves nothing its callback would replace. Exceptions: a literal dotted key hides its path; a pattern of `patternProperties` replaces entries that are no objects, and adds its default beside a key in another casing, whose value is then read in its own casing only; a default for an object gives way to its properties' defaults; the places where a schema put one default object change together. |
| `Resolvers` | `OrIsAssociative`, `HighestLayerWins`, `CoalesceTakesTheFirst` | Each placeholder has the value of the highest layer at that moment, an empty value included; a chain can be nested or listed; `CoalesceEnvFile` never passes over a file that was there all along, nor over a malformed one. |
| `Construction` | `InstanceFollowsOptions`, `ErrorsAreComplete`, `PathsAreCurrent` | One source, dumper and step per option in order; the last binding with its own hooks; every unusable option reported; the path of a file option expanded in the environment of the call that first applied it, that of a Consul option in the environment of the call that made the instance; and an empty path, from a variable that is not set, refused by every option that detects the format. |
| `BindingDefaults` | `CacheIsRight`, `DefaultsAreComplete`, `OnlyRecursiveTypesOverflow`, `CallReturns` | Goroutines of several Synthras that scan the same types never cache a wrong answer; a walk that succeeds set what it should and nothing else, each number as it is when it fits its field and its low bits when it does not; only a recursive type exhausts the stack; otherwise the walk ends. |

Runs that end in a counterexample, each with one property taken from a line of
the repository:

| Run | The line | What happens |
|---|---|---|
| `SourceLoadFileRace` | `source.go:23`: "Load must be safe to call concurrently." | Two Loads of one file source share `f.data` without a lock; one decodes bytes that it did not read, or a slice torn between two reads. |
| `FileDumpAtomic` | `dumper/file.go:68`: "writes them atomically" | `os.WriteFile` truncates and then writes. The run ends after the first of the two: the file is empty, where a reader, or a crash, may find it. |
| `LoadAliasingSnapshot` | `synthra.go:57`: "lock-free, immutable point-in-time view" | A map that replaces a scalar is assigned, not copied; the next Load merges into it in place and changes a published snapshot. |

## Bounds and fairness

- **SynthraLoad**: two callers, two sources, `MaxVersion` 2 (each source changes
  once), one transform step, one hook, a validator. Two of each loop are enough
  for "between two iterations"; one change is enough for stale and fresh reads;
  a third caller adds no new kind of interleaving, since a caller meets the
  others only in the mutex, the two published words and the sources. All of its
  properties but one are also *proved* for all values of these constants, so
  the bounds matter for `LoadReturns` only. The same holds for all the properties of
  `SourceLoad`, `FileDump`, `LoadAliasing`, `Resolvers` and `Construction`, and for those of
  `MapSteps`, but for the comparison with `ConfigTree`.
- **SourceLoad**: two calls, versions 0 (missing) to 2, all four kinds. Tearing
  needs two words of two versions.
- **FileDump**: two callers (interchangeable: the run uses their symmetry, and no
  property is about liveness), two files (a dumper that fails or edits is the
  one before or the one after the other), versions 0 and 1 with encodings of one and two blocks: a short
  dump can follow a long one, and a crash can fall between blocks.
- **LoadAliasing**: two Loads, at the same time or one after the other, of three
  sources (insert, replace, merge into), one nested entry, an expansion and then a
  transform, two values of the variable. The Loads are interchangeable; the run
  uses their symmetry. The counterexample needs one caller and one step.
- **MapSteps**: two segments and two casings, maps of at most two keys up to
  three deep, which may differ in case only, an array, a literal dotted key and the
  empty string; up to two sources and then a `Set` or `Delete` at nine
  paths in one casing. With three levels there are an outermost call, one that is called and calls, and
  one that only is called. `MaxDepth` is how deep the properties look.
- **ConfigPipeline**: two segments and two casings, maps two deep, up to two
  sources (or environments of two variables out of ten) and three operations in
  all. Each operator recurses by one level per level of the map, so depth two has
  the base case and a recursive one. Arrays have two elements (one that may be a
  map or not, one empty map), under one key in either casing; three operations are
  enough for a schema step that shares an object, a change of one element and a
  look at the other. The empty string is a key at the top or inside.
- **Resolvers**: two candidate files, four receivers, defaults with and without
  the variable, three forms of placeholder.
- **Construction**: all lists of up to three options of twelve forms, nested in `WithIf` once or
  twice (`Nesting` 2, the first depth at which an opened option is opened again); the path
  variable names a file with a known extension, one with none, or is not set.
- **BindingDefaults**: two goroutines, seven struct types of which two are
  recursive, a stack of nine frames, the smallest that `StackAssumption` allows;
  the deepest value that is not recursive needs four. Fields of eight bits with defaults
  that fit, are negative, are a multiple of the width or too large by part of it.

**Fairness.** `SynthraLoad` assumes weak fairness of a running call, which is that
a goroutine that can run does, and that sources, steps, hooks and `Validate`
return, as their contracts ask; and strong fairness of taking the mutex, which
`sync.Mutex` gives by its starvation mode (a waiter of more than a millisecond is
served first). No fairness is assumed for changes, cancellation or the start of
calls. `BindingDefaults` assumes that a goroutine in the middle of a walk goes on.
The other modules have no liveness property and no fairness.

`CHECK_DEADLOCK FALSE` appears in `BindingDefaults.cfg`, where the program ends once
both walks have, and in `SynthraLoad.cfg`, where callbacks that call `Load` may
leave every caller waiting for the mutex; `LoadReturns` shows that nothing else
does.

## What is proved

Every safety property of eight of the nine passing runs is a theorem, but for the one that
compares `MapSteps` with `ConfigTree`, for every
value of the constants that the `ASSUME`s of the module allow.
The type invariants of `SourceLoad`, `FileDump` and `MapSteps` are proved and not run. Each proof has the same shape: an inductive invariant that implies the
property, that `Init` establishes and that each action preserves, one step per
action.

### Load

`SynthraLoadProofs` proves, for every set of callers, every number of sources,
steps and hooks, every kind of step, with or without a bound struct and a
validator, and every `MaxVersion`:

| Theorem | Statement | Inductive invariant |
|---|---|---|
| `TypeCorrect` | `Spec => []TypeOK` | `TypeInv`: `TypeOK`, and the loop index is in the range of the loop the call is in |
| `BindingAgreement` | `Spec => []BindingAgrees` | `CommitInv` = `TypeInv`, `LockOK`, `TransferOK`, `BindingAgrees` |
| `NoPartialWrite` | `Spec => []AllOrNothing` | `WroteInv` = `TypeInv`, `WroteOK`, `AllOrNothing` |
| `Completeness` | `Spec => []PublishedIsComplete` | `CompleteInv` = `TypeInv`, `MapOK`, `StructOK`, `PublishedIsComplete` |
| `AloneFreshness` | `Spec => AloneNeverGoesBack` | `FreshInv` = `TypeInv`, `WindowOK`, `ReadOK`, `AloneOK`, `ResultOK` |
| `Cancellation` | `Spec => []CancelStopsReading` | `CancelInv` = `TypeInv`, `LateOK` |
| `Refinement` | `Spec => ImplementsConfigStore` | `FreshInv` |
| `ReentryFreeze` | `Spec => ReentryFreezes` | `CommitInv` |

Why strengthening is needed, in short:

- **BindingAgreement.** The property says nothing while a call is between its two
  writes. `LockOK` (a call is in the critical section exactly when it owns
  `loadMu`) makes that call unique, and `TransferOK` says that the temporary struct
  comes from the call's own map and, at the second write, that the bound struct
  does too; so the second write restores agreement.
- **NoPartialWrite.** What a call has written is a function of where it is:
  nothing up to the first write, everything after the second, and no failure is
  possible in between (`WroteOK`).
- **Completeness.** `MapOK` counts: at index i of a loop the first i-1 sources
  (steps) are in the map, all of them past the loop. `StructOK` does the same for
  the temporary struct and the hooks.
- **AloneFreshness.** A call that nobody overlapped began after the last store
  (`AloneOK`), versions only grow and each read happens in the window between the
  start of the call and now (`WindowOK`, `ReadOK`).
- **Refinement.** The mapping is `current <- config.src`, `phase` computed from the
  program counter and the result, `since <- startWorld`. `Store` is the abstract
  publication, the way out is the abstract return, everything else stutters;
  `ReadOK` bounds what is published by the window of the call.

- **ReentryFreeze.** A caller that is "reentered" owns `loadMu` by `LockOK` and has no
  action; publishing needs the mutex, so no other caller can publish
  (`ReenteredStays`, `ReenteredPublishesNothing`).

The assumptions are those of the `ASSUME`s of `SynthraLoad`: the constants are of
their types, and the owner of the free mutex is no caller.

### Sources and dumps

| Module | Theorem | Statement | Inductive invariant |
|---|---|---|---|
| `SourceLoadProofs` | `TypeCorrect` | `Spec => []TypeOK` | `TypeOK` |
| | `OwnReadDecoded` | `Spec => []LoadDecodesItsOwnRead` | `DecodeInv` = `TypeOK`, `AloneOK`, `CallOK` of every call |
| | `ConcurrentReadsDecoded` | without files among `Kinds`: `Spec => []ConcurrentLoadsDecodeTheirOwnReads` | the same |
| `FileDumpProofs` | `TypeCorrect` | `Spec => []TypeOK` | `TypeInv`: `TypeOK`, and where `idx` may be |
| | `OneSnapshot` | `Spec => SuccessWritesOneSnapshot` | `DumpInv` = `TypeInv`, `AloneOK`, `CopyOK` and `FilesOK` |
| | `FailedPrefix` | `Spec => FailureIsAPrefix` | the same |

Any number of callers, versions and dumpers. The history variable that says that a
call was overlapped makes the exception of both modules a local matter:
`AloneOK` says that a call nobody overlapped *so far* is the only active one, so that a
step of another call only has to be looked at when the first is overlapped, and
then nothing is claimed of it (lemma `OwnStep` of each module).

- **OwnReadDecoded.** `WordsOK` follows the two words of the slice: those already
  stored are those of the call's own read, those already loaded are those it is
  to decode. For the kinds without a field, `PathOK` keeps the call away from the
  stores, and nothing depends on the others: this is what makes
  `ConcurrentReadsDecoded` true and, with a file, the run `SourceLoadFileRace` false.
- **OneSnapshot, FailedPrefix.** `FilesOK` is the state of all files at every
  moment of a Dump: those before the current dumper hold the version of the
  snapshot, the current one as many blocks as were written, those after it what
  they held before. `CopyOK` relates who edited the shared map to where the call
  is; the editor's changes show from there on only, and never in the
  configuration itself.

### Sharing

| Theorem of `LoadAliasingProofs` | Statement | Inductive invariant |
|---|---|---|
| `SnapshotsKept` | `Spec => []SnapshotsStay` | `ShareInv` = `GivenInv`, and `AliasFree => CleanInv` |
| `SourcesKept` | `Spec => []SourcesAreUntouched` | the same |
| `LoadsAreAlone` | `Spec => []LoadsDoNotInterfere` | the same |
| `RaceFree` | `Spec => []NoDataRaces` | the same |

Any number of Loads, any list of steps, up to four sources (`Literal` has a name for
each). `AliasFree` only looks at what the sources hold, which no step changes
(`GivenInv`), so it may stand in front of the whole invariant. `CleanInv` is about ownership: an object a Load can
reach was made by a Load, or is the slice of a shared source (`SlotOK`); one that
was made, and is in an unfinished map, is in no other map and in no snapshot
(`Private`). A write goes to an object of its own, so that snapshots and sources
keep what they hold (`KeptOK`) and a map is what a Load alone would have made
of it (`ProgressOK`). The shared slices are the difficult case: they *are* written,
by the expansion, which under `AliasFree` stores what is already there; only
`Isolated` excludes the write itself, hence `RaceFree` needs it.

### Maps

| Theorem of `MapStepsProofs` | Statement | Inductive invariant |
|---|---|---|
| `TypesAreRight` | `Spec => []TypeOK` | `IInv` = the counters are in range, `CallsOK` for a merge, `EditOK` and `WalkOK` for a `Set` or `Delete` |
| `MergesOverlay` | `Spec => MergeIsOverlay` | the same |
| `FirstCasingStays` | `Spec => FirstCasingIsKept` | the same |
| `KeysStayUnique` | `Spec => KeysStayFoldUnique` | the same |
| `EditsAreFound` | `Spec => EditsMeetGet`, from `SetsMeetGet`, `DeletesMeetGet` and `EditsAreLocal` | the same |
| `KeysAreUnique` | `InputsAreUnique => (Spec => []FoldUniqueTo(values, MaxDepth))` | `IInv`, `InputOK` and the statement itself |
| `AccessorsDoFollow` | `Spec => AccessorsFollowSources` | the same |

Any number of sources, of `Set`s and `Delete`s, any maps nested to any depth, any set of paths of
up to `MaxDepth` segments, and every order of iteration. The properties speak of
a whole merge, while a state has calls of `deepMerge` that are halfway through maps
inside maps. The invariant therefore says of *each* frame on the stack what
it has done so far, relative to the map `Was` it began with:

- **A merge** (`FrameOK`): what was there and no finished key folds to is untouched; no
  key of the map is lost; the keys are as unique as those of both maps were, level by level; and what is
  under a finished key is what `EntryOK` says, a value or an overlay of two maps. `LinkOK` ties
  a call to the unfinished key of the one below it, so that when it returns, what
  its own `FrameOK` says of the nested map becomes `EntryOK` of that key (`FrameMerges`,
  `AssignKeepsFrame`). Since a key of `src` is finished exactly once, the order does not matter.
- **A Set or a Delete** (`WalkOK`): on the way down every frame is the map the path leads to, unchanged; after
  that, the top frame has the `Outcome` of the rest of the path, relative to
  what it was. Putting it back under its key makes that the outcome of one segment more
  (`ReturnKeepsUnique`, `ReturnReadsElsewhere`, `ReturnMeetsGet`). A `Set` that fails has made no
  map on its way: it makes one only where nothing is, and from there on never meets a
  value that is no map.

Nothing is defined by recursion over a map. What a reader finds is a function along the
segments of a path (`Along`), what is inside a map a function along its levels
(`PairsAt`, and with it `FoldUniqueTo` and `KeysKept`). The lemmas `AlongHead`, `FoldUniqueHead` and
`KeysKeptHead` split off the first segment or level, and everything else uses only these.

The theorems have as a condition, in their properties, that no two keys of one map differ
in case only: with such a pair, what is found depends on the order of iteration.
`KeysAreUnique` shows that a Load whose sources and transforms bring none never
makes one, so that the condition then holds in every state.

`AccessorsDoFollow` rests on the overlay that `MergesOverlay` shows (`MergeReads`), and adds that what a
reader sees of a value fixes what the accessors make of it (`RawOfSeen`, `AnswersAre`).

### Resolvers

| Theorem of `ResolversProofs` | Statement | Inductive invariant |
|---|---|---|
| `Associativity` | `Spec => []OrIsAssociative` | none: it holds of any three resolvers |
| `HighestLayer` | `Spec => HighestLayerWins` | `ChainInv`: once a file is chosen, the resolver answers with a value or not at all |
| `FirstFile` | `Spec => CoalesceTakesTheFirst` | `CoalesceInv`: the paths passed over, and those missing now, are in the history `missed` |

Any number of candidate files. `OrAnswers`, `OrFinds`, `PrefixAnswers` and `TwoFallbacks` are the lemmas about
the operators: what a chain finds, layer by layer.

### New

| Theorem of `ConstructionProofs` | Statement | Inductive invariant |
|---|---|---|
| `OptionsFollowed` | `Spec => []InstanceFollowsOptions` | `CallInv` = `TypeInv` and `Follows` |
| `ErrorsReported` | `Spec => []ErrorsAreComplete` | the same |
| `PathsCurrent` | `Spec => []PathsAreCurrent` | `CallInv` and `PathInv` |

Lists of any length, with options nested to any depth `Nesting`. The properties
speak of the flat list `Flat(Items(args, << >>))`, which the code never makes:
`ApplyIf` puts the options of one `WithIf` in its place. `Follows(all, done, todo, cfg)`
relates the two: the flat list is what was applied so far followed by the flat
rest, `cfg` is what the first part says (`Made`), or has its errors. Its proof rests
on lemmas that the module states once:

- `FlattenSeq`, which the community modules define by a fold, distributes over
  concatenation (`FlattenConcat`), and with it everything that maps a list item by
  item (`MappedConcat`: `Opened`, `Flat`, `Where`);
- opening a list that is already flat changes nothing, and opening a `WithIf`
  first or last makes the same list (`FlatOfOpened`, `FlatPlain`, `FlatOfInner`);
- no place is under another (`Apart`, `Cross`), so that a reported place is
  that of one option only. Without it "each unusable option once" does not follow.

`PathInv` says of each entry of the unfinished config what `PathsAreCurrent` says of
an instance, and that what was captured during the call was expanded in a
value that the variable had during the call. What is captured is the path of a file
option, never that of a Consul option, so that an entry of the latter is always of this call.

### Default tags

| Theorem of `BindingDefaultsProofs` | Statement | Inductive invariant |
|---|---|---|
| `CacheRight` | `Spec => []CacheIsRight` | `CacheInv`: `CacheIsRight`, `CachedTame`, `StackOK` and `RetOK` of every goroutine |
| `OnlyRecursionOverflows` | `Spec => []OnlyRecursiveTypesOverflow` | `DepthInv`: the `k`-th frame of a goroutine fits its place (`FrameFits`), and an overflow has a root that is not tame |
| `DefaultsComplete` | `Spec => []DefaultsAreComplete` | `FillInv`: `FillOK` of every goroutine, beside `CacheInv` |

Any number of goroutines, any finite set of types, recursive ones included.
`StackOK`: a scan has found nothing in the fields before the one it is at, and was
called for the field the frame below it is at; `RetOK`: what a scan returned is right
about that field's type. The property compares with `Carriers`, a fixed point
computed in as many rounds as there are types. That so many are enough
is lemma `CarriersAreClosed`: each round that is not the last finds one more type, and
`CarriersAre` turns it into the two facts the proof uses, that a type has defaults
exactly when a field of it has a tag or is of a struct type that does.

A type is tame when neither it nor a type that its values hold is recursive. Its
`Rank` is the number of types its values may hold, which falls from a tame type to the
type of each of its fields (`RankFalls`), so that the rank is what bounds the
depth: the `k`-th frame is of a type of rank at most the number of types less `k`, one more for
a scan, which `setDefaults` may start for the type it is at. That the fixed
point `Holders` is reached in as many rounds as there are types is again the
counting argument (`RoundsAreEnough`). The theorem has one assumption more than the others,
`StackAssumption`: the stack holds a frame for each struct type and two more. The
stack of a Go program grows to hundreds of megabytes, far beyond the
number of struct types a program declares.

`DefaultsComplete` is the theorem about the walk itself. Its invariant says for each
goroutine, of the value as it is now and of the frames on its stack:

- **Every field is filled or ahead** (`Walked`): a field in the value has what the
  property wants of it (`Filled`), or its place is under that of a frame, at the field the
  frame is at or after it (`Pending`). A frame that goes on leaves one field behind,
  which is filled or under the frame just pushed (`PendingGoesOn`, `WalkedOn`,
  `WalkedIn`); at the end of a struct nothing of it is ahead (`PendingEnds`).
- **What was made belongs there** (`Made`, `Kept`): each new pointer and scalar is a field
  in the value, and a scalar that was made holds the number of its tag.
- **A walk that ends had a tame type** (`Stuck`): while the type of the bound struct
  is not tame, a frame has ahead of it a field whose type is not. So a walk
  that succeeds went through a value of finite depth, where the other two count. This is
  why the cache must be more than right: a type cached as without
  defaults is tame (`CachedTame`), since the scan of another one ends only at a tag.

Two sets of lemmas carry it. `NodesAre` characterizes the structs in a value: the
bound one and what these hold, and nothing else, as a principle of induction over
a value; the depth of its recursion is enough by `RankFalls`. From it follow
that a place belongs to one field only (`NodesAreUnique`, `SlotsAreUnique`), that what is
under the place of a struct is reached through a field of it (`NodesUnder`,
`SlotUnder`), and that a pointer that is set brings only what is under it
(`NodesGrow`, `SlotsGrow`). The others are about the stack as a set of frames (`Fr`).

### Assumptions, and what is out of reach

The assumptions are those of the `ASSUME`s of the modules, which TLC evaluates on each
run: constants are of their types and numbers in their ranges; the owner of the free
mutex is no caller; there are finitely many struct types, whose numbers have at least one bit, and the stack has room for a
frame of each and two more; readers look along paths of one to `MaxDepth` keys, transforms along some of these, and set what is there; of the options of a call,
a nil one is not usable, a path is always usable, and `Nesting` is deep enough for the lists given.
None says anything about the behaviour of the code. Two theorems have a condition
in their property (`AliasFree`, `Isolated`): the runs reach states in which it holds and
states in which it does not, and `LoadAliasingSnapshot` shows what happens then.

The provers have no induction over data or over numbers as a rule with a
predicate. The modules that need it prove it for *sets* instead, from the library's theorem that
a nonempty set of naturals has a least element (`NatSetInduction`): enough for
recursive functions over 0..n.

**Only model-checked**:

- `LoadReturns` and `CallReturns`: liveness under fairness is out of reach of the prover.
- All of `ConfigPipeline`, which is schema steps, walks, arrays, literal dotted keys and the
  environment: the trees of `ConfigTree` and the names of
  `EnvVarSource` are recursive data with `RECURSIVE` operators.
- `StepsMakeTheResult`, which compares `MapSteps` with these operators.
- The exceptions of the properties, which are shown by counterexamples.

## Where the code and its documentation disagree

The three runs above show one disagreement each. Others were met while modelling;
they are in the models as exceptions of the properties, or left out as stated:

- `synthra.go:62` says that `loadMu` "serializes Load + binding writes". Only the
  part after the steps is serialized: a call that read first may store last and
  put older data over newer. `AloneNeverGoesBack` therefore speaks of calls that
  ran alone, and `ConfigStore` does not order publications.
- Two overlapping Dumps to one file leave a mixture of both although both return
  nil (`dumper.go:24` asks dumpers to be safe to call concurrently).
- A placeholder in a slice of an in-memory source is expanded in place once; later
  Loads do not see the variable change (`resolver.go:54`).
- `options.go:525` says that user-provided values are never overridden. A value that is no
  map is, when its key matches a pattern of `patternProperties` (`schema.go:97`).
- Keys of an entry under `patternProperties` are not canonicalized, so a default
  is added beside the user's key when their casings differ (`keys.go:38-39` says
  that the pattern's keys are not renamed; the keys *inside* are not either).
- The default of an absent object is lost when its properties have defaults
  (`schema.go:47-58`).
- `Get` prefers a literal top-level key with a dot, `Set`, `Delete` and the merge
  never look at it: a successful `Set` may not be visible to `Get`.
- `codec/env.go:38-40` promises that nested variables overwrite scalars. The sort is
  by the bytes of the name as spelled, so a lower-case name, or one with a
  leading or doubled underscore, may come after what is nested in it.
- The `Or` accessors and `Get[T]` return zero values for what cannot be converted,
  where `README.md:871` and `get.go:27-28` say default and error; a null is "not
  found" for strict accessors and present for `Has`. `AccessorsFollowSources` states both as they are.
- `README.md:629` gives the selector of `WithJSONSchemaFunc` a read-only
  `*Configuration`; it gets the `*Configurable` of the Load (`options.go:615`).
- `Find` compares with `==`, where `configuration.go:455` says case-insensitive, and an
  element without the field matches "".
- A literal empty key, or a path with an empty segment such as "a.", can be `Set`
  and merged and is never found (`keys.go:31`); a merge replaces a map under it.
- A default object of a schema is one map in all places that lacked it: a
  transform that changes one array element changes the others (`schema.go:48`).
- `dumper.go:27` says that dumpers should not modify the map. Nothing stops them:
  top-level changes reach the later dumpers of the same Dump, and changes of nested
  maps reach the published configuration, since the copy is shallow
  (`synthra.go:324`).
- A `default` tag whose number does not fit its field wraps around without an
  error (`binding.go:160`).
- `synthratest.go:124` calls what `Last` returns a shallow copy; it is the recorded map.
- A nil `Resolver` with a prefix panics (`resolver.go:29` says that nil finds
  nothing); so does a nil option inside `WithIf` (`doc.go:104`).
- A file option used for a second `New` keeps the path of the first (`options.go:93`);
  a Consul option is expanded again (`options.go:264`, `320-326`).
- `Consul.Load` writes `c.lastIndex` without synchronization (`consul.go:88-90`), a data race
  of concurrent calls, where `source.go:23` asks for a `Load` that is safe to call
  concurrently. Nobody reads the field, so no decoded bytes depend on it.
- Recursive struct types exhaust the stack, and a `default` tag on a field of a
  struct type is ignored (`binding.go:71-75`).

## What is not modelled

- Codecs, the mapstructure decoder, the JSON Schema validator, package cast, the
  envsubst grammar: libraries, of which a model knows that they accept or reject,
  or a table of classes.
- A callback of `Walk` that replaces a map by one it replaces again: the walk does
  not end.
- Changes of nested objects by a dumper: the clone of `Dump` is shallow, and its
  nested maps are those of the configuration.
- One option used by two calls of `New` at the same time: a data race on the
  captured path, of whose outcome nothing is promised. `Consul.lastIndex`, which is
  written in a race and read by nobody.
- Errors as values, the test helpers, the examples.

## Plan

Done, in this order: the core (`SynthraLoad`, `ConfigStore`, proofs), what it
rests on (`SourceLoad`, `FileDump`, `LoadAliasing`), the maps (`ConfigTree`,
`EnvVarSource`, `Accessors`, `ConfigPipeline`), the periphery (`Resolvers`,
`Construction`, `BindingDefaults`); then callbacks that call `Load`, data races
between Loads, dumpers that change their map, arrays, empty keys and paths, and
the widths of numbers.

Then the proofs: `SourceLoad`, `FileDump`, `LoadAliasing`, `Resolvers`, `Construction`
and `BindingDefaults`. `Resolvers` and `Construction` were rewritten for it,
without recursive operators: a resolver became what it answers, and the options of a
call became items with their places.

Last, `MapSteps`: merge, `Set` and `Delete` once more, as steps on a stack of maps instead of recursive
operators, so that they could be proved.

Next, the proofs: schema defaults and `Walk` as steps on the same stack.

Next, the model: the recording dumper of `synthratest`, and nested objects in
`FileDump`, composed with the sharing of `LoadAliasing`.

## Running the checks

    tlc -config <run>.cfg <module>       # module as listed in PROJECT.json
    tlapm <module>Proofs.tla

`PROJECT.json` lists the runs, the mutations that show that every property can
fail, the lines of code each definition models, the hazards with the properties
that guard against them, and the theorems.
