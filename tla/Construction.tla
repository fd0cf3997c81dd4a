---------------------------- MODULE Construction ----------------------------
(***************************************************************************)
(* New (src/synthra.go:124-137): the options are applied one after the     *)
(* other to a config, their errors are collected, and an instance is built *)
(* when there are none.  The options are those of src/options.go; a        *)
(* program calls New again and again while its environment changes.        *)
(*                                                                         *)
(* An option is a closure.  Those that take the path of a file keep it in  *)
(* a captured variable and assign the EXPANDED path to that same variable  *)
(* (path = os.ExpandEnv(path), src/options.go:93).  Those for Consul hand  *)
(* theirs by value to addConsulSource, which expands its own parameter.    *)
(***************************************************************************)
EXTENDS Naturals, Sequences, SequencesExt

CONSTANTS
    Options,   \* the options a program can make, with those nested in them
    ArgLists,  \* the lists of options New may be called with
    Nesting    \* how deep these lists nest options in WithIf

\* What the path variable of the environment may be set to: the name of a file
\* with a known extension and of one without; "" is a variable not set.
EnvPaths == {"a.yaml", "plain", ""}
Template == "$VAR"
\* Bug variant: a path that is not there has a default format.
DetectFormatGuesses(path) == path # "plain"

DetectFormat(path) == path = "a.yaml"

\* An option: its kind, whether its argument is usable, the options in it.
Opt(kind, usable) == [kind |-> kind, usable |-> usable, inner |-> << >>]
If(condition, inner) == [kind |-> "if", usable |-> condition, inner |-> inner]
NilOption == [kind |-> "nil", usable |-> FALSE, inner |-> << >>]

\* "As" stands for a format the program gives.
Keeps == {"file", "fileAs", "fileFS", "fileFSAs", "fileDumper", "fileDumperAs"}
ReadsPath == Keeps \cup {"consul"}
Detects == {"file", "fileFS", "fileDumper"}
DumperKinds == {"dumper", "fileDumper", "fileDumperAs"}
Plain == {"source", "dumper", "step", "tag", "binding"}

\* An option to apply, with its place: a path into the nested options of the
\* call, such as <<2>> and <<3, 1>>.
Item == [at : Seq(Nat) \ {<< >>}, opt : Options]

\* The items of a list of options.
Items(list, under) == [i \in DOMAIN list |-> [at |-> Append(under, i), opt |-> list[i]]]

\* What the program asked for instead of an item: the options of a WithIf.
Inner(item) ==
    IF item.opt.kind # "if" THEN <<item>>
    ELSE IF item.opt.usable THEN Items(item.opt.inner, item.at) ELSE << >>

\* Every WithIf of the list is opened once, and then until none is left.
Opened(items) == FlattenSeq([i \in DOMAIN items |-> Inner(items[i])])
Flat(items) ==
    LET opened[n \in 0..Nesting] == IF n = 0 THEN items ELSE Opened(opened[n - 1])
    IN  opened[Nesting]

\* The options a program can make.  A path is always usable; what else is not,
\* is a nil argument, an empty tag, a schema that does not compile or a client
\* that cannot be made.
ASSUME OptionsAssumption ==
    \A o \in Options :
        /\ o \in [kind : ReadsPath \cup Plain \cup {"if", "nil"}, usable : BOOLEAN,
                  inner : Seq(Options)]
        /\ o.kind \in {"file", "fileAs", "fileDumper", "fileDumperAs"} => o.usable
        /\ o.kind = "nil" => o = NilOption
ASSUME ArgListsAssumption == \A list \in ArgLists : list \in Seq(Options)
ASSUME NestingAssumption ==
    /\ Nesting \in Nat
    /\ \A list \in ArgLists : \A x \in ToSet(Flat(Items(list, << >>))) : x.opt.kind # "if"

VARIABLES
    env,       \* the variable in every path
    consul,    \* CONSUL_HTTP_ADDR is set
    captured,  \* the path variables that were assigned, by the option's item
    args,      \* the options of the call
    todo,      \* the options still to apply: their items
    cfg,       \* the config
    result,    \* "none", "instance", "error" or "panic"
    envs,      \* history: the values of env during the call
    before     \* history: captured when the call began

vars == <<env, consul, captured, args, todo, cfg, result, envs, before>>

NothingCaptured == [item \in {} |-> Template]

DefaultConfig == [sources |-> << >>, dumpers |-> << >>, steps |-> << >>,
                  binding |-> << >>, hooks |-> << >>, tag |-> << >>, errors |-> << >>]

Running == todo # << >>
Place == Head(todo).at
Option == Head(todo).opt

Init ==
    /\ env \in EnvPaths
    /\ consul \in BOOLEAN
    /\ captured = NothingCaptured
    /\ args = << >>
    /\ todo = << >>
    /\ cfg = DefaultConfig
    /\ result = "none"
    /\ envs = {}
    /\ before = NothingCaptured

EnvChange ==
    /\ env' \in EnvPaths \ {env}
    /\ envs' = IF Running THEN envs \cup {env'} ELSE envs
    /\ UNCHANGED <<consul, captured, args, todo, cfg, result, before>>

ConsulChange ==
    /\ consul' = ~consul
    /\ UNCHANGED <<env, captured, args, todo, cfg, result, envs, before>>

\* The program makes its options and calls New, or calls it with those it has.
Call ==
    /\ ~Running /\ result = "none"
    /\ \E list \in (IF args = << >> THEN ArgLists ELSE {args}) :
        /\ args' = list
        /\ todo' = Items(list, << >>)
        /\ result' = IF list = << >> THEN "instance" ELSE "none"
    /\ cfg' = DefaultConfig
    /\ envs' = {env}
    /\ before' = captured
    /\ UNCHANGED <<env, consul, captured>>

\* The program has the result.  It keeps its options or makes new ones.
Return ==
    /\ result # "none"
    /\ result' = "none"
    /\ \/ UNCHANGED <<args, captured>>
       \/ args' = << >> /\ captured' = NothingCaptured
    /\ cfg' = DefaultConfig
    /\ envs' = {}
    /\ before' = NothingCaptured
    /\ UNCHANGED <<env, consul, todo>>

-----------------------------------------------------------------------------

\* Bug variant: New stops at the first error.
AppliedStops(c, rest) ==
    /\ cfg' = c
    /\ todo' = IF c.errors = << >> THEN rest ELSE << >>
    /\ result' = IF c.errors # << >> THEN "error"
                 ELSE IF rest = << >> THEN "instance" ELSE "none"

\* The option at hand has made c of the config; New ends after the last one.
Applied(c, rest) ==
    /\ cfg' = c
    /\ todo' = rest
    /\ result' = IF rest # << >> THEN "none"
                 ELSE IF c.errors = << >> THEN "instance" ELSE "error"

Reports == [cfg EXCEPT !.errors = Append(@, Place)]

\* A nil option is an error, unless WithIf calls it.
ApplyNil ==
    /\ Running /\ Option = NilOption
    /\ IF Len(Place) = 1 THEN Applied(Reports, Tail(todo))
       ELSE /\ result' = "panic"
            /\ todo' = << >>
            /\ cfg' = DefaultConfig
    /\ UNCHANGED <<env, consul, captured, args, envs, before>>

\* WithIf: its options are applied in its place.
ApplyIf ==
    /\ Running /\ Option.kind = "if"
    /\ Applied(cfg, (IF Option.usable THEN Items(Option.inner, Place) ELSE << >>)
                    \o Tail(todo))
    /\ UNCHANGED <<env, consul, captured, args, envs, before>>

\* Bug variant: the hooks of two bindings add up.
BindConfigAddsHooks == [cfg EXCEPT !.binding = Place, !.hooks = Append(@, Place)]

\* WithBinding: the target and its hooks replace those of an earlier binding.
BindConfig == [cfg EXCEPT !.binding = Place, !.hooks = <<Place>>]

\* What an option leaves in the config: its item, and the path it was built with.
Entry(path) == [at |-> Place, opt |-> Option, path |-> path]
ItemOf(entry) == [at |-> entry.at, opt |-> entry.opt]

\* The options without a path: nil sources, dumpers, functions and targets, an
\* empty tag and a schema that does not compile are errors.
ApplyPlain ==
    /\ Running /\ Option.kind \in Plain
    /\ LET kind == Option.kind IN
       Applied(CASE ~Option.usable -> Reports
                 [] Option.usable /\ kind = "source" ->
                        [cfg EXCEPT !.sources = Append(@, Entry("none"))]
                 [] Option.usable /\ kind = "dumper" ->
                        [cfg EXCEPT !.dumpers = Append(@, Entry("none"))]
                 [] Option.usable /\ kind = "step" -> [cfg EXCEPT !.steps = Append(@, Place)]
                 [] Option.usable /\ kind = "tag" -> [cfg EXCEPT !.tag = Place]
                 [] Option.usable /\ kind = "binding" -> BindConfig,
               Tail(todo))
    /\ UNCHANGED <<env, consul, captured, args, envs, before>>

Captured == IF Head(todo) \in DOMAIN captured THEN captured[Head(todo)] ELSE Template

\* Bug variant: the path is left as it is written.
ExpandEnvForgotten(path) == path

ExpandEnv(path) == IF path = Template THEN env ELSE path

\* Bug variant: the options for Consul assign their variable, too.
ExpandsAlways ==
    captured' = [x \in DOMAIN captured \cup {Head(todo)} |->
                    IF x = Head(todo) THEN ExpandEnv(Captured) ELSE captured[x]]

\* The path is expanded: where it is the captured variable, for the next New, too.
Expands ==
    captured' = IF Option.kind \in Keeps
                THEN [x \in DOMAIN captured \cup {Head(todo)} |->
                         IF x = Head(todo) THEN ExpandEnv(Captured) ELSE captured[x]]
                ELSE captured

\* A nil filesystem and an unset CONSUL_HTTP_ADDR are found before the path is
\* expanded, an unknown extension and a Consul client that cannot be made after.
\* (WithConsul looks at the extension of the path as written, which is fixed.)
FailsEarly == \/ Option.kind \in {"fileFS", "fileFSAs"} /\ ~Option.usable
              \/ Option.kind = "consul" /\ ~consul
FailsLate == \/ Option.kind \in Detects /\ ~DetectFormat(ExpandEnv(Captured))
             \/ Option.kind = "consul" /\ ~Option.usable

ApplyPath ==
    /\ Running /\ Option.kind \in ReadsPath
    /\ IF FailsEarly THEN Applied(Reports, Tail(todo)) /\ UNCHANGED captured
       ELSE /\ Expands
            /\ LET entry == Entry(ExpandEnv(Captured)) IN
               Applied(IF FailsLate THEN Reports
                       ELSE IF Option.kind \in DumperKinds
                       THEN [cfg EXCEPT !.dumpers = Append(@, entry)]
                       ELSE [cfg EXCEPT !.sources = Append(@, entry)],
                       Tail(todo))
    /\ UNCHANGED <<env, consul, args, envs, before>>

Next == EnvChange \/ ConsulChange \/ Call \/ Return \/ ApplyNil \/ ApplyIf \/ ApplyPlain \/ ApplyPath

Spec == Init /\ [][Next]_vars

-----------------------------------------------------------------------------

\* The options New should apply, in order, and the places of those in a set.
All == Flat(Items(args, << >>))
Where(items, set) ==
    FlattenSeq([i \in DOMAIN items |-> IF items[i] \in set THEN <<items[i].at>> ELSE << >>])
OfKind(kinds) == {x \in Item : x.opt.kind \in kinds}
At(places) == {x \in Item : x.at \in places}
Unusable == {x \in Item : ~x.opt.usable}

LastOr(seq, default) == IF seq = << >> THEN default ELSE seq[Len(seq)]
Ats(entries) == [i \in DOMAIN entries |-> entries[i].at]
SourceKinds == {"source", "file", "fileAs", "fileFS", "fileFSAs", "consul"}

\* An instance is what its options say, and all of them: one source, dumper and
\* step per option in the order of the list, whatever is nested in WithIf, and
\* the last binding with its own hooks only (src/synthra.go:104-137,
\* src/options.go:420-447).
InstanceFollowsOptions ==
    result = "instance" =>
        /\ Ats(cfg.sources) = Where(All, OfKind(SourceKinds))
        /\ Ats(cfg.dumpers) = Where(All, OfKind(DumperKinds))
        /\ cfg.steps = Where(All, OfKind({"step"}))
        /\ cfg.binding = LastOr(Where(All, OfKind({"binding"})), << >>)
        /\ cfg.hooks = (IF cfg.binding = << >> THEN << >> ELSE <<cfg.binding>>)
        /\ cfg.tag = LastOr(Where(All, OfKind({"tag"})), << >>)

\* New reports every option that cannot be used, also those after the first, in
\* their order and each once; a call with one never yields an instance
\* (src/synthra.go:104-108, README.md:1119).
ErrorsAreComplete ==
    LET bad == Where(All, Unusable)
        reported == Where(All, At(ToSet(cfg.errors)))
    IN  /\ result = "instance" => bad = << >>
        /\ result = "error" => /\ ToSet(bad) \subseteq ToSet(cfg.errors)
                               /\ cfg.errors = reported
                               /\ cfg.errors # << >>

\* The path of every source and dumper is expanded in an environment of the New
\* that made it: options.go:132-134 and 238-240 promise the value the variable has
\* then.  A file option that an earlier New applied is the exception: it keeps the
\* path of that one, whatever the environment has become (src/options.go:93).  One
\* for Consul is none: it is expanded again (src/options.go:264, 320-326).  A
\* variable that is not set leaves the path empty: the options that detect the
\* format refuse it, and those told the format make a source that has nothing to
\* read (src/options.go:285-290, src/source/file.go:67).
PathsAreCurrent ==
    result = "instance" =>
        \A e \in ToSet(cfg.sources) \cup ToSet(cfg.dumpers) :
            e.path # "none" =>
                /\ IF e.opt.kind # "consul" /\ ItemOf(e) \in DOMAIN before
                   THEN e.path = before[ItemOf(e)] ELSE e.path \in envs
                /\ e.path = "" => e.opt.kind \notin Detects
=============================================================================
