---------------------------- MODULE ConfigStore ----------------------------
(***************************************************************************)
(* What a Synthra promises to the users of Load and Configuration, without *)
(* locks, steps or bound structs.                                          *)
(*                                                                         *)
(* One configuration is current.  A call of Load that succeeds replaces it *)
(* in one step by data of which every source's part is a version the       *)
(* source had DURING THAT CALL; a call that fails leaves it alone.  Calls  *)
(* may overlap, so the promise is per call: it does not say that a later   *)
(* publication is newer.                                                   *)
(***************************************************************************)
EXTENDS Naturals

CONSTANTS
    Loaders,     \* goroutines that call Load
    Sources,     \* the registered sources
    MaxVersion   \* bound on the versions of a source

VARIABLES
    world,    \* version of the data behind every source
    current,  \* version of every source in the current configuration, 0: none
    phase,    \* "idle", "loading" or "published", for every loader
    since     \* world when the loader's call began

vars == <<world, current, phase, since>>

None == [i \in Sources |-> 0]

Init ==
    /\ world = [i \in Sources |-> 1]
    /\ current = None
    /\ phase = [p \in Loaders |-> "idle"]
    /\ since = [p \in Loaders |-> None]

Change(i) ==
    /\ world[i] < MaxVersion
    /\ world' = [world EXCEPT ![i] = @ + 1]
    /\ UNCHANGED <<current, phase, since>>

Begin(p) ==
    /\ phase[p] = "idle"
    /\ phase' = [phase EXCEPT ![p] = "loading"]
    /\ since' = [since EXCEPT ![p] = world]
    /\ UNCHANGED <<world, current>>

\* The call succeeds: everything it publishes was read during the call.
Publish(p) ==
    /\ phase[p] = "loading"
    /\ current' \in [Sources -> Nat]
    /\ \A i \in Sources : since[p][i] <= current'[i] /\ current'[i] <= world[i]
    /\ phase' = [phase EXCEPT ![p] = "published"]
    /\ UNCHANGED <<world, since>>

\* The call returns, with success if it published and else with an error.
Return(p) ==
    /\ phase[p] \in {"loading", "published"}
    /\ phase' = [phase EXCEPT ![p] = "idle"]
    /\ since' = [since EXCEPT ![p] = None]
    /\ UNCHANGED <<world, current>>

Next ==
    \/ \E i \in Sources : Change(i)
    \/ \E p \in Loaders : Begin(p) \/ Publish(p) \/ Return(p)

Spec == Init /\ [][Next]_vars
=============================================================================
