-------------------------- MODULE MCLoadAliasing --------------------------
(***************************************************************************)
(* Constants of the small instances of LoadAliasing.                       *)
(***************************************************************************)
EXTENDS LoadAliasing, TLC

MCSteps == <<"subst", "set">>
MCSubst == <<"subst">>
MCSymmetry == Permutations(Loaders)
=============================================================================
