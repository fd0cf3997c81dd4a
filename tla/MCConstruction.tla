--------------------------- MODULE MCConstruction ---------------------------
(***************************************************************************)
(* Lists of options for New: every list of at most three.                  *)
(***************************************************************************)
EXTENDS Construction

\* Usable options and others, and nested ones, of every kind but fileAs, which is
\* fileFSAs with a file system that is never nil.
MCOptions ==
    {Opt("file", TRUE), Opt("fileFS", FALSE), Opt("consul", TRUE),
     Opt("fileDumper", TRUE), Opt("source", TRUE), Opt("step", TRUE),
     Opt("tag", TRUE), Opt("binding", TRUE), NilOption,
     If(TRUE, <<Opt("binding", TRUE), If(TRUE, <<Opt("fileFSAs", TRUE)>>)>>),
     If(TRUE, <<Opt("fileDumperAs", TRUE), If(TRUE, <<Opt("source", FALSE), NilOption>>)>>),
     If(FALSE, <<NilOption>>)}

\* With the options that only stand in another, or in one that does.
MCInner(options) == UNION {ToSet(o.inner) : o \in options}
MCAllOptions == MCOptions \cup MCInner(MCOptions) \cup MCInner(MCInner(MCOptions))

MCArgLists == UNION {[1..n -> MCOptions] : n \in 0..3}
=============================================================================
