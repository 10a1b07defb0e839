-------------------------- MODULE MCLanguageServer --------------------------
(* Small instances of the language server for TLC. *)
EXTENDS LanguageServerProperties

\* A project in which "use" needs a declaration that "decl" makes.
CrossVerdicts(files) ==
    {IF \E p \in DOMAIN files : files[p] = "decl" THEN {}
     ELSE {p \in DOMAIN files : files[p] = "use"}}

\* A file that uses a declaration imports the other files.
CrossImports(p, text) == IF text = "use" THEN Paths \ {p} ELSE {}

\* Bounds by the kind of session: a project's files stay as they are in the runs
\* about its documents.
None(root) == 0
Once(root) == 1
Twice(root) == 2
ThriceOrTwice(root) == IF root THEN 2 ELSE 3
OnceIfRoot(root) == IF root THEN 1 ELSE 0
=============================================================================
