-------------------------- MODULE MCCompilerService --------------------------
(* Small instances of the compiler service for TLC. *)
EXTENDS CompilerServiceProperties

\* A project in which "use" needs a declaration that "decl" makes: errors of one
\* file depend on the other.  A name that a declaration file provides as well may
\* be reported where it is declared, or not.
CrossVerdicts(files) ==
    LET declaring == {p \in DOMAIN files : files[p] = "decl"}
    IN  IF declaring = {} THEN {DOMAIN files} ELSE {{}, declaring}
=============================================================================
