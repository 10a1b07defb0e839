------------------------ MODULE MCIncrementalAnalysis ------------------------
(***************************************************************************)
(* A project of three modules with a few texts each.  Together they make   *)
(* chains of inferred constants, inherited members, import cycles with and *)
(* without a circle of values, an inheritance cycle, a declaration file    *)
(* that matters or not, two mains, two equal routes and unused imports.    *)
(***************************************************************************)
EXTENDS IncrementalAnalysisProperties

ABC == <<"a", "b", "c">>

Plain == [parses |-> TRUE, imports |-> << >>, constants |-> << >>, class |-> FALSE, parent |-> None,
          offers |-> {}, needs |-> {}, activates |-> FALSE, declares |-> {}, rejects |-> {},
          unused |-> FALSE, main |-> FALSE, route |-> None]

Literal(type) == [type |-> Inferred, reads |-> << >>, value |-> type, takes |-> {}]
Written       == [type |-> "Integer", reads |-> << >>, value |-> "Integer", takes |-> {}]
Copy(c)       == [type |-> Inferred, reads |-> c, value |-> Same, takes |-> {"Integer", "String"}]
Typed(c)      == [type |-> "Integer", reads |-> c, value |-> Same, takes |-> {"Integer"}]

A1 == <<"a", 1>>
B1 == <<"b", 1>>
C1 == <<"c", 1>>

Base    == [Plain EXCEPT !.constants = <<Literal("Integer")>>, !.class = TRUE, !.offers = {"call"}]
\* The declaration file over time: it may come to say the same in other words.
Ages    == {{"User"}, {"User", "reworded"}, {"User", "Widget"}, Unreadable}
Wording == {"reworded"}

TextsOfA == {
    Base,
    [Base EXCEPT !.constants = <<Literal("String")>>],
    [Base EXCEPT !.constants = <<Written>>],
    [Base EXCEPT !.offers = {"send"}],
    [Base EXCEPT !.imports = <<"c">>, !.constants = <<Copy(C1)>>],
    [Base EXCEPT !.imports = <<"b">>, !.parent = "b"],
    [Base EXCEPT !.parses = FALSE]}

TextsOfB == {
    [Plain EXCEPT !.imports = <<"a">>, !.constants = <<Copy(A1)>>, !.class = TRUE, !.parent = "a"],
    [Plain EXCEPT !.imports = <<"a">>, !.constants = <<Typed(A1)>>, !.route = "index"],
    [Plain EXCEPT !.constants = <<Literal("String")>>, !.activates = TRUE, !.rejects = {{"User"}}],
    [Plain EXCEPT !.imports = <<"a">>, !.main = TRUE]}

TextsOfC == {
    [Plain EXCEPT !.imports = <<"b">>, !.constants = <<Typed(B1)>>, !.main = TRUE,
                  !.needs = {<<"b", "call">>}],
    [Plain EXCEPT !.constants = <<Literal("Integer")>>, !.route = "index"],
    [Plain EXCEPT !.imports = <<"b", "a">>, !.constants = <<Copy(B1)>>, !.unused = TRUE],
    [Plain EXCEPT !.imports = <<"b">>, !.activates = TRUE, !.main = TRUE]}

ABCTexts == [a |-> TextsOfA, b |-> TextsOfB, c |-> TextsOfC]

\* An analyzer starts with any of these projects.
Combined(texts) == {[a |-> a, b |-> b, c |-> c] : a \in texts.a, b \in texts.b, c \in texts.c}
ABCProjects == Combined(ABCTexts)

\* A module comes to declare a type that the declaration file has too.
ConflictingTexts ==
    [a |-> {Plain, [Plain EXCEPT !.class = TRUE, !.offers = {"call"}, !.declares = {"Widget"}]},
     b |-> {Plain}, c |-> {[Plain EXCEPT !.activates = TRUE]}]

\* An import cycle is broken by a change that nobody sees.
BreakingTexts ==
    [a |-> {[Plain EXCEPT !.constants = <<Written>>],
            [Plain EXCEPT !.constants = <<Written>>, !.imports = <<"b">>]},
     b |-> {[Plain EXCEPT !.imports = <<"a">>, !.constants = <<Typed(A1)>>]}, c |-> {Plain}]

ConflictingProjects == Combined(ConflictingTexts)
BreakingProjects    == Combined(BreakingTexts)
=============================================================================
