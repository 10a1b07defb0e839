--------------------------- MODULE MCCheckedProject ---------------------------
(***************************************************************************)
(* Projects of three modules: two constants in a, one in b and one in c,   *)
(* each a literal or reading another, with and without a written type, or  *)
(* of a type of its own; classes that extend each other along several      *)
(* lines; and imports that are not used by a constant, so that modules are *)
(* in a cycle whose values are not.                                        *)
(***************************************************************************)
EXTENDS CheckedProjectProperties

ABC == <<"a", "b", "c">>

Literal(type) == [type |-> Inferred, reads |-> << >>, value |-> type, takes |-> {}]
Copy(c)       == [type |-> Inferred, reads |-> c, value |-> Same, takes |-> {"Integer", "String"}]
Typed(c)      == [type |-> "Integer", reads |-> c, value |-> Same, takes |-> {"Integer"}]
Measured(c)   == [type |-> Inferred, reads |-> c, value |-> "Integer", takes |-> {"String"}]

A1 == <<"a", 1>>
A2 == <<"a", 2>>
B1 == <<"b", 1>>
C1 == <<"c", 1>>

\* who extends whom
Lineages == {<< >>, [b |-> "a"], [a |-> "b", c |-> "a"], [c |-> "b", b |-> "a"]}

\* imports beside those that the constants and the classes need, as they are written
Extras == {[a |-> << >>, b |-> << >>, c |-> << >>],
           [a |-> <<"c", "b">>, b |-> << >>, c |-> <<"a">>],
           [a |-> <<"b">>, b |-> <<"c">>, c |-> <<"a">>],
           [a |-> << >>, b |-> <<"b">>, c |-> << >>]}

Needed(constants, parent, m) ==
    Sorted(({c[1] : c \in {constants[i].reads : i \in DOMAIN constants} \ {<< >>}} \cup parent) \ {m})

Text(m, constants, lineage, extra) ==
    LET parent == IF m \in DOMAIN lineage THEN {lineage[m]} ELSE {}
    IN  [imports   |-> SelectSeq(extra[m], LAMBDA n : n \notin ToSet(Needed(constants, parent, m)))
                           \o Needed(constants, parent, m),
         constants |-> constants,
         class     |-> lineage # << >>,
         parent    |-> IF parent = {} THEN None ELSE lineage[m]]

ABCProjects ==
    {[a |-> Text("a", <<a1, a2>>, lineage, extra),
      b |-> Text("b", <<b1>>, lineage, extra),
      c |-> Text("c", <<c1>>, lineage, extra)] :
        a1 \in {Literal("Integer"), Copy(B1), Typed(C1), Measured(B1)},
        a2 \in {Literal("Integer"), Copy(B1), Copy(C1), Typed(A1)},
        b1 \in {Literal("Integer"), Copy(A1), Copy(C1), Typed(A1), Typed(A2)},
        c1 \in {Literal("Integer"), Literal("String"), Copy(A2), Typed(B1)},
        lineage \in Lineages, extra \in Extras}
=============================================================================
