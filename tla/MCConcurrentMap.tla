--------------------------- MODULE MCConcurrentMap ---------------------------
(****************************************************************************)
(* Small trees of calls for the ConcurrentMap configurations.               *)
(****************************************************************************)
EXTENDS ConcurrentMapProperties

\* Two elements, both of which make a call. The first of the nested calls has
\* no limit of its own and nests once more, the second has a limit of one.
TreeCalls == {"root", "left", "right", "deep"}
TreeLength == [c \in TreeCalls |-> IF c = "deep" THEN 1 ELSE 2]
TreeLimit == [c \in TreeCalls |->
    CASE c = "root" -> 2 [] c = "right" -> 1 [] OTHER -> NoLimit]
TreeNested == [e \in Elements |->
    CASE e = <<"root", 1>> -> "left"
      [] e = <<"root", 2>> -> "right"
      [] e = <<"left", 1>> -> "deep"
      [] OTHER -> NoCall]

=============================================================================
