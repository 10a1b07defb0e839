---------------------------- MODULE AtomicService ----------------------------
(***************************************************************************)
(* What the compiler service promises (internal/compilerservice): a        *)
(* project whose inputs change one generation at a time, and analyses that *)
(* behave as if each were made in one instant, of the inputs as they are.  *)
(* Two analyses of one generation may disagree, and the one that fails     *)
(* falls back behind the generation, also when the other one succeeded.    *)
(*                                                                         *)
(* An artifact, a completion context or an import candidate is represented *)
(* by the units it was compiled from.                                      *)
(***************************************************************************)
EXTENDS Naturals

CONSTANTS
    Paths,       \* cleaned file names
    Texts,       \* source texts
    Callers,     \* goroutines that ask for an analysis
    Verdicts(_)  \* the sets of paths that compiling these units may diagnose

\* Projects: the source text of every file in them.
Units == UNION {[files -> Texts] : files \in SUBSET Paths}

VARIABLES
    units,       \* the inputs: workspace files beneath editor overlays
    generation,  \* counts the changes of the inputs
    good,        \* the units of the last analysis without errors
    before,      \* what they were when the generation began
    result       \* the snapshot each caller got last

NoResult == [version |-> 0, sources |-> << >>, errors |-> {}, visible |-> << >>,
             stale |-> FALSE]

\* Analysis of some units with these errors.  An erroneous project is shown with
\* the contexts of the last good one.
Analysis(version, sources, errors, lastGood) ==
    [version |-> version,
     sources |-> sources,
     errors  |-> errors,
     visible |-> IF errors = {} THEN sources ELSE lastGood,
     stale   |-> errors # {} /\ DOMAIN lastGood # {}]

Init ==
    /\ units \in Units
    /\ generation = 1
    /\ good = << >>
    /\ before = << >>
    /\ result = [c \in Callers |-> NoResult]

\* Some input changes.  A workspace file may change beneath an overlay, which
\* makes a generation of the same units.
Change ==
    /\ units' \in Units
    /\ generation' = generation + 1
    /\ before' = good
    /\ UNCHANGED <<good, result>>

\* A caller gets the analysis of the present inputs.
Answer(c) ==
    /\ \E errors \in Verdicts(units) :
          /\ result' = [result EXCEPT ![c] = Analysis(generation, units, errors, before)]
          /\ good' = IF errors = {} THEN units ELSE good
    /\ UNCHANGED <<units, generation, before>>

Next == Change \/ \E c \in Callers : Answer(c)

Spec == Init /\ [][Next]_<<units, generation, good, before, result>>
=============================================================================
