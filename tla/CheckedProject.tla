---------------------------- MODULE CheckedProject ----------------------------
(***************************************************************************)
(* A project on its way from its texts to an initialization plan: the      *)
(* constants are checked, circles of values are looked for in the import   *)
(* cycles, and the steps of the program are put in order from the module   *)
(* that declares main.                                                     *)
(***************************************************************************)
EXTENDS InitializationPlan

CONSTANTS
    Projects,   \* the projects looked at: functions from Modules to texts
    Entrypoint  \* the module that declares main

ASSUME ProjectsAssumption ==
    /\ \A p \in Projects : Resolved(p)
    /\ Entrypoint \in Modules

VARIABLES
    project,    \* the texts
    result,     \* what checking them has found, or Unchecked
    plan        \* the initialization plan, or Unplanned

vars == <<project, result, plan>>

Unchecked == [checked |-> << >>, rejected |-> {}]
Unplanned == [valid |-> FALSE, steps |-> << >>]

Init ==
    /\ project \in Projects
    /\ result = Unchecked
    /\ plan = Unplanned

Check ==
    /\ result = Unchecked
    /\ LET found == CheckProjectComponents(project)
       IN  result' = [checked |-> found.checked, rejected |-> Rejected(found)]
    /\ UNCHANGED <<project, plan>>

\* Programs are lowered and planned only when nothing has been rejected.
Plan ==
    /\ result # Unchecked
    /\ result.rejected = {}
    /\ CircularValues(project) = {}
    /\ plan = Unplanned
    /\ plan' = OrderedInitializationSteps(project, <<Entrypoint>>)
    /\ UNCHANGED <<project, result>>

Next == Check \/ Plan

Spec == Init /\ [][Next]_vars
=============================================================================
