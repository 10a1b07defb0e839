--------------------- MODULE IncrementalAnalysisProperties ---------------------
(***************************************************************************)
(* What an analyzer that remembers promises to those who ask it.           *)
(***************************************************************************)
EXTENDS IncrementalAnalysis

Stages == {"unasked", "success", "syntax", "catalog", "declarations", "resolution", "main",
           "types", "integrations", "initialization"}

(* Inputs, remembered analysis and answer are shaped as the code keeps     *)
(* them; what is remembered is an analysis that succeeded.                 *)
TypeOK ==
    /\ \A m \in Modules : sources[m] \in Texts[m]
    /\ strict \in BOOLEAN
    /\ file \in Files
    /\ answer.stage \in Stages /\ answer.modules \subseteq Modules
    /\ state.analyzed =>
           /\ DOMAIN state.artifacts = Modules
           /\ \A m \in Modules : \A i \in DOMAIN state.types[m] :
                  state.types[m][i] \notin {Unknown, Inferred}

(* AnalyzeProject: whatever was analyzed before, and whether it succeeded, *)
(* the answer is that of an analysis of the same inputs from nothing: the  *)
(* same acceptance, or the same stage with errors in the same modules.     *)
SameAnswer ==
    answer # Unasked => answer = Full(sources, strict, file).outcome

\* An artifact but for the way its module is initialized
Lowered(artifact) == [artifact EXCEPT !.actions = "whole"]

(* Analyzer.state: what is reused is what an analysis of the remembered    *)
(* sources from nothing would have made of them, so that no chain of edits *)
(* and failures lets a difference build up (the state changes only with an *)
(* answer).                                                                *)
StateIsFull ==
    (answer # Unasked /\ state.analyzed) =>
        LET full == Full(state.sources, state.strict, state.declared).analysis
        IN  /\ full.analyzed
            /\ full.types = state.types
            /\ \A m \in Modules : Lowered(full.artifacts[m]) = Lowered(state.artifacts[m])

(* requireAnalysisMatchesFullCompilation: the artifacts of an analysis     *)
(* generate what those of a full compilation generate, the split into      *)
(* initialization actions included.                                        *)
SameArtifacts ==
    state.analyzed =>
        state.artifacts = Full(state.sources, state.strict, state.declared).analysis.artifacts

(* Declaration providers: "A declaration name that conflicts with another  *)
(* active provider or a project declaration is an error."                  *)
ConflictsAreErrors ==
    answer.stage = "success" => ~Conflicts(sources, Captured(sources, file))
=============================================================================
