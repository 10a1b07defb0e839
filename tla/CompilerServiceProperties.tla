---------------------- MODULE CompilerServiceProperties ----------------------
(***************************************************************************)
(* What the compiler service promises.                                     *)
(***************************************************************************)
EXTENDS CompilerService

\* Every variable stays within its type.
ServiceTypeOK ==
    /\ base \in Units
    /\ overlays \in Units
    /\ generation \in 1 .. GenerationBound
    /\ snapshot \in Snapshots \cup {NoSnapshot}
    /\ lastGood \in Units
    /\ calls \in [Callers -> Captures \cup {Idle}]
    /\ result \in [Callers -> Snapshots \cup {NoSnapshot}]

\* A cached snapshot is an analysis of the inputs the service holds, whatever
\* changed while it was being computed: nobody is answered from obsolete text.
SnapshotIsCurrent ==
    snapshot # NoSnapshot =>
        /\ snapshot.version = generation
        /\ snapshot.sources = Current
        /\ snapshot.errors \in Verdicts(Current)

-----------------------------------------------------------------------------
(* What an analysis may fall back on.  Two callers may analyze the same      *)
(* generation, the first with success and the second without: the service    *)
(* answers from its cache only once one of them is done.                     *)

VARIABLE before  \* history: lastGood as it was when the generation began

recordedVars == <<serviceVars, before>>

RecordedInit == Init /\ before = lastGood

RecordedNext ==
    /\ Next
    /\ before' = IF generation' # generation THEN lastGood ELSE before

RecordedSpec == RecordedInit /\ [][RecordedNext]_recordedVars

\* What a call captured is neither older nor newer than its generation, however
\* long the call took: the cached snapshot shows the project itself, or the last
\* one that compiled before the generation began, also when another call of that
\* generation has compiled the project in the meantime.
ShowsLastGood ==
    snapshot # NoSnapshot =>
        snapshot.visible = IF snapshot.errors = {} THEN Current ELSE before

\* What a failed analysis shows is the last project that compiled, also when that
\* was another call's analysis of the same generation.
ShowsLatest ==
    snapshot # NoSnapshot =>
        snapshot.visible = IF snapshot.errors = {} THEN Current ELSE lastGood

-----------------------------------------------------------------------------
(* Refinement: an analysis that leaves the lock for as long as it takes and  *)
(* may be dropped looks as if it were made in one instant.                   *)

Atomic == INSTANCE AtomicService WITH units <- Current, good <- lastGood

AnalysisIsAtomic == Atomic!Spec
=============================================================================
