--------------------------- MODULE CompilerService ---------------------------
(***************************************************************************)
(* The compiler service of editors and tools                               *)
(* (internal/compilerservice/service.go): versioned snapshots over the     *)
(* project's files and the editor's unsaved overlays.  Analysis runs       *)
(* outside the lock, so the inputs may change while it runs; one action is *)
(* one section under the lock.                                             *)
(***************************************************************************)
EXTENDS Naturals

CONSTANTS
    Paths,            \* cleaned file names
    Texts,            \* source texts
    Callers,          \* goroutines that call AnalyzeOnce
    Verdicts(_),      \* the sets of paths that compiling these units may diagnose
    GenerationBound   \* input changes are explored up to this generation

VARIABLES
    base,        \* Service.base: the project's files, by path
    overlays,    \* Service.overlays
    generation,  \* Service.generation
    snapshot,    \* Service.snapshot
    lastGood,    \* Service.lastGood, contexts and imports: always set together
    calls,       \* what each AnalyzeOnce captured before it left the lock
    result       \* the current snapshot each caller was given last

inputs == <<base, overlays, generation>>
analysis == <<lastGood, calls, result>>
serviceVars == <<inputs, snapshot, analysis>>

Units == UNION {[files -> Texts] : files \in SUBSET Paths}

\* Diagnostics are about files of the project.  The same units may get different
\* ones: they also depend on what the Analyzer remembers of earlier analyses and
\* on the declaration files of the disk.
ASSUME ServiceAssumption ==
    /\ GenerationBound \in Nat \ {0}
    /\ \A units \in Units : Verdicts(units) # {} /\ Verdicts(units) \subseteq SUBSET Paths

\* Snapshot, with units in the place of the artifacts compiled from them
Snapshots ==
    [version : 1 .. GenerationBound, sources : Units, errors : SUBSET Paths,
     visible : Units, stale : BOOLEAN]

\* The snapshot nil, and the zero Snapshot
NoSnapshot == [version |-> 0, sources |-> << >>, errors |-> {}, visible |-> << >>,
               stale |-> FALSE]

\* A call of AnalyzeOnce: not running, or analyzing what it captured
Idle == [running |-> FALSE, generation |-> 0, units |-> << >>, lastGood |-> << >>]
Captures ==
    [running : {TRUE}, generation : 1 .. GenerationBound, units : Units, lastGood : Units]

\* f with the value at p replaced or added, and f without p
Put(f, p, text) == [q \in DOMAIN f \cup {p} |-> IF q = p THEN text ELSE f[q]]
Without(f, p) == [q \in DOMAIN f \ {p} |-> f[q]]

Holds(f, p, text) == p \in DOMAIN f /\ f[p] = text

\* currentUnitsLocked: the overlays over the files
Current ==
    [p \in DOMAIN base \cup DOMAIN overlays |->
        IF p \in DOMAIN overlays THEN overlays[p] ELSE base[p]]

Init ==
    /\ base \in Units
    /\ overlays = << >>
    /\ generation = 1
    /\ snapshot = NoSnapshot
    /\ lastGood = << >>
    /\ calls = [c \in Callers |-> Idle]
    /\ result = [c \in Callers |-> NoSnapshot]

-----------------------------------------------------------------------------
(* Inputs *)

\* Mutated: the snapshot of the previous generation stays cached.
InvalidateNothing ==
    /\ generation < GenerationBound
    /\ generation' = generation + 1
    /\ UNCHANGED snapshot

\* s.generation++ and s.snapshot = nil
Invalidate ==
    /\ generation < GenerationBound
    /\ generation' = generation + 1
    /\ snapshot' = NoSnapshot

\* Mutated: a document that equals the project's file leaves the overlay.
SetDocumentOverOld(p, text) ==
    IF Holds(base, p, text) \/ Holds(overlays, p, text)
    THEN UNCHANGED <<inputs, snapshot>>
    ELSE /\ overlays' = Put(overlays, p, text)
         /\ Invalidate
         /\ UNCHANGED base

\* A document that equals the project's file needs no overlay.
SetDocument(p, text) ==
    \/ /\ Holds(base, p, text)
       /\ p \in DOMAIN overlays
       /\ overlays' = Without(overlays, p)
       /\ Invalidate
       /\ UNCHANGED base
    \/ /\ ~Holds(base, p, text)
       /\ ~Holds(overlays, p, text)
       /\ overlays' = Put(overlays, p, text)
       /\ Invalidate
       /\ UNCHANGED base
    \/ /\ IF Holds(base, p, text) THEN p \notin DOMAIN overlays ELSE Holds(overlays, p, text)
       /\ UNCHANGED <<inputs, snapshot>>

CloseDocument(p) ==
    \/ /\ p \in DOMAIN overlays
       /\ overlays' = Without(overlays, p)
       /\ Invalidate
       /\ UNCHANGED base
    \/ /\ p \notin DOMAIN overlays
       /\ UNCHANGED <<inputs, snapshot>>

SetWorkspaceDocument(p, text) ==
    IF Holds(base, p, text)
    THEN UNCHANGED <<inputs, snapshot>>
    ELSE /\ base' = Put(base, p, text)
         /\ Invalidate
         /\ UNCHANGED overlays

RemoveWorkspaceDocument(p) ==
    IF p \notin DOMAIN base
    THEN UNCHANGED <<inputs, snapshot>>
    ELSE /\ base' = Without(base, p)
         /\ Invalidate
         /\ UNCHANGED overlays

ReplaceWorkspaceDocuments(next) ==
    IF base = next
    THEN UNCHANGED <<inputs, snapshot>>
    ELSE /\ base' = next
         /\ Invalidate
         /\ UNCHANGED overlays

-----------------------------------------------------------------------------
(* AnalyzeOnce *)

\* if s.snapshot != nil
AnswerFromCache(c) ==
    /\ ~calls[c].running
    /\ snapshot # NoSnapshot
    /\ result' = [result EXCEPT ![c] = snapshot]
    /\ UNCHANGED <<inputs, snapshot, lastGood, calls>>

\* Mutated: an analysis begins although one of the generation is cached.
BeginAnalysisAnew(c) ==
    /\ ~calls[c].running
    /\ calls' = [calls EXCEPT ![c] =
          [running |-> TRUE, generation |-> generation, units |-> Current,
           lastGood |-> lastGood]]
    /\ UNCHANGED <<inputs, snapshot, lastGood, result>>

\* The first section: capture the inputs and leave the lock.
BeginAnalysis(c) ==
    /\ ~calls[c].running
    /\ snapshot = NoSnapshot
    /\ calls' = [calls EXCEPT ![c] =
          [running |-> TRUE, generation |-> generation, units |-> Current,
           lastGood |-> lastGood]]
    /\ UNCHANGED <<inputs, snapshot, lastGood, result>>

\* Mutated: the snapshot is not given its version.
BuiltUnversioned(call, errors) ==
    [version |-> 0, sources |-> call.units, errors |-> errors,
     visible |-> call.units, stale |-> FALSE]

\* The Snapshot of a finished analysis with these errors.
Built(call, errors) ==
    LET failed == errors # {}
    IN  [version |-> call.generation,
         sources |-> call.units,
         errors  |-> errors,
         visible |-> IF failed THEN call.lastGood ELSE call.units,
         stale   |-> failed /\ DOMAIN call.lastGood # {}]

\* Mutated: the generation is not checked again under the lock.
AlwaysUpToDate(call) == call.running

\* Is what the call captured still what the service holds?
UpToDate(call) == generation = call.generation

\* The last section.  The check between analysis and build of the snapshot
\* only spares work: a generation that changed by then has changed here too.
CommitAnalysis(c) ==
    /\ calls[c].running
    /\ UpToDate(calls[c])
    /\ \E errors \in Verdicts(calls[c].units) :
          /\ snapshot' = Built(calls[c], errors)
          /\ lastGood' = IF errors = {} THEN calls[c].units ELSE lastGood
          /\ result' = [result EXCEPT ![c] = Built(calls[c], errors)]
    /\ calls' = [calls EXCEPT ![c] = Idle]
    /\ UNCHANGED inputs

\* if s.generation != generation { return Snapshot{}, false }
DropAnalysis(c) ==
    /\ calls[c].running
    /\ ~UpToDate(calls[c])
    /\ calls' = [calls EXCEPT ![c] = Idle]
    /\ UNCHANGED <<inputs, snapshot, lastGood, result>>

-----------------------------------------------------------------------------
ChangeInputs ==
    \/ \E p \in Paths, text \in Texts : SetDocument(p, text) \/ SetWorkspaceDocument(p, text)
    \/ \E p \in Paths : CloseDocument(p) \/ RemoveWorkspaceDocument(p)
    \/ \E next \in Units : ReplaceWorkspaceDocuments(next)

Analyze(c) ==
    AnswerFromCache(c) \/ BeginAnalysis(c) \/ CommitAnalysis(c) \/ DropAnalysis(c)

Next ==
    \/ ChangeInputs /\ UNCHANGED analysis
    \/ \E c \in Callers : Analyze(c)

Spec == Init /\ [][Next]_serviceVars
=============================================================================
