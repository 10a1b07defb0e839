------------------------ MODULE LanguageServerProofs ------------------------
(***************************************************************************)
(* The event loop never waits for an analysis, what it answers from is     *)
(* what the editor and the files say, and nothing older is shown, for any  *)
(* files, texts and imports, and whatever the bounds.                      *)
(***************************************************************************)
EXTENDS LanguageServerProperties, CompilerServiceProperties, FiniteSetTheorems, TLAPS

-----------------------------------------------------------------------------
(* The compiler service                                                    *)

\* A call whose generation is still the service's has captured the present inputs.
CapturesCurrent ==
    \A c \in Callers : calls[c].running /\ calls[c].generation = generation =>
        calls[c].units = Current

\* No call is ahead of the service.
CapturesPast ==
    \A c \in Callers : calls[c].running => calls[c].generation <= generation

ServiceIInv == ServiceTypeOK /\ SnapshotIsCurrent /\ CapturesCurrent /\ CapturesPast

\* Nobody has compiled this generation before its first snapshot is cached, ...
NobodyYet == snapshot = NoSnapshot => lastGood = before

\* ... which is when its analyses begin.
CapturesBefore ==
    \A c \in Callers : calls[c].running /\ calls[c].generation = generation =>
        calls[c].lastGood = before

\* The cached snapshot is what an atomic analysis may give now.
SnapshotIsAnalysis ==
    snapshot # NoSnapshot =>
        snapshot = Atomic!Analysis(generation, Current, snapshot.errors, before)

\* A project without errors is the last good one once it is cached.
CompiledIsGood == snapshot # NoSnapshot /\ snapshot.errors = {} => lastGood = Current

Recorded == NobodyYet /\ CapturesBefore /\ SnapshotIsAnalysis /\ CompiledIsGood

-----------------------------------------------------------------------------
\* Units are the functions from some paths to texts.
LEMMA UnitsAre ==
    ASSUME NEW f
    PROVE  f \in Units <=> DOMAIN f \subseteq Paths /\ f \in [DOMAIN f -> Texts]
BY DEF Units

\* The empty project.
LEMMA NoUnits == << >> \in Units
<1>1. << >> \in [{} -> Texts]
  OBVIOUS
<1> QED BY <1>1 DEF Units

\* Overlaying a text and dropping an overlay
LEMMA OverlayTypes ==
    ASSUME NEW f \in Units, NEW p \in Paths
    PROVE  Without(f, p) \in Units /\ \A text \in Texts : Put(f, p, text) \in Units
<1>1. DOMAIN f \subseteq Paths /\ f \in [DOMAIN f -> Texts]
  BY UnitsAre
<1>2. Without(f, p) \in [DOMAIN f \ {p} -> Texts]
  BY <1>1 DEF Without
<1>3. ASSUME NEW text \in Texts PROVE Put(f, p, text) \in Units
  <2>1. Put(f, p, text) \in [DOMAIN f \cup {p} -> Texts]
    BY <1>1 DEF Put
  <2> QED BY <1>1, <2>1 DEF Units
<1> QED BY <1>1, <1>2, <1>3 DEF Units

\* What is compiled is a project too.
LEMMA CurrentType ==
    ASSUME base \in Units, overlays \in Units
    PROVE  Current \in Units
<1>1. /\ DOMAIN base \subseteq Paths /\ base \in [DOMAIN base -> Texts]
      /\ DOMAIN overlays \subseteq Paths /\ overlays \in [DOMAIN overlays -> Texts]
  BY UnitsAre
<1>2. Current \in [DOMAIN base \cup DOMAIN overlays -> Texts]
  BY <1>1 DEF Current
<1> QED BY <1>1, <1>2 DEF Units

\* What a commit makes of the state, for one of the verdicts on the captured units.
CommitsWith(c, errors) ==
    /\ errors \in Verdicts(Current)
    /\ snapshot' = Built(calls[c], errors)
    /\ lastGood' = IF errors = {} THEN Current ELSE lastGood
    /\ result' = [result EXCEPT ![c] = Built(calls[c], errors)]
    /\ calls' = [calls EXCEPT ![c] = Idle]
    /\ UNCHANGED inputs

\* A commit is one of the verdicts on the present inputs.
LEMMA CommitHasVerdict ==
    ASSUME CapturesCurrent, NEW c \in Callers, CommitAnalysis(c)
    PROVE  \E errors : CommitsWith(c, errors)
<1>1. calls[c].units = Current
  BY DEF CommitAnalysis, UpToDate, CapturesCurrent
<1> QED BY <1>1 DEF CommitAnalysis, CommitsWith

\* The snapshot of an up-to-date call.
LEMMA BuiltType ==
    ASSUME ServiceIInv, NEW c \in Callers, CommitAnalysis(c), NEW errors \in Verdicts(Current)
    PROVE  LET built == Built(calls[c], errors)
           IN  /\ built \in Snapshots
               /\ built.version = generation /\ built.sources = Current
               /\ built.errors = errors
<1>1. calls[c].generation = generation /\ calls[c].units = Current
  BY DEF CommitAnalysis, UpToDate, ServiceIInv, CapturesCurrent
<1>2. /\ Current \in Units /\ generation \in 1 .. GenerationBound
      /\ calls[c].lastGood \in Units
  <2>1. base \in Units /\ overlays \in Units /\ generation \in 1 .. GenerationBound
    BY DEF ServiceIInv, ServiceTypeOK
  <2>2. calls[c] \in Captures \cup {Idle} /\ calls[c].running
    BY DEF ServiceIInv, ServiceTypeOK, CommitAnalysis
  <2>3. Idle.running = FALSE
    BY DEF Idle
  <2>4. calls[c] \in Captures
    BY <2>2, <2>3
  <2>5. calls[c].lastGood \in Units
    BY <2>4 DEF Captures
  <2> QED BY <2>1, <2>5, CurrentType
<1>3. errors \in SUBSET Paths
  BY <1>2, ServiceAssumption
<1> QED BY <1>1, <1>2, <1>3 DEF Built, Snapshots

-----------------------------------------------------------------------------
\* What a change of the inputs does to the rest of the state.
LEMMA InputsChange ==
    ASSUME ServiceTypeOK, ChangeInputs
    PROVE  \/ UNCHANGED <<inputs, snapshot>>
           \/ base' \in Units /\ overlays' \in Units /\ Invalidate
<1>1. ASSUME NEW p \in Paths, NEW text \in Texts,
             SetDocument(p, text) \/ SetWorkspaceDocument(p, text)
      PROVE  \/ UNCHANGED <<inputs, snapshot>>
             \/ base' \in Units /\ overlays' \in Units /\ Invalidate
  BY <1>1, OverlayTypes DEF ServiceTypeOK, SetDocument, SetWorkspaceDocument
<1>2. ASSUME NEW p \in Paths, CloseDocument(p) \/ RemoveWorkspaceDocument(p)
      PROVE  \/ UNCHANGED <<inputs, snapshot>>
             \/ base' \in Units /\ overlays' \in Units /\ Invalidate
  <2>1. \A f \in Units : Without(f, p) \in Units
    <3> SUFFICES ASSUME NEW f \in Units PROVE Without(f, p) \in Units
      OBVIOUS
    <3>1. DOMAIN f \subseteq Paths /\ f \in [DOMAIN f -> Texts]
      BY UnitsAre
    <3>2. Without(f, p) \in [DOMAIN f \ {p} -> Texts]
      BY <3>1 DEF Without
    <3> QED BY <3>1, <3>2 DEF Units
  <2> QED BY <1>2, <2>1 DEF ServiceTypeOK, CloseDocument, RemoveWorkspaceDocument
<1>3. ASSUME NEW next \in Units, ReplaceWorkspaceDocuments(next)
      PROVE  \/ UNCHANGED <<inputs, snapshot>>
             \/ base' \in Units /\ overlays' \in Units /\ Invalidate
  BY <1>3 DEF ServiceTypeOK, ReplaceWorkspaceDocuments
<1> QED BY <1>1, <1>2, <1>3 DEF ChangeInputs

\* Initially nothing is cached and nobody analyzes.
LEMMA InitServiceIInv == Init => ServiceIInv
<1> SUFFICES ASSUME Init PROVE ServiceIInv
  OBVIOUS
<1>1. ServiceTypeOK
  <2>1. overlays \in Units /\ lastGood \in Units
    BY NoUnits DEF Init
  <2>2. generation \in 1 .. GenerationBound
    BY ServiceAssumption DEF Init
  <2>3. calls \in [Callers -> Captures \cup {Idle}] /\ result \in [Callers -> Snapshots \cup {NoSnapshot}]
    BY DEF Init
  <2> QED BY <2>1, <2>2, <2>3 DEF Init, ServiceTypeOK
<1>2. CapturesCurrent /\ CapturesPast
  BY DEF Init, CapturesCurrent, CapturesPast, Idle
<1> QED BY <1>1, <1>2 DEF Init, ServiceIInv, SnapshotIsCurrent

\* No call is of the generation that a change begins.
LEMMA CapturesOutdated ==
    ASSUME ServiceIInv, Invalidate, UNCHANGED analysis, NEW c \in Callers, calls'[c].running
    PROVE  /\ calls'[c].generation <= generation'
           /\ calls'[c].generation # generation'
<1>1. calls[c] \in Captures /\ calls'[c] = calls[c]
  BY DEF ServiceIInv, ServiceTypeOK, Idle, analysis
<1>2. calls[c].generation \in 1 .. GenerationBound /\ generation \in 1 .. GenerationBound
  BY <1>1 DEF ServiceIInv, ServiceTypeOK, Captures
<1>3. calls[c].generation <= generation /\ generation' = generation + 1
  BY <1>1 DEF Invalidate, ServiceIInv, CapturesPast
<1> QED BY <1>1, <1>2, <1>3

\* A change of the inputs empties the cache and outdates every call.
LEMMA ChangeStep ==
    ASSUME ServiceIInv, ChangeInputs, UNCHANGED analysis
    PROVE  ServiceIInv'
<1>1. CASE UNCHANGED <<inputs, snapshot>>
  BY <1>1 DEF ServiceIInv, ServiceTypeOK, SnapshotIsCurrent, CapturesCurrent, CapturesPast,
              Current, inputs, analysis
<1>2. CASE base' \in Units /\ overlays' \in Units /\ Invalidate
  <2>1. ServiceTypeOK'
    BY <1>2, ServiceAssumption DEF ServiceIInv, ServiceTypeOK, Invalidate, analysis
  <2>2. snapshot' = NoSnapshot
    BY <1>2 DEF Invalidate
  <2>3. CapturesCurrent' /\ CapturesPast'
    BY <1>2, CapturesOutdated DEF CapturesCurrent, CapturesPast
  <2> QED BY <2>1, <2>2, <2>3 DEF ServiceIInv, SnapshotIsCurrent
<1> QED BY <1>1, <1>2, InputsChange DEF ServiceIInv

\* The sections of AnalyzeOnce keep the invariant.
LEMMA AnalyzeStep ==
    ASSUME ServiceIInv, NEW c \in Callers, Analyze(c)
    PROVE  ServiceIInv'
<1>0. UNCHANGED inputs => Current' = Current
  BY DEF inputs, Current
<1>1. CASE AnswerFromCache(c)
  <2>1. ServiceTypeOK'
    BY <1>1 DEF ServiceIInv, ServiceTypeOK, AnswerFromCache, inputs
  <2> QED BY <1>0, <1>1, <2>1 DEF ServiceIInv, SnapshotIsCurrent, CapturesCurrent,
             CapturesPast, AnswerFromCache, inputs
<1>2. CASE BeginAnalysis(c)
  <2>1. Current \in Units
    BY CurrentType DEF ServiceIInv, ServiceTypeOK
  <2> DEFINE call == [running |-> TRUE, generation |-> generation, units |-> Current,
                      lastGood |-> lastGood]
  <2>2. call \in Captures
    BY <2>1 DEF ServiceIInv, ServiceTypeOK, Captures
  <2>3. /\ calls' = [calls EXCEPT ![c] = call]
        /\ UNCHANGED <<base, overlays, generation, snapshot, lastGood, result>>
    BY <1>2 DEF BeginAnalysis, inputs
  <2>4. call.generation = generation /\ call.units = Current
    OBVIOUS
  <2> HIDE DEF call
  <2>5. ServiceTypeOK'
    BY <2>2, <2>3 DEF ServiceIInv, ServiceTypeOK
  <2>6. Current' = Current
    BY <2>3 DEF Current
  <2>7. CapturesCurrent' /\ CapturesPast'
    <3> SUFFICES ASSUME NEW d \in Callers, calls'[d].running
                 PROVE  /\ calls'[d].generation <= generation
                        /\ calls'[d].generation = generation => calls'[d].units = Current
      BY <2>3, <2>6 DEF CapturesCurrent, CapturesPast
    <3>1. CASE d = c
      BY <2>3, <2>4, <3>1 DEF ServiceIInv, ServiceTypeOK
    <3>2. CASE d # c
      BY <2>3, <3>2 DEF ServiceIInv, ServiceTypeOK, CapturesCurrent, CapturesPast
    <3> QED BY <3>1, <3>2
  <2>8. SnapshotIsCurrent'
    BY <2>3, <2>6 DEF ServiceIInv, SnapshotIsCurrent
  <2> QED BY <2>5, <2>7, <2>8 DEF ServiceIInv
<1>3. CASE CommitAnalysis(c)
  <2>1. PICK errors : CommitsWith(c, errors)
    BY <1>3, CommitHasVerdict DEF ServiceIInv
  <2> DEFINE built == Built(calls[c], errors)
  <2>2. /\ built \in Snapshots /\ errors \in Verdicts(Current)
        /\ built.version = generation /\ built.sources = Current /\ built.errors = errors
    BY <1>3, <2>1, BuiltType DEF CommitsWith
  <2>3. /\ snapshot' = built
        /\ lastGood' = lastGood \/ lastGood' = Current
        /\ result' = [result EXCEPT ![c] = built]
        /\ calls' = [calls EXCEPT ![c] = Idle]
        /\ UNCHANGED <<base, overlays, generation>>
    BY <2>1 DEF CommitsWith, inputs
  <2>4. Current' = Current
    BY <2>3 DEF Current
  <2> HIDE DEF built
  <2>5. ServiceTypeOK'
    <3>1. Current \in Units
      BY CurrentType DEF ServiceIInv, ServiceTypeOK
    <3> QED BY <2>2, <2>3, <3>1 DEF ServiceIInv, ServiceTypeOK
  <2>6. CapturesCurrent' /\ CapturesPast'
    BY <2>3, <2>4 DEF ServiceIInv, ServiceTypeOK, CapturesCurrent, CapturesPast, Idle
  <2>7. SnapshotIsCurrent'
    BY <2>2, <2>3, <2>4 DEF SnapshotIsCurrent
  <2> QED BY <2>5, <2>6, <2>7 DEF ServiceIInv
<1>4. CASE DropAnalysis(c)
  <2>1. /\ calls' = [calls EXCEPT ![c] = Idle]
        /\ UNCHANGED <<base, overlays, generation, snapshot, lastGood, result>>
    BY <1>4 DEF DropAnalysis, inputs
  <2>2. ServiceTypeOK'
    BY <2>1 DEF ServiceIInv, ServiceTypeOK
  <2>3. Current' = Current
    BY <2>1 DEF Current
  <2>4. CapturesCurrent' /\ CapturesPast'
    BY <2>1, <2>3 DEF ServiceIInv, ServiceTypeOK, CapturesCurrent, CapturesPast, Idle
  <2> QED BY <2>1, <2>2, <2>3, <2>4 DEF ServiceIInv, SnapshotIsCurrent
<1> QED BY <1>1, <1>2, <1>3, <1>4 DEF Analyze

\* The invariant holds in every reachable state.
THEOREM ServiceInvariant == Spec => []ServiceIInv
<1>1. ServiceIInv /\ [Next]_serviceVars => ServiceIInv'
  <2> SUFFICES ASSUME ServiceIInv, [Next]_serviceVars PROVE ServiceIInv'
    OBVIOUS
  <2>1. CASE ChangeInputs /\ UNCHANGED analysis
    BY <2>1, ChangeStep
  <2>2. ASSUME NEW c \in Callers, Analyze(c) PROVE ServiceIInv'
    BY <2>2, AnalyzeStep
  <2>3. CASE UNCHANGED serviceVars
    BY <2>3 DEF serviceVars, inputs, analysis, ServiceIInv, ServiceTypeOK, SnapshotIsCurrent,
                CapturesCurrent, CapturesPast, Current
  <2> QED BY <2>1, <2>2, <2>3 DEF Next
<1> QED BY InitServiceIInv, <1>1, PTL DEF Spec

\* Nobody is answered from obsolete text, whatever changes during an analysis.
THEOREM SnapshotsAreCurrent == Spec => []SnapshotIsCurrent
<1>1. ServiceIInv => SnapshotIsCurrent
  BY DEF ServiceIInv
<1> QED BY <1>1, ServiceInvariant, PTL

\* Every variable of the service stays within its type.
THEOREM ServiceTypes == Spec => []ServiceTypeOK
<1>1. ServiceIInv => ServiceTypeOK
  BY DEF ServiceIInv
<1> QED BY <1>1, ServiceInvariant, PTL

-----------------------------------------------------------------------------
(* What an analysis falls back on                                          *)

\* The history of a change is the last good project, of the rest nothing.
LEMMA ChangeRecorded ==
    ASSUME ServiceIInv, Recorded, ChangeInputs, UNCHANGED analysis,
           before' = IF generation' # generation THEN lastGood ELSE before
    PROVE  Recorded'
<1> USE DEF Recorded
<1>1. CASE UNCHANGED <<inputs, snapshot>>
  BY <1>1 DEF NobodyYet, CapturesBefore, SnapshotIsAnalysis, CompiledIsGood, Current, inputs,
              analysis, Atomic!Analysis
<1>2. CASE base' \in Units /\ overlays' \in Units /\ Invalidate
  <2>1. snapshot' = NoSnapshot
    BY <1>2 DEF Invalidate
  <2>2. generation' # generation
    BY <1>2 DEF Invalidate, ServiceIInv, ServiceTypeOK
  <2>3. NobodyYet'
    BY <2>2 DEF NobodyYet, analysis
  <2>4. CapturesBefore'
    BY <1>2, CapturesOutdated DEF CapturesBefore
  <2> QED BY <2>1, <2>3, <2>4 DEF SnapshotIsAnalysis, CompiledIsGood
<1> QED BY <1>1, <1>2, InputsChange DEF ServiceIInv

\* The sections of AnalyzeOnce keep what the history says.
LEMMA AnalyzeRecorded ==
    ASSUME ServiceIInv, Recorded, NEW c \in Callers, Analyze(c), before' = before
    PROVE  Recorded'
<1> USE DEF Recorded
<1>0. UNCHANGED inputs => Current' = Current /\ generation' = generation
  BY DEF inputs, Current
<1>1. CASE AnswerFromCache(c)
  BY <1>0, <1>1 DEF AnswerFromCache, NobodyYet, CapturesBefore, SnapshotIsAnalysis,
                    CompiledIsGood, Atomic!Analysis
<1>2. CASE BeginAnalysis(c)
  <2> DEFINE call == [running |-> TRUE, generation |-> generation, units |-> Current,
                      lastGood |-> lastGood]
  <2>1. /\ calls' = [calls EXCEPT ![c] = call] /\ call.lastGood = before
        /\ UNCHANGED <<snapshot, lastGood>>
    BY <1>2 DEF BeginAnalysis, NobodyYet
  <2> HIDE DEF call
  <2>2. CapturesBefore'
    BY <1>0, <1>2, <2>1 DEF BeginAnalysis, CapturesBefore, ServiceIInv, ServiceTypeOK
  <2> QED BY <1>0, <1>2, <2>1, <2>2 DEF BeginAnalysis, NobodyYet, SnapshotIsAnalysis,
                                        CompiledIsGood, Atomic!Analysis
<1>3. CASE CommitAnalysis(c)
  <2>1. PICK errors : CommitsWith(c, errors)
    BY <1>3, CommitHasVerdict DEF ServiceIInv
  <2> DEFINE built == Built(calls[c], errors)
  <2>2. built.errors = errors /\ built.version = generation
    BY <1>3, <2>1, BuiltType DEF CommitsWith
  <2>3. built = Atomic!Analysis(generation, Current, errors, before)
    BY <1>3 DEF CommitAnalysis, UpToDate, ServiceIInv, CapturesCurrent, CapturesBefore, Built,
                Atomic!Analysis
  <2>4. /\ snapshot' = built
        /\ lastGood' = IF errors = {} THEN Current ELSE lastGood
        /\ calls' = [calls EXCEPT ![c] = Idle]
        /\ Current' = Current /\ generation' = generation
    BY <1>0, <2>1 DEF CommitsWith
  <2> HIDE DEF built
  <2>5. built # NoSnapshot
    BY <2>2 DEF NoSnapshot, ServiceIInv, ServiceTypeOK
  <2>6. NobodyYet' /\ CompiledIsGood'
    BY <2>2, <2>4, <2>5 DEF NobodyYet, CompiledIsGood
  <2>7. CapturesBefore'
    BY <2>4 DEF CapturesBefore, ServiceIInv, ServiceTypeOK, Idle
  <2>8. SnapshotIsAnalysis'
    <3>1. Atomic!Analysis(generation, Current, errors, before)'
            = Atomic!Analysis(generation, Current, errors, before)
      BY <2>4 DEF Atomic!Analysis
    <3> QED BY <2>2, <2>3, <2>4 DEF SnapshotIsAnalysis, Atomic!Analysis
  <2> QED BY <2>6, <2>7, <2>8
<1>4. CASE DropAnalysis(c)
  <2>1. CapturesBefore'
    BY <1>0, <1>4 DEF DropAnalysis, CapturesBefore, ServiceIInv, ServiceTypeOK, Idle
  <2> QED BY <1>0, <1>4, <2>1 DEF DropAnalysis, NobodyYet, SnapshotIsAnalysis, CompiledIsGood,
                                  Atomic!Analysis
<1> QED BY <1>1, <1>2, <1>3, <1>4 DEF Analyze

\* Only a change of the inputs begins a generation.
LEMMA AnalyzeKeepsGeneration ==
    ASSUME NEW c \in Callers, Analyze(c)
    PROVE  generation' = generation
BY DEF Analyze, AnswerFromCache, BeginAnalysis, CommitAnalysis, DropAnalysis, inputs

\* The history is right in every reachable state.
LEMMA RecordedInvariant == RecordedSpec => [](ServiceIInv /\ Recorded)
<1>1. RecordedInit => ServiceIInv /\ Recorded
  BY InitServiceIInv DEF RecordedInit, Init, Recorded, NobodyYet, CapturesBefore,
     SnapshotIsAnalysis, CompiledIsGood, Idle
<1>2. ServiceIInv /\ Recorded /\ [RecordedNext]_recordedVars => (ServiceIInv /\ Recorded)'
  <2> SUFFICES ASSUME ServiceIInv, Recorded, [RecordedNext]_recordedVars
               PROVE  ServiceIInv' /\ Recorded'
    OBVIOUS
  <2>1. CASE RecordedNext /\ ChangeInputs /\ UNCHANGED analysis
    BY <2>1, ChangeStep, ChangeRecorded DEF RecordedNext
  <2>2. ASSUME RecordedNext, NEW c \in Callers, Analyze(c) PROVE ServiceIInv' /\ Recorded'
    BY <2>2, AnalyzeStep, AnalyzeRecorded, AnalyzeKeepsGeneration DEF RecordedNext
  <2>3. CASE UNCHANGED recordedVars
    BY <2>3 DEF recordedVars, serviceVars, inputs, analysis, ServiceIInv, ServiceTypeOK,
                SnapshotIsCurrent, CapturesCurrent, CapturesPast, Current, Recorded, NobodyYet,
                CapturesBefore, SnapshotIsAnalysis, CompiledIsGood, Atomic!Analysis
  <2> QED BY <2>1, <2>2, <2>3 DEF RecordedNext, Next
<1> QED BY <1>1, <1>2, PTL DEF RecordedSpec

\* What is shown of a project that fails is the last one that compiled before the
\* generation began, however long a call took that captured it and whatever
\* another call of the generation has committed since.
THEOREM LastGoodIsShown == RecordedSpec => []ShowsLastGood
<1>1. Recorded => ShowsLastGood
  BY DEF Recorded, SnapshotIsAnalysis, ShowsLastGood, Atomic!Analysis
<1> QED BY <1>1, RecordedInvariant, PTL

-----------------------------------------------------------------------------
\* A change of the inputs is a Change of the atomic service, or nothing.
LEMMA ChangeRefines ==
    ASSUME ServiceIInv, ChangeInputs, UNCHANGED analysis,
           before' = IF generation' # generation THEN lastGood ELSE before
    PROVE  Atomic!Change \/ UNCHANGED <<Current, generation, lastGood, before, result>>
<1>1. CASE UNCHANGED <<inputs, snapshot>>
  BY <1>1 DEF inputs, analysis, Current
<1>2. CASE base' \in Units /\ overlays' \in Units /\ Invalidate
  <2>1. Current' \in Units
    <3>1. /\ DOMAIN base' \subseteq Paths /\ base' \in [DOMAIN base' -> Texts]
          /\ DOMAIN overlays' \subseteq Paths /\ overlays' \in [DOMAIN overlays' -> Texts]
      BY <1>2, UnitsAre
    <3>2. Current' \in [DOMAIN base' \cup DOMAIN overlays' -> Texts]
      BY <3>1 DEF Current
    <3> QED BY <3>1, <3>2 DEF Units
  <2>2. generation' # generation
    BY <1>2 DEF Invalidate, ServiceIInv, ServiceTypeOK
  <2> QED BY <1>2, <2>1, <2>2 DEF Invalidate, analysis, Atomic!Change, Atomic!Units, Units
<1> QED BY <1>1, <1>2, InputsChange DEF ServiceIInv

\* Each section of AnalyzeOnce answers atomically or changes nothing visible.
LEMMA AnalyzeRefines ==
    ASSUME ServiceIInv, Recorded, NEW c \in Callers, Analyze(c), before' = before
    PROVE  Atomic!Answer(c) \/ UNCHANGED <<Current, generation, lastGood, before, result>>
<1>0. UNCHANGED inputs => Current' = Current /\ generation' = generation
  BY DEF inputs, Current
<1>1. CASE AnswerFromCache(c)
  <2>1. /\ snapshot = Atomic!Analysis(generation, Current, snapshot.errors, before)
        /\ snapshot.errors \in Verdicts(Current)
    BY <1>1 DEF AnswerFromCache, ServiceIInv, SnapshotIsCurrent, Recorded, SnapshotIsAnalysis
  <2>2. snapshot.errors = {} => lastGood = Current
    BY <1>1 DEF AnswerFromCache, Recorded, CompiledIsGood
  <2> QED BY <1>0, <1>1, <2>1, <2>2 DEF AnswerFromCache, Atomic!Answer
<1>2. CASE BeginAnalysis(c) \/ DropAnalysis(c)
  BY <1>0, <1>2 DEF BeginAnalysis, DropAnalysis
<1>3. CASE CommitAnalysis(c)
  <2>1. PICK errors : CommitsWith(c, errors)
    BY <1>3, CommitHasVerdict DEF ServiceIInv
  <2>2. Built(calls[c], errors) = Atomic!Analysis(generation, Current, errors, before)
    BY <1>3 DEF CommitAnalysis, UpToDate, ServiceIInv, CapturesCurrent, Recorded,
                CapturesBefore, Built, Atomic!Analysis
  <2> QED BY <1>0, <2>1, <2>2 DEF CommitsWith, Atomic!Answer
<1> QED BY <1>1, <1>2, <1>3 DEF Analyze

\* The service implements its atomic specification: an analysis that runs
\* outside the lock and is dropped when overtaken is indistinguishable, to its
\* callers, from one made in a single instant.
THEOREM ServiceIsAtomic == RecordedSpec => AnalysisIsAtomic
<1>1. RecordedInit => Atomic!Init
  <2> SUFFICES ASSUME RecordedInit PROVE Atomic!Init
    OBVIOUS
  <2>1. Current = base
    <3>1. DOMAIN overlays = {}
      BY DEF RecordedInit, Init
    <3>2. Current = [p \in DOMAIN base |-> base[p]]
      BY <3>1 DEF Current
    <3>3. base = [p \in DOMAIN base |-> base[p]]
      BY UnitsAre DEF RecordedInit, Init
    <3> QED BY <3>2, <3>3
  <2> QED BY <2>1 DEF RecordedInit, Init, NoSnapshot, Atomic!Init, Atomic!NoResult,
                      Atomic!Units, Units
<1>2. ServiceIInv /\ Recorded /\ [RecordedNext]_recordedVars
        => [Atomic!Next]_<<Current, generation, lastGood, before, result>>
  <2> SUFFICES ASSUME ServiceIInv, Recorded, [RecordedNext]_recordedVars
               PROVE  Atomic!Next \/ UNCHANGED <<Current, generation, lastGood, before, result>>
    OBVIOUS
  <2>1. CASE RecordedNext /\ ChangeInputs /\ UNCHANGED analysis
    BY <2>1, ChangeRefines DEF RecordedNext, Atomic!Next
  <2>2. ASSUME RecordedNext, NEW c \in Callers, Analyze(c)
        PROVE  Atomic!Next \/ UNCHANGED <<Current, generation, lastGood, before, result>>
    BY <2>2, AnalyzeRefines, AnalyzeKeepsGeneration DEF RecordedNext, Atomic!Next
  <2>3. CASE UNCHANGED recordedVars
    BY <2>3 DEF recordedVars, serviceVars, inputs, analysis, Current
  <2> QED BY <2>1, <2>2, <2>3 DEF RecordedNext, Next
<1> QED BY <1>1, <1>2, RecordedInvariant, PTL DEF RecordedSpec, AnalysisIsAtomic, Atomic!Spec

-----------------------------------------------------------------------------
(* The loop and the coordinator                                            *)

\* A step of the event loop only comes to Resend by emptying the slot.
LEMMA LoopKeepsRoom ==
    ASSUME NeverBlocked, LoopStep \/ WatchedFiles \/ Exit
    PROVE  NeverBlocked'
<1> USE DEF NeverBlocked, editor, loop, channels, coordinator
<1>1. CASE Offer BY <1>1 DEF Offer
<1>2. CASE Drain BY <1>2 DEF Drain
<1>3. CASE Resend BY <1>3 DEF Resend
<1>4. CASE ReceiveResult BY <1>4 DEF ReceiveResult
<1>5. CASE Stopped BY <1>5 DEF Stopped
<1>6. CASE WatchedFiles BY <1>6 DEF WatchedFiles, Refresh, RequestDiagnostics
<1>7. CASE Exit BY <1>7 DEF Exit
<1> QED BY <1>1, <1>2, <1>3, <1>4, <1>5, <1>6, <1>7 DEF LoopStep

\* The coordinator only takes requests out.
LEMMA CoordinatorKeepsRoom ==
    ASSUME NeverBlocked, CoordinatorStep
    PROVE  NeverBlocked'
<1> USE DEF NeverBlocked, editor, loop, channels, coordinator, service
<1>1. CASE ReceiveRequest BY <1>1 DEF ReceiveRequest
<1>2. CASE Debounced BY <1>2 DEF Debounced
<1>3. CASE CallAnalyze BY <1>3 DEF CallAnalyze
<1>4. CASE FinishAnalysis BY <1>4 DEF FinishAnalysis
<1>5. CASE CheckGeneration BY <1>5 DEF CheckGeneration
<1>6. CASE SendResult BY <1>6 DEF SendResult
<1>7. CASE ObserveStop BY <1>7 DEF ObserveStop
<1> QED BY <1>1, <1>2, <1>3, <1>4, <1>5, <1>6, <1>7 DEF CoordinatorStep

\* A notification is handled in full before the next request is handed over.
LEMMA HandlersKeepRoom ==
    ASSUME NeverBlocked, NEW p \in Paths,
           \/ \E text \in Texts : Open(p, text) \/ Change(p, text)
           \/ ChangeVersion(p) \/ Close(p) \/ Save(p) \/ Write(p)
    PROVE  NeverBlocked'
<1> USE DEF NeverBlocked, loop, channels, Handle, Refresh, RequestDiagnostics
<1>1. ASSUME NEW text \in Texts, Open(p, text) PROVE NeverBlocked'
  BY <1>1 DEF Open
<1>2. ASSUME NEW text \in Texts, Change(p, text) PROVE NeverBlocked'
  BY <1>2 DEF Change
<1>3. CASE ChangeVersion(p) BY <1>3 DEF ChangeVersion
<1>4. CASE Close(p) BY <1>4 DEF Close
<1>5. CASE Save(p) BY <1>5 DEF Save
<1>6. CASE Write(p) BY <1>6 DEF Write
<1> QED BY <1>1, <1>2, <1>3, <1>4, <1>5, <1>6

\* The send that follows the emptied slot is never kept waiting: an analysis, as
\* long as it takes, does not hold up the editor's notifications.
THEOREM LoopIsNeverBlocked == ServerSpec => []NeverBlocked
<1>1. ServerInit => NeverBlocked
  BY DEF ServerInit, NeverBlocked
<1>2. NeverBlocked /\ [ServerNext]_vars => NeverBlocked'
  <2> SUFFICES ASSUME NeverBlocked, [ServerNext]_vars PROVE NeverBlocked'
    OBVIOUS
  <2>1. CASE \E p \in Paths, text \in Texts : Open(p, text) \/ Change(p, text)
    BY <2>1, HandlersKeepRoom
  <2>2. CASE \E p \in Paths : ChangeVersion(p) \/ Close(p) \/ Save(p) \/ Write(p)
    BY <2>2, HandlersKeepRoom
  <2>3. CASE WatchedFiles \/ LoopStep \/ Exit
    BY <2>3, LoopKeepsRoom
  <2>4. CASE CoordinatorStep
    BY <2>4, CoordinatorKeepsRoom
  <2>5. CASE UNCHANGED vars
    BY <2>5 DEF vars, loop, channels, NeverBlocked
  <2> QED BY <2>1, <2>2, <2>3, <2>4, <2>5 DEF ServerNext
<1> QED BY <1>1, <1>2, PTL DEF ServerSpec
-----------------------------------------------------------------------------
(* What the service holds, through the notifications that the server handles *)

\* A snapshot, an analysis or a view of this version and these sources is not
\* ahead of the service, and when it is of the service's generation it is of
\* the files and overlays that the service holds.
Timely(version, sources, now, held) ==
    version \in Nat /\ version <= now /\ (version = now => sources = held)

\* A snapshot that is timely, with the errors in the files it is about
Sound(s, now, held) == Timely(s.version, s.sources, now, held) /\ s.errors \subseteq DOMAIN s.sources

InputTypes ==
    /\ disk \in [Paths -> Texts \cup {Missing, Unreadable}]
    /\ unseen \subseteq Paths /\ IsFiniteSet(unseen)
    /\ DOMAIN documents \subseteq Paths /\ \A p \in DOMAIN documents : documents[p].text \in Texts
    /\ base \in Units /\ overlays \in Units
    /\ generation \in Nat /\ generation > 0

Answers ==
    /\ DOMAIN calls = {Coordinator} /\ DOMAIN result = {Coordinator}
    /\ calls[Coordinator].running =>
          /\ calls[Coordinator].units \in Units
          /\ Timely(calls[Coordinator].generation, calls[Coordinator].units, generation, Current)
    /\ Sound(snapshot, generation, Current)
    /\ Sound(result[Coordinator], generation, Current)
    /\ results # << >> => Sound(results[1].snapshot, generation, Current)
    /\ Timely(view.version, view.sources, generation, Current)

\* The inputs are typed, and change with the generation.
InputStep ==
    /\ base' \in Units /\ overlays' \in Units /\ generation' \in Nat
    /\ \/ generation' = generation /\ base' = base /\ overlays' = overlays /\ snapshot' = snapshot
       \/ generation' > generation /\ snapshot' = NoSnapshot

-----------------------------------------------------------------------------
\* The closure of the root file holds no missing file but the root itself.
LEMMA ClosureExists ==
    ASSUME NEW docs, Reading(docs, Entry) # Missing, NEW p \in Closure(docs)
    PROVE  p \in Paths /\ Reading(docs, p) # Missing
<1> DEFINE present == {q \in Paths : Reading(docs, q) # Missing}
<1>1. Entry \in present /\ present \in SUBSET Paths
  BY ServerAssumption
<1>2. ImportClosed(docs, present)
  BY ServerAssumption DEF ImportClosed
<1> HIDE DEF present
<1>3. p \in present
  BY <1>1, <1>2 DEF Closure
<1> QED BY <1>3 DEF present

\* A resolution that does not fail gives a project.
LEMMA ResolvedType ==
    ASSUME disk \in [Paths -> Texts \cup {Missing, Unreadable}],
           NEW docs, \A q \in DOMAIN docs : docs[q].text \in Texts, ~ResolveFails(docs)
    PROVE  Resolved(docs) \in Units
<1>1. CASE Reading(docs, Entry) = Missing
  BY <1>1, NoUnits DEF Resolved
<1>2. CASE Reading(docs, Entry) # Missing
  <2>1. \A p \in Closure(docs) : p \in Paths /\ Reading(docs, p) # Missing
    BY <1>2, ClosureExists
  <2>2. \A p \in Closure(docs) : Reading(docs, p) \in Texts
    <3> SUFFICES ASSUME NEW p \in Closure(docs) PROVE Reading(docs, p) \in Texts
      OBVIOUS
    <3>1. Reading(docs, p) # Unreadable
      BY DEF ResolveFails
    <3> QED BY <2>1, <3>1 DEF Reading
  <2>3. Resolved(docs) = [p \in Closure(docs) |-> Reading(docs, p)]
    BY <1>2 DEF Resolved
  <2> DEFINE files == Closure(docs)
  <2>4. files \subseteq Paths /\ Resolved(docs) \in [files -> Texts]
    BY <2>1, <2>2, <2>3
  <2> HIDE DEF files
  <2> QED BY <2>4 DEF Units
<1> QED BY <1>1, <1>2

-----------------------------------------------------------------------------
\* A document that is opened, changed or closed,
LEMMA DocumentStep ==
    ASSUME InputTypes, NEW p \in Paths,
           CloseDocument(p) \/ \E text \in Texts : SetDocument(p, text)
    PROVE  InputStep
<1> USE DEF InputTypes, InputStep, inputs, Invalidate
<1>1. CASE CloseDocument(p)
  BY <1>1, OverlayTypes DEF CloseDocument
<1>2. ASSUME NEW text \in Texts, SetDocument(p, text) PROVE InputStep
  BY <1>2, OverlayTypes DEF SetDocument
<1> QED BY <1>1, <1>2

\* a closure that is resolved again
LEMMA RefreshStep ==
    ASSUME InputTypes, NEW docs, \A q \in DOMAIN docs : docs[q].text \in Texts, Refresh(docs)
    PROVE  InputStep
<1>1. CASE ResolveFails(docs)
  BY <1>1 DEF Refresh, InputTypes, InputStep, inputs
<1>2. CASE ~ResolveFails(docs)
  <2>1. Resolved(docs) \in Units
    BY <1>2, ResolvedType DEF InputTypes
  <2>2. ReplaceWorkspaceDocuments(Resolved(docs))
    BY <1>2 DEF Refresh
  <2> QED BY <2>1, <2>2
          DEF ReplaceWorkspaceDocuments, InputTypes, InputStep, inputs, Invalidate
<1> QED BY <1>1, <1>2

\* and files that are read again: the generation counts those that are others.
LEMMA FilesStep ==
    ASSUME InputTypes, NEW done \in SUBSET unseen, \A p \in done : disk[p] # Unreadable,
           FilesRead(done)
    PROVE  InputStep
<1> DEFINE written == {p \in done : disk[p] # Missing}
           changed == {p \in done : IF p \in written THEN ~Holds(base, p, disk[p])
                                                     ELSE p \in DOMAIN base}
           kept == (DOMAIN base \ done) \cup written
<1>1. /\ DOMAIN base \subseteq Paths /\ base \in [DOMAIN base -> Texts]
      /\ \A p \in written : p \in Paths /\ disk[p] \in Texts
  BY UnitsAre DEF InputTypes
<1>2. /\ base' = [p \in kept |-> IF p \in written THEN disk[p] ELSE base[p]]
      /\ generation' = generation + Cardinality(changed)
      /\ snapshot' = IF changed = {} THEN snapshot ELSE NoSnapshot
      /\ overlays' = overlays
  BY DEF FilesRead
<1>3. base' \in [kept -> Texts] /\ kept \subseteq Paths
  BY <1>1, <1>2
<1>4. base' \in Units
  <2> HIDE DEF kept
  <2> QED BY <1>3 DEF Units
<1>5. IsFiniteSet(changed)
  BY FS_Subset DEF InputTypes
<1>6. CASE changed = {}
  <2>1. kept = DOMAIN base
    BY <1>6 DEF Holds
  <2>2. \A p \in kept : base'[p] = base[p]
    BY <1>2, <1>6 DEF Holds
  <2>3. base' = base
    <3> HIDE DEF kept, written
    <3> QED BY <1>1, <1>3, <2>1, <2>2
  <2>4. generation' = generation
    <3>1. Cardinality(changed) = 0
      BY <1>6, FS_EmptySet
    <3> HIDE DEF changed
    <3> QED BY <1>2, <3>1 DEF InputTypes
  <2> QED BY <1>2, <1>6, <2>3, <2>4 DEF InputTypes, InputStep
<1>7. CASE changed # {}
  <2>1. Cardinality(changed) \in Nat /\ Cardinality(changed) # 0
    BY <1>5, <1>7, FS_CardinalityType, FS_EmptySet
  <2> HIDE DEF changed
  <2>2. generation' \in Nat /\ generation' > generation
    BY <1>2, <2>1 DEF InputTypes
  <2> QED BY <1>2, <1>4, <1>7, <2>2 DEF InputTypes, InputStep
<1> QED BY <1>6, <1>7

\* A change of the inputs outdates what it does not leave as it is.
LEMMA StaysTimely ==
    ASSUME InputTypes, InputStep, NEW version, NEW sources,
           Timely(version, sources, generation, Current)
    PROVE  Timely(version, sources, generation', Current')
<1>1. CASE generation' = generation /\ base' = base /\ overlays' = overlays
  BY <1>1 DEF Timely, Current
<1>2. CASE generation' > generation
  BY <1>2 DEF Timely, InputTypes, InputStep
<1> QED BY <1>1, <1>2 DEF InputStep

\* No snapshot is never in the way.
LEMMA NoSnapshotIsSound ==
    ASSUME NEW now \in Nat, now > 0, NEW held
    PROVE  Sound(NoSnapshot, now, held)
BY DEF Sound, Timely, NoSnapshot

\* What was found so far is as timely after a change of the inputs.
LEMMA AnswersStay ==
    ASSUME InputTypes, Answers, InputStep, UNCHANGED <<view, calls, result>>,
           results' = results
    PROVE  Answers'
<1>1. /\ Timely(view.version, view.sources, generation', Current')
      /\ calls[Coordinator].running =>
            Timely(calls[Coordinator].generation, calls[Coordinator].units, generation', Current')
  BY StaysTimely DEF Answers
<1>2. /\ Sound(result[Coordinator], generation', Current')
      /\ Sound(snapshot, generation', Current')
      /\ results # << >> => Sound(results[1].snapshot, generation', Current')
  BY StaysTimely DEF Answers, Sound
<1>3. Sound(snapshot', generation', Current')
  <2>1. generation' \in Nat /\ generation' > 0
    BY DEF InputTypes, InputStep
  <2>2. snapshot' = snapshot \/ snapshot' = NoSnapshot
    BY DEF InputStep
  <2> QED BY <1>2, <2>1, <2>2, NoSnapshotIsSound
<1> QED BY <1>1, <1>2, <1>3 DEF Answers

-----------------------------------------------------------------------------
\* The handlers of the editor's notifications change the inputs alone.
LEMMA HandlersAnswer ==
    ASSUME InputTypes, Answers,
           \/ \E p \in Paths, text \in Texts : Open(p, text) \/ Change(p, text)
           \/ \E p \in Paths : ChangeVersion(p) \/ Close(p) \/ Save(p) \/ Write(p)
           \/ WatchedFiles
    PROVE  InputTypes' /\ Answers'
<1> USE DEF loop, channels, analysis, inputs, service, Handle
<1>1. ASSUME InputStep, UNCHANGED <<disk, unseen, view, calls, result, results>>,
             DOMAIN documents' \subseteq Paths,
             \A p \in DOMAIN documents' : documents'[p].text \in Texts
      PROVE  InputTypes' /\ Answers'
  BY <1>1, AnswersStay DEF InputTypes, InputStep
<1>2. ASSUME NEW p \in Paths, NEW text \in Texts, Open(p, text)
      PROVE  InputTypes' /\ Answers'
  <2> DEFINE docs == [q \in DOMAIN documents \cup {p} |->
                         IF q = p THEN [text |-> text, version |-> 1] ELSE documents[q]]
  <2>1. DOMAIN docs \subseteq Paths /\ \A q \in DOMAIN docs : docs[q].text \in Texts
    BY DEF InputTypes
  <2>2. /\ UNCHANGED <<disk, unseen, view, calls, result, results>> /\ documents' = docs
        /\ Refresh(docs) \/ SetDocument(p, text)
    BY <1>2 DEF Open
  <2> HIDE DEF docs
  <2>3. InputStep
    BY <2>1, <2>2, DocumentStep, RefreshStep
  <2> QED BY <1>1, <2>1, <2>2, <2>3
<1>3. ASSUME NEW p \in Paths, NEW text \in Texts, Change(p, text)
      PROVE  InputTypes' /\ Answers'
  <2> DEFINE docs == [documents EXCEPT ![p] = [text |-> text, version |-> @.version + 1]]
  <2>1. DOMAIN docs \subseteq Paths /\ \A q \in DOMAIN docs : docs[q].text \in Texts
    BY DEF InputTypes
  <2>2. /\ UNCHANGED <<disk, unseen, view, calls, result, results>> /\ documents' = docs
        /\ Refresh(docs) \/ SetDocument(p, text)
    BY <1>3 DEF Change
  <2> HIDE DEF docs
  <2>3. InputStep
    BY <2>1, <2>2, DocumentStep, RefreshStep
  <2> QED BY <1>1, <2>1, <2>2, <2>3
<1>4. ASSUME NEW p \in Paths, ChangeVersion(p) PROVE InputTypes' /\ Answers'
  <2> DEFINE docs == [documents EXCEPT ![p].version = @ + 1]
  <2>1. /\ p \in DOMAIN documents /\ documents' = docs
        /\ UNCHANGED <<disk, unseen, view, calls, result, results, base, overlays, generation, snapshot>>
    BY <1>4 DEF ChangeVersion
  <2>2. DOMAIN docs = DOMAIN documents /\ \A q \in DOMAIN documents : docs[q].text = documents[q].text
    BY <2>1
  <2> HIDE DEF docs
  <2>3. InputStep
    BY <2>1 DEF InputTypes, InputStep
  <2>4. DOMAIN documents' \subseteq Paths /\ \A q \in DOMAIN documents' : documents'[q].text \in Texts
    BY <2>1, <2>2 DEF InputTypes
  <2> QED BY <1>1, <2>1, <2>3, <2>4
<1>5. ASSUME NEW p \in Paths, Close(p) PROVE InputTypes' /\ Answers'
  <2> DEFINE docs == Without(documents, p)
  <2>1. DOMAIN docs \subseteq Paths /\ \A q \in DOMAIN docs : docs[q].text \in Texts
    BY DEF InputTypes, Without
  <2>2. /\ UNCHANGED <<disk, unseen, view, calls, result, results>> /\ documents' = docs
        /\ Refresh(docs) \/ CloseDocument(p)
    BY <1>5 DEF Close
  <2> HIDE DEF docs
  <2>3. InputStep
    BY <2>1, <2>2, DocumentStep, RefreshStep
  <2> QED BY <1>1, <2>1, <2>2, <2>3
<1>6. ASSUME NEW p \in Paths, Save(p) PROVE InputTypes' /\ Answers'
  <2>1. /\ p \in DOMAIN documents /\ unseen' = unseen \cup {p}
        /\ disk' = [disk EXCEPT ![p] = documents[p].text]
        /\ UNCHANGED <<documents, view, calls, result, results>>
        /\ Refresh(documents) \/ UNCHANGED <<base, overlays, generation, snapshot>>
    BY <1>6 DEF Save
  <2>2. InputStep
    <3>1. CASE Refresh(documents)
      BY <3>1, RefreshStep DEF InputTypes
    <3>2. CASE UNCHANGED <<base, overlays, generation, snapshot>>
      BY <3>2 DEF InputTypes, InputStep
    <3> QED BY <2>1, <3>1, <3>2
  <2>3. unseen' \subseteq Paths /\ IsFiniteSet(unseen')
    BY <2>1, FS_AddElement DEF InputTypes
  <2>4. disk' \in [Paths -> Texts \cup {Missing, Unreadable}]
    BY <2>1 DEF InputTypes
  <2>5. Answers'
    BY <2>1, <2>2, AnswersStay
  <2> QED BY <2>1, <2>2, <2>3, <2>4, <2>5 DEF InputTypes, InputStep
<1>7. ASSUME NEW p \in Paths, Write(p) PROVE InputTypes' /\ Answers'
  <2>1. /\ unseen' = unseen \cup {p}
        /\ \E content \in Texts \cup {Missing, Unreadable} : disk' = [disk EXCEPT ![p] = content]
        /\ UNCHANGED <<documents, view, calls, result, results, base, overlays, generation, snapshot>>
    BY <1>7 DEF Write
  <2>2. InputStep
    BY <2>1 DEF InputTypes, InputStep
  <2>3. unseen' \subseteq Paths /\ IsFiniteSet(unseen')
    BY <2>1, FS_AddElement DEF InputTypes
  <2>4. disk' \in [Paths -> Texts \cup {Missing, Unreadable}]
    BY <2>1 DEF InputTypes
  <2>5. Answers'
    BY <2>1, <2>2, AnswersStay
  <2> QED BY <2>1, <2>3, <2>4, <2>5 DEF InputTypes
<1>8. CASE WatchedFiles
  <2>1. /\ unseen' = {} /\ UNCHANGED <<disk, documents, view, calls, result, results>>
        /\ \/ Refresh(documents)
           \/ \E done \in SUBSET unseen : (\A p \in done : disk[p] # Unreadable) /\ FilesRead(done)
    BY <1>8 DEF WatchedFiles
  <2>2. InputStep
    <3>1. CASE Refresh(documents)
      BY <3>1, RefreshStep DEF InputTypes
    <3>2. ASSUME NEW done \in SUBSET unseen, \A p \in done : disk[p] # Unreadable, FilesRead(done)
          PROVE  InputStep
      BY <3>2, FilesStep
    <3> QED BY <2>1, <3>1, <3>2
  <2>3. unseen' \subseteq Paths /\ IsFiniteSet(unseen')
    BY <2>1, FS_EmptySet
  <2>4. Answers'
    BY <2>1, <2>2, AnswersStay
  <2> QED BY <2>1, <2>2, <2>3, <2>4 DEF InputTypes, InputStep
<1> QED BY <1>2, <1>3, <1>4, <1>5, <1>6, <1>7, <1>8

\* The event loop only takes what the coordinator has put into its channel.
LEMMA LoopAnswers ==
    ASSUME InputTypes, Answers, LoopStep \/ Exit
    PROVE  InputTypes' /\ Answers'
<1> USE DEF editor, service, inputs, analysis
<1>1. CASE Offer \/ Drain \/ Resend \/ Stopped \/ Exit
  <2>1. UNCHANGED <<disk, unseen, documents, base, overlays, generation, view, snapshot, calls,
                    result, results>>
    BY <1>1 DEF Offer, Drain, Resend, Stopped, Exit, channels
  <2> QED BY <2>1 DEF InputTypes, Answers, Current
<1>2. CASE ReceiveResult
  <2>1. /\ results # << >> /\ results' = << >>
        /\ UNCHANGED <<disk, unseen, documents, base, overlays, generation, snapshot, calls, result>>
        /\ \/ view' = view
           \/ view' = [version |-> results[1].snapshot.version, sources |-> results[1].snapshot.sources]
    BY <1>2 DEF ReceiveResult
  <2>2. Timely(view'.version, view'.sources, generation, Current)
    BY <2>1 DEF Answers, Sound
  <2>3. Current' = Current
    BY <2>1 DEF Current
  <2> QED BY <2>1, <2>2, <2>3 DEF InputTypes, Answers
<1> QED BY <1>1, <1>2 DEF LoopStep

\* The coordinator's analyses capture the inputs at one moment and are dropped
\* when the inputs are others at their end.
LEMMA CoordinatorAnswers ==
    ASSUME InputTypes, Answers, CoordinatorStep
    PROVE  InputTypes' /\ Answers'
<1> USE DEF editor, loop, channels, service, inputs, analysis
<1> DEFINE c == Coordinator
<1>0. UNCHANGED <<disk, unseen, documents, base, overlays, generation, view>>
  BY DEF CoordinatorStep, ReceiveRequest, Debounced, CallAnalyze, FinishAnalysis, CheckGeneration,
         SendResult, ObserveStop, AnswerFromCache, BeginAnalysis, CommitAnalysis, DropAnalysis
<1>1. InputTypes' /\ Current' = Current
  BY <1>0 DEF InputTypes, Current
<1>2. CASE ReceiveRequest \/ Debounced \/ CheckGeneration \/ ObserveStop
  <2>1. UNCHANGED <<snapshot, calls, result, results>>
    BY <1>2 DEF ReceiveRequest, Debounced, CheckGeneration, ObserveStop
  <2> QED BY <1>0, <1>1, <2>1 DEF Answers
<1>3. CASE AnswerFromCache(c) /\ UNCHANGED results
  BY <1>0, <1>1, <1>3 DEF Answers, AnswerFromCache
<1>4. CASE BeginAnalysis(c) /\ UNCHANGED results
  <2> DEFINE call == [running |-> TRUE, generation |-> generation, units |-> Current,
                      lastGood |-> lastGood]
  <2>1. calls' = [calls EXCEPT ![c] = call] /\ UNCHANGED <<snapshot, result, results>>
    BY <1>4 DEF BeginAnalysis
  <2>2. DOMAIN calls' = {c} /\ calls'[c] = call
    BY <2>1 DEF Answers
  <2>3. Current \in Units
    BY CurrentType DEF InputTypes
  <2>4. call.units = Current /\ call.generation = generation
    OBVIOUS
  <2>5. Timely(call.generation, call.units, generation, Current)
    BY <2>4 DEF Timely, InputTypes
  <2> HIDE DEF call
  <2> QED BY <1>0, <1>1, <2>1, <2>2, <2>3, <2>4, <2>5 DEF Answers
<1>5. CASE CommitAnalysis(c) /\ UNCHANGED results
  <2>0. PICK errors \in Verdicts(calls[c].units) :
           snapshot' = Built(calls[c], errors) /\ result' = [result EXCEPT ![c] = Built(calls[c], errors)]
    BY <1>5 DEF CommitAnalysis
  <2> DEFINE built == Built(calls[c], errors)
  <2>1. /\ calls[c].running /\ UpToDate(calls[c])
        /\ snapshot' = built
        /\ result' = [result EXCEPT ![c] = built]
        /\ calls' = [calls EXCEPT ![c] = Idle]
        /\ UNCHANGED results
    BY <1>5, <2>0 DEF CommitAnalysis
  <2>2. /\ calls[c].units \in Units
        /\ Timely(calls[c].generation, calls[c].units, generation, Current)
    BY <2>1 DEF Answers
  <2>3. /\ built.version = calls[c].generation /\ built.sources = calls[c].units
        /\ built.errors = errors
    BY DEF Built
  <2>4. Sound(built, generation, Current)
    BY <2>0, <2>2, <2>3, ServerAssumption DEF Sound
  <2>5. ~Idle.running
    BY DEF Idle
  <2> HIDE DEF built
  <2>6. DOMAIN calls' = {c} /\ calls'[c] = Idle /\ DOMAIN result' = {c} /\ result'[c] = built
    BY <2>1 DEF Answers
  <2> QED BY <1>0, <1>1, <2>1, <2>4, <2>5, <2>6 DEF Answers
<1>6. CASE DropAnalysis(c) /\ UNCHANGED results
  <2>1. ~Idle.running
    BY DEF Idle
  <2>2. calls' = [calls EXCEPT ![c] = Idle] /\ UNCHANGED <<snapshot, result, results>>
    BY <1>6 DEF DropAnalysis
  <2>3. DOMAIN calls' = {c} /\ calls'[c] = Idle
    BY <2>2 DEF Answers
  <2> QED BY <1>0, <1>1, <2>1, <2>2, <2>3 DEF Answers
<1>7. CASE SendResult
  <2>1. results' = <<[request |-> pending, snapshot |-> result[c]]>>
    BY <1>7 DEF SendResult
  <2>2. results'[1].snapshot = result[c] /\ UNCHANGED <<snapshot, calls, result>>
    BY <1>7, <2>1 DEF SendResult
  <2> QED BY <1>0, <1>1, <2>2 DEF Answers
<1> QED BY <1>2, <1>3, <1>4, <1>5, <1>6, <1>7 DEF CoordinatorStep, CallAnalyze, FinishAnalysis

\* The inputs stay typed, and all that is remembered of them timely.
LEMMA AnswersAreTimely == ServerSpec => [](InputTypes /\ Answers)
<1>1. ServerInit => InputTypes /\ Answers
  <2> SUFFICES ASSUME ServerInit PROVE InputTypes /\ Answers
    OBVIOUS
  <2>1. InputTypes
    BY FS_EmptySet, NoUnits DEF ServerInit, Init, InputTypes
  <2>2. DOMAIN calls = {Coordinator} /\ DOMAIN result = {Coordinator}
    BY ServerAssumption DEF ServerInit, Init
  <2>3. ~calls[Coordinator].running /\ result[Coordinator] = NoSnapshot
    BY ServerAssumption DEF ServerInit, Init, Idle
  <2>4. Sound(NoSnapshot, generation, Current) /\ Timely(view.version, view.sources, generation, Current)
    BY <2>1, NoSnapshotIsSound DEF InputTypes, ServerInit, NoView, Timely
  <2>5. snapshot = NoSnapshot /\ results = << >>
    BY DEF ServerInit, Init
  <2> QED BY <2>1, <2>2, <2>3, <2>4, <2>5 DEF Answers
<1>2. InputTypes /\ Answers /\ [ServerNext]_vars => InputTypes' /\ Answers'
  <2> SUFFICES ASSUME InputTypes, Answers, [ServerNext]_vars PROVE InputTypes' /\ Answers'
    OBVIOUS
  <2>1. CASE \/ \E p \in Paths, text \in Texts : Open(p, text) \/ Change(p, text)
             \/ \E p \in Paths : ChangeVersion(p) \/ Close(p) \/ Save(p) \/ Write(p)
             \/ WatchedFiles
    BY <2>1, HandlersAnswer
  <2>2. CASE LoopStep \/ Exit
    BY <2>2, LoopAnswers
  <2>3. CASE CoordinatorStep
    BY <2>3, CoordinatorAnswers
  <2>4. CASE UNCHANGED vars
    BY <2>4 DEF vars, editor, loop, channels, service, inputs, analysis, InputTypes, Answers, Current
  <2> QED BY <2>1, <2>2, <2>3, <2>4 DEF ServerNext
<1> QED BY <1>1, <1>2, PTL DEF ServerSpec

\* The snapshot that the editor's requests are answered from as the current one
\* is of the files and overlays the service holds: through edits, saves, watch
\* notifications that are abandoned half way, analyses that are overtaken and
\* results that come late.
THEOREM ViewAgrees == ServerSpec => []ViewIsCurrent
<1>1. Answers => ViewIsCurrent
  BY DEF Answers, Timely, ViewIsCurrent, CurrentAnalyzedSnapshot
<1> QED BY <1>1, AnswersAreTimely, PTL

-----------------------------------------------------------------------------
(* Buffers over files *)

\* The files of a project stay as they are while its documents are edited, and
\* those of a file-root session can be read.
Sheltered == AllReadable /\ WriteBound(FALSE) = 0

\* What open documents, overlays and files have to do with each other
Buffered ==
    /\ fileRoot \in FileRoots
    /\ \A p \in Paths : disk[p] # Unreadable
    /\ fileRoot => overlays = << >>
    /\ fileRoot => \A p \in DOMAIN documents \cap DOMAIN base : base[p] = documents[p].text
    /\ ~fileRoot => writes = 0 /\ unseen = {}
    /\ ~fileRoot =>
          \A p \in DOMAIN documents :
              IF p \in DOMAIN overlays THEN overlays[p] = documents[p].text
                                       ELSE Holds(base, p, documents[p].text)

\* A closure is resolved of the buffers, where files are open.
LEMMA RefreshBuffers ==
    ASSUME InputTypes, fileRoot, Buffered, NEW docs,
           DOMAIN docs \subseteq Paths, \A q \in DOMAIN docs : docs[q].text \in Texts,
           Refresh(docs)
    PROVE  overlays' = << >> /\ \A p \in DOMAIN docs \cap DOMAIN base' : base'[p] = docs[p].text
<1>1. ~ResolveFails(docs)
  BY ServerAssumption DEF ResolveFails, Closure, Reading, Buffered
<1>2. overlays' = overlays /\ base' = Resolved(docs)
  BY <1>1 DEF Refresh, ReplaceWorkspaceDocuments, inputs
<1>3. \A p \in DOMAIN docs \cap DOMAIN Resolved(docs) : Resolved(docs)[p] = docs[p].text
  BY DEF Resolved, Reading
<1> QED BY <1>2, <1>3 DEF Buffered

\* The overlay of the document that is opened or changed makes it the buffer.
LEMMA SetBuffers ==
    ASSUME NEW p, NEW text, SetDocument(p, text)
    PROVE  /\ base' = base
           /\ IF p \in DOMAIN overlays' THEN overlays'[p] = text ELSE Holds(base, p, text)
           /\ \A q : q # p => /\ q \in DOMAIN overlays' <=> q \in DOMAIN overlays
                              /\ q \in DOMAIN overlays => overlays'[q] = overlays[q]
BY DEF SetDocument, Put, Without, Holds, inputs

\* Files only change in file-root sessions.
LEMMA WritesOfRoots ==
    ASSUME Sheltered, Buffered, writes < WriteBound(fileRoot)
    PROVE  fileRoot
<1> SUFFICES ASSUME ~fileRoot PROVE FALSE
  OBVIOUS
<1>1. fileRoot = FALSE
  BY ServerAssumption DEF Buffered
<1>2. writes = 0 /\ WriteBound(fileRoot) = 0
  BY <1>1 DEF Sheltered, Buffered
<1> QED BY <1>2

\* Every handler keeps the buffers.
LEMMA HandlersBuffer ==
    ASSUME Sheltered, InputTypes, InputTypes', Buffered,
           \/ \E p \in Paths, text \in Texts : Open(p, text) \/ Change(p, text)
           \/ \E p \in Paths : ChangeVersion(p) \/ Close(p) \/ Save(p) \/ Write(p)
           \/ WatchedFiles
    PROVE  Buffered'
<1> USE DEF analysis, inputs, service, Handle
<1>1. ASSUME fileRoot' = fileRoot, fileRoot, \A p \in Paths : disk'[p] # Unreadable,
             Refresh(documents')
      PROVE  Buffered'
  BY <1>1, RefreshBuffers DEF Buffered, InputTypes
<1>2. ASSUME NEW p \in Paths, NEW text \in Texts, ~fileRoot, SetDocument(p, text),
             UNCHANGED <<fileRoot, disk, unseen, writes>>,
             DOMAIN documents' = DOMAIN documents \cup {p}, documents'[p].text = text,
             \A q \in DOMAIN documents \ {p} : documents'[q] = documents[q]
      PROVE  Buffered'
  BY <1>2, SetBuffers DEF Buffered
<1>3. ASSUME NEW p \in Paths, NEW text \in Texts, Open(p, text) PROVE Buffered'
  <2> DEFINE docs == [q \in DOMAIN documents \cup {p} |->
                         IF q = p THEN [text |-> text, version |-> 1] ELSE documents[q]]
  <2>1. /\ UNCHANGED <<fileRoot, disk, unseen, writes>> /\ documents' = docs
        /\ IF fileRoot THEN Refresh(docs) ELSE SetDocument(p, text)
    BY <1>3 DEF Open
  <2>2. /\ DOMAIN docs = DOMAIN documents \cup {p} /\ docs[p].text = text
        /\ \A q \in DOMAIN documents \ {p} : docs[q] = documents[q]
    OBVIOUS
  <2> HIDE DEF docs
  <2> QED BY <1>1, <1>2, <2>1, <2>2 DEF Buffered
<1>4. ASSUME NEW p \in Paths, NEW text \in Texts, Change(p, text) PROVE Buffered'
  <2> DEFINE docs == [documents EXCEPT ![p] = [text |-> text, version |-> @.version + 1]]
  <2>1. /\ UNCHANGED <<fileRoot, disk, unseen, writes>> /\ documents' = docs
        /\ p \in DOMAIN documents
        /\ IF fileRoot THEN Refresh(docs) ELSE SetDocument(p, text)
    BY <1>4 DEF Change
  <2>2. /\ DOMAIN docs = DOMAIN documents \cup {p} /\ docs[p].text = text
        /\ \A q \in DOMAIN documents \ {p} : docs[q] = documents[q]
    BY <2>1
  <2> HIDE DEF docs
  <2> QED BY <1>1, <1>2, <2>1, <2>2 DEF Buffered
<1>5. ASSUME NEW p \in Paths, ChangeVersion(p) PROVE Buffered'
  <2> DEFINE docs == [documents EXCEPT ![p].version = @ + 1]
  <2>1. /\ p \in DOMAIN documents /\ documents' = docs
        /\ UNCHANGED <<fileRoot, disk, unseen, writes, base, overlays>>
    BY <1>5 DEF ChangeVersion
  <2>2. DOMAIN docs = DOMAIN documents /\ \A q \in DOMAIN documents : docs[q].text = documents[q].text
    BY <2>1
  <2> HIDE DEF docs
  <2> QED BY <2>1, <2>2 DEF Buffered
<1>6. ASSUME NEW p \in Paths, Close(p) PROVE Buffered'
  <2> DEFINE docs == Without(documents, p)
  <2>1. /\ UNCHANGED <<fileRoot, disk, unseen, writes>> /\ documents' = docs
        /\ IF fileRoot THEN Refresh(docs) ELSE CloseDocument(p)
    BY <1>6 DEF Close
  <2>2. /\ DOMAIN docs = DOMAIN documents \ {p}
        /\ \A q \in DOMAIN docs : docs[q] = documents[q]
    BY DEF Without
  <2> HIDE DEF docs
  <2>3. CASE fileRoot
    BY <1>1, <2>1, <2>3 DEF Buffered
  <2>4. CASE ~fileRoot
    <3>1. /\ base' = base
          /\ \A q : q # p => /\ q \in DOMAIN overlays' <=> q \in DOMAIN overlays
                             /\ q \in DOMAIN overlays => overlays'[q] = overlays[q]
      BY <2>1, <2>4 DEF CloseDocument, Without
    <3> QED BY <2>1, <2>2, <2>4, <3>1 DEF Buffered
  <2> QED BY <2>3, <2>4
<1>7. ASSUME NEW p \in Paths, Save(p) PROVE Buffered'
  <2>1. writes < WriteBound(fileRoot)
    BY <1>7 DEF Save
  <2>2. fileRoot
    BY <2>1, WritesOfRoots
  <2>3. /\ p \in DOMAIN documents /\ documents' = documents /\ fileRoot' = fileRoot
        /\ disk' = [disk EXCEPT ![p] = documents[p].text] /\ Refresh(documents)
    BY <1>7, <2>2 DEF Save
  <2>4. \A q \in Paths : disk'[q] # Unreadable
    BY <2>3, ServerAssumption DEF Buffered, InputTypes
  <2> QED BY <1>1, <2>2, <2>3, <2>4
<1>8. ASSUME NEW p \in Paths, Write(p) PROVE Buffered'
  <2>1. writes < WriteBound(fileRoot)
    BY <1>8 DEF Write
  <2>2. fileRoot
    BY <2>1, WritesOfRoots
  <2>3. UNCHANGED <<fileRoot, documents, base, overlays>>
    BY <1>8 DEF Write
  <2>4. \E content \in Texts \cup {Missing} : disk' = [disk EXCEPT ![p] = content]
    BY <1>8 DEF Write, Sheltered
  <2>5. \A q \in Paths : disk'[q] # Unreadable
    BY <2>4, ServerAssumption DEF Buffered, InputTypes
  <2> QED BY <2>2, <2>3, <2>5 DEF Buffered
<1>9. CASE WatchedFiles
  <2>1. fileRoot
    BY <1>9 DEF WatchedFiles, Buffered
  <2>2. UNCHANGED <<fileRoot, disk, documents>> /\ Refresh(documents)
    BY <1>9, <2>1 DEF WatchedFiles
  <2> QED BY <1>1, <2>1, <2>2 DEF Buffered
<1> QED BY <1>3, <1>4, <1>5, <1>6, <1>7, <1>8, <1>9

\* The rest of the server leaves them alone.
LEMMA BuffersStay ==
    ASSUME Buffered, LoopStep \/ Exit \/ CoordinatorStep \/ UNCHANGED vars
    PROVE  Buffered'
<1>1. UNCHANGED <<editor, inputs>>
  BY DEF LoopStep, Offer, Drain, Resend, ReceiveResult, Stopped, Exit, CoordinatorStep,
         ReceiveRequest, Debounced, CallAnalyze, FinishAnalysis, CheckGeneration, SendResult,
         ObserveStop, AnswerFromCache, BeginAnalysis, CommitAnalysis, DropAnalysis, service, vars
<1> QED BY <1>1 DEF editor, inputs, Buffered

\* All of it holds together.
LEMMA BuffersInvariant ==
    ASSUME Sheltered
    PROVE  ServerSpec => [](InputTypes /\ Answers /\ Buffered)
<1>1. ServerInit => Buffered
  BY ServerAssumption DEF ServerInit, Init, Buffered
<1>2. InputTypes /\ InputTypes' /\ Buffered /\ [ServerNext]_vars => Buffered'
  BY HandlersBuffer, BuffersStay DEF ServerNext
<1> QED BY <1>1, <1>2, AnswersAreTimely, PTL DEF ServerSpec

\* An open document is what is analyzed of its file.
LEMMA BufferedIsCurrent == ASSUME Buffered PROVE BuffersAnalyzed
BY DEF Buffered, BuffersAnalyzed, Current, Holds

\* Opening, editing, undoing and closing documents, and saving them in file-root
\* sessions, never leave the service with another text than the editor's, as
\* long as the files of a project are left alone and those of a closure can be
\* read.
THEOREM BuffersAreAnalyzed == Sheltered => (ServerSpec => []BuffersAnalyzed)
<1> SUFFICES ASSUME Sheltered PROVE ServerSpec => []BuffersAnalyzed
  OBVIOUS
<1>1. Buffered => BuffersAnalyzed
  BY BufferedIsCurrent
<1> QED BY <1>1, BuffersInvariant, PTL

\* In a file-root session nothing outside the closure is analyzed.
LEMMA AnalyzedBuffer ==
    ASSUME Buffered, NEW p \in DOMAIN documents, p \in DOMAIN Current
    PROVE  Current[p] = documents[p].text
<1>1. fileRoot => p \in DOMAIN base
  BY DEF Buffered, Current
<1> QED BY <1>1, BufferedIsCurrent DEF BuffersAnalyzed

\* The edits of a rename fit the buffers the editor applies them to.
THEOREM RenamesFit == Sheltered => (ServerSpec => []RenameFitsBuffers)
<1> SUFFICES ASSUME Sheltered PROVE ServerSpec => []RenameFitsBuffers
  OBVIOUS
<1>1. Answers /\ Buffered => RenameFitsBuffers
  BY AnalyzedBuffer DEF Answers, Timely, RenameFitsBuffers, CurrentAnalyzedSnapshot
<1> QED BY <1>1, BuffersInvariant, PTL

-----------------------------------------------------------------------------
(* What the editor shows *)

\* An edit takes away what is shown for a text that has gone.
LEMMA ChangeClears ==
    ASSUME NEW p \in Paths, NEW text \in Texts, Change(p, text), DOMAIN shown = Paths,
           NEW q \in DOMAIN documents
    PROVE  (StaleRanges(q)' => StaleRanges(q)) /\ DOMAIN shown' = Paths
<1>1. /\ documents' = [documents EXCEPT ![p] = [text |-> text, version |-> @.version + 1]]
      /\ shown' = IF text # documents[p].text THEN [shown EXCEPT ![p] = Nothing] ELSE shown
  BY DEF Change, Handle
<1>2. CASE q = p
  BY <1>1, <1>2 DEF StaleRanges
<1>3. CASE q # p
  BY <1>1, <1>3 DEF StaleRanges
<1> QED BY <1>1, <1>2, <1>3

\* A result that is applied is about the buffers.
LEMMA ResultFits ==
    ASSUME InputTypes, Answers, Buffered, DOMAIN shown = Paths, ReceiveResult,
           NEW q \in DOMAIN documents
    PROVE  StaleRanges(q)' => StaleRanges(q)
<1> DEFINE r == results[1]
<1>1. documents' = documents /\ q \in Paths
  BY DEF ReceiveResult, editor, InputTypes
<1>2. CASE ~Applicable(r)
  BY <1>1, <1>2 DEF ReceiveResult, StaleRanges
<1>3. CASE Applicable(r)
  <2>1. shown' = Published(r) /\ Sound(r.snapshot, generation, Current)
    BY <1>3 DEF ReceiveResult, Answers
  <2>2. r.snapshot.sources = Current /\ r.snapshot.errors \subseteq DOMAIN Current
    BY <1>3, <2>1 DEF Applicable, Sound, Timely
  <2>3. CASE q \in r.snapshot.errors
    <3>1. Current[q] = documents[q].text
      BY <2>2, <2>3, AnalyzedBuffer
    <3>2. shown'[q].text = Current[q]
      BY <1>1, <2>1, <2>2, <2>3 DEF Published
    <3> QED BY <1>1, <3>1, <3>2 DEF StaleRanges
  <2>4. CASE q \notin r.snapshot.errors
    BY <1>1, <2>1, <2>4 DEF Published, StaleRanges
  <2> QED BY <2>3, <2>4
<1> QED BY <1>2, <1>3

\* Each step leaves the documents or what is shown for them alone, but these two.
LEMMA RangesStep ==
    ASSUME InputTypes, Answers, Buffered, DOMAIN shown = Paths, [ServerNext]_vars
    PROVE  /\ DOMAIN shown' = Paths
           /\ \A q \in DOMAIN documents : StaleRanges(q)' => StaleRanges(q)
<1> USE DEF Handle
<1>1. ASSUME shown' = shown,
             \A q \in DOMAIN documents \cap DOMAIN documents' : documents'[q].text = documents[q].text
      PROVE  /\ DOMAIN shown' = Paths
             /\ \A q \in DOMAIN documents : StaleRanges(q)' => StaleRanges(q)
  BY <1>1 DEF StaleRanges
<1>2. ASSUME NEW p \in Paths, NEW text \in Texts, Change(p, text)
      PROVE  /\ DOMAIN shown' = Paths
             /\ \A q \in DOMAIN documents : StaleRanges(q)' => StaleRanges(q)
  BY <1>2, ChangeClears DEF Change
<1>3. ASSUME NEW p \in Paths, NEW text \in Texts, Open(p, text)
      PROVE  /\ shown' = shown
             /\ \A q \in DOMAIN documents \cap DOMAIN documents' : documents'[q].text = documents[q].text
  BY <1>3 DEF Open
<1>4. ASSUME NEW p \in Paths, ChangeVersion(p) \/ Close(p) \/ Save(p) \/ Write(p)
      PROVE  /\ shown' = shown
             /\ \A q \in DOMAIN documents \cap DOMAIN documents' : documents'[q].text = documents[q].text
  <2>1. CASE ChangeVersion(p)
    <3>1. documents' = [documents EXCEPT ![p].version = @ + 1] /\ shown' = shown
      BY <2>1 DEF ChangeVersion
    <3> QED BY <3>1
  <2>2. CASE Close(p)
    <3>1. documents' = Without(documents, p) /\ shown' = shown
      BY <2>2 DEF Close
    <3> QED BY <3>1 DEF Without
  <2>3. CASE Save(p) \/ Write(p)
    BY <2>3 DEF Save, Write, loop
  <2> QED BY <1>4, <2>1, <2>2, <2>3
<1>5. CASE WatchedFiles \/ Offer \/ Drain \/ Resend \/ Stopped \/ Exit \/ CoordinatorStep \/ UNCHANGED vars
  <2>1. shown' = shown /\ documents' = documents
    BY <1>5 DEF WatchedFiles, Offer, Drain, Resend, Stopped, Exit, CoordinatorStep,
         ReceiveRequest, Debounced, CallAnalyze, FinishAnalysis, CheckGeneration, SendResult,
         ObserveStop, loop, editor, vars
  <2> QED BY <1>1, <2>1
<1>6. CASE ReceiveResult
  BY <1>6, ResultFits DEF ReceiveResult, Published
<1> QED BY <1>1, <1>2, <1>3, <1>4, <1>5, <1>6 DEF ServerNext, LoopStep

\* Something, or Nothing, is shown for every file.
ShownOfFiles == DOMAIN shown = Paths

\* No edit leaves, and no late result brings, diagnostics of an older text to a
\* document that is open.
THEOREM RangesAreFresh == Sheltered => (ServerSpec => NoStaleRanges)
<1> SUFFICES ASSUME Sheltered PROVE ServerSpec => NoStaleRanges
  OBVIOUS
<1>1. ServerInit => ShownOfFiles
  BY DEF ServerInit, ShownOfFiles
<1>2. InputTypes /\ Answers /\ Buffered /\ ShownOfFiles /\ [ServerNext]_vars =>
          /\ ShownOfFiles'
          /\ [\A p \in DOMAIN documents : StaleRanges(p)' => StaleRanges(p)]_vars
  BY RangesStep DEF ShownOfFiles
<1> QED BY <1>1, <1>2, BuffersInvariant, PTL DEF ServerSpec, NoStaleRanges

-----------------------------------------------------------------------------
(* Files that change outside the editor *)

\* Is the file in the project as it is on disk?
InProject(p) ==
    /\ disk[p] \in Texts => Holds(base, p, disk[p])
    /\ disk[p] = Missing => p \notin DOMAIN base

\* Whatever the editor has notified is in the project.
Notified == \A p \in Paths \ unseen : InProject(p)

\* All files of a notification are read.
LEMMA NotificationApplied ==
    ASSUME InputTypes, Notified, Readable, ~fileRoot, WatchedFiles
    PROVE  Notified'
<1>1. /\ unseen' = {} /\ disk' = disk /\ unseen \subseteq Paths
      /\ FilesRead(unseen)
  BY DEF WatchedFiles, InputTypes, Readable
<1>2. /\ DOMAIN base' = (DOMAIN base \ unseen) \cup {p \in unseen : disk[p] # Missing}
      /\ \A p \in DOMAIN base' :
            base'[p] = IF p \in {q \in unseen : disk[q] # Missing} THEN disk[p] ELSE base[p]
  BY <1>1 DEF FilesRead
<1> SUFFICES ASSUME NEW p \in Paths PROVE InProject(p)'
  BY DEF Notified
<1>3. CASE p \in unseen
  BY <1>1, <1>2, <1>3, ServerAssumption DEF InProject, Holds
<1>4. CASE p \notin unseen
  BY <1>1, <1>2, <1>4 DEF Notified, InProject, Holds
<1> QED BY <1>3, <1>4

\* Documents are overlays; only files and their notifications change a project.
LEMMA NotifiedStep ==
    ASSUME InputTypes, Notified, Readable, ~fileRoot, [ServerNext]_vars
    PROVE  Notified' /\ fileRoot' = fileRoot
<1> USE DEF Handle, inputs, service
<1>1. CASE UNCHANGED <<fileRoot, disk, unseen, base>>
  BY <1>1 DEF Notified, InProject
<1>2. ASSUME NEW p \in Paths,
             \/ \E text \in Texts : Open(p, text) \/ Change(p, text)
             \/ ChangeVersion(p) \/ Close(p)
      PROVE  UNCHANGED <<fileRoot, disk, unseen, base>>
  BY <1>2 DEF Open, Change, ChangeVersion, Close, SetDocument, CloseDocument
<1>3. ASSUME NEW p \in Paths, Save(p) \/ Write(p)
      PROVE  Notified' /\ fileRoot' = fileRoot
  <2>1. /\ \E content : disk' = [disk EXCEPT ![p] = content]
        /\ unseen' = unseen \cup {p} /\ UNCHANGED <<fileRoot, base>>
    BY <1>3 DEF Save, Write
  <2> QED BY <2>1 DEF InputTypes, Notified, InProject
<1>4. CASE WatchedFiles
  BY <1>4, NotificationApplied DEF WatchedFiles
<1>5. CASE LoopStep \/ Exit \/ CoordinatorStep \/ UNCHANGED vars
  <2>1. UNCHANGED <<editor, inputs>>
    BY <1>5 DEF LoopStep, Offer, Drain, Resend, ReceiveResult, Stopped, Exit, CoordinatorStep,
         ReceiveRequest, Debounced, CallAnalyze, FinishAnalysis, CheckGeneration, SendResult,
         ObserveStop, AnswerFromCache, BeginAnalysis, CommitAnalysis, DropAnalysis, vars
  <2> QED BY <1>1, <2>1 DEF editor
<1> QED BY <1>1, <1>2, <1>3, <1>4, <1>5 DEF ServerNext

\* Edits, saves and watch notifications in any order leave no file of a project
\* out of what is analyzed, while files can be read.
THEOREM NotificationsApply == FileRoots = {FALSE} => (ServerSpec => WatchApplied)
<1> SUFFICES ASSUME FileRoots = {FALSE} PROVE ServerSpec => WatchApplied
  OBVIOUS
<1>1. ServerInit => Notified /\ ~fileRoot
  <2> SUFFICES ASSUME ServerInit PROVE Notified /\ ~fileRoot
    OBVIOUS
  <2>1. ~fileRoot /\ base = [p \in {q \in Paths : disk[q] # Missing} |-> disk[p]]
    BY DEF ServerInit
  <2>2. ASSUME NEW p \in Paths PROVE InProject(p)
    BY <2>1, ServerAssumption DEF InProject, Holds
  <2> QED BY <2>1, <2>2 DEF Notified
<1>2. InputTypes /\ Notified /\ ~fileRoot /\ Readable /\ [ServerNext]_vars => Notified' /\ ~fileRoot'
  BY NotifiedStep
<1>3. Notified => Applied
  <2>1. Notified /\ unseen = {} => \A p \in Paths : InProject(p)
    BY Zenon DEF Notified
  <2>2. Applied <=> (unseen = {} => \A p \in Paths : InProject(p))
    BY Zenon DEF InProject, Applied
  <2> QED BY <2>1, <2>2
<1> QED BY <1>1, <1>2, <1>3, AnswersAreTimely, PTL DEF ServerSpec, WatchApplied

-----------------------------------------------------------------------------
(* Types: how far the versions and the generation go *)

\* Buffers whose versions no more than count so many notifications
DocsType(docs, count) ==
    /\ DOMAIN docs \subseteq Paths
    /\ docs \in [DOMAIN docs -> [text : Texts, version : 1 .. count]]

\* In a project every file that is yet to be notified may make a generation; in
\* a closure only its resolutions do.
Bounded ==
    /\ fileRoot \in FileRoots
    /\ edits \in Nat /\ edits <= EditBound(fileRoot)
    /\ writes \in Nat /\ writes <= WriteBound(fileRoot)
    /\ DocsType(documents, edits)
    /\ generation <= GenerationBound
    /\ ~fileRoot => generation + Cardinality(unseen) <= 1 + edits + writes

\* What goes to the coordinator and comes back
Traffic ==
    /\ pc \in {"idle", "offer", "drain", "resend", "stopping", "exited"}
    /\ outgoing \in Requests
    /\ requests = << >> \/ \E r \in Requests : requests = <<r>>
    /\ results # << >> => results[1].request \in Requests
    /\ place \in {"waiting", "calling", "analyzing", "checking", "sending", "stopped"}
    /\ pending \in Requests \cup {NoRequest}
    /\ armed \in BOOLEAN
    /\ armed => place \in {"waiting", "stopped"}
    /\ armed \/ place \notin {"waiting", "stopped"} => pending \in Requests

\* Snapshots are of projects, and publications of their files and versions.
Publications ==
    /\ snapshot.sources \in Units
    /\ result[Coordinator].sources \in Units
    /\ results # << >> => results[1].snapshot.sources \in Units
    /\ view.sources \in Units
    /\ shown \in [Paths -> Shown]

\* Bounds are numbers, in which a session fits.
LEMMA BoundTypes ==
    ASSUME Bounded
    PROVE  /\ EditBound(fileRoot) \in Nat /\ WriteBound(fileRoot) \in Nat
           /\ GenerationBound \in Nat /\ GenerationBound > EditBound(fileRoot) + WriteBound(fileRoot)
BY ServerAssumption, ServiceAssumption DEF Bounded

\* The versions that a request captures are those of the documents.
LEMMA RequestType ==
    ASSUME NEW docs, NEW count \in Nat, DocsType(docs, count), count <= EditBound(fileRoot),
           EditBound(fileRoot) \in Nat, NEW now \in 1 .. GenerationBound
    PROVE  [generation |-> now, versions |-> [p \in DOMAIN docs |-> docs[p].version]] \in Requests
<1> DEFINE files == DOMAIN docs
           captured == [p \in files |-> docs[p].version]
<1>1. \A p \in files : docs[p].version \in 1 .. EditBound(fileRoot)
  BY DEF DocsType
<1>2. captured \in [files -> 1 .. EditBound(fileRoot)]
  BY <1>1
<1>3. files \in SUBSET Paths
  BY DEF DocsType
<1> HIDE DEF files, captured
<1>4. captured \in UNION {[fs -> 1 .. EditBound(fileRoot)] : fs \in SUBSET Paths}
  BY <1>2, <1>3
<1> QED BY <1>4 DEF Requests, files, captured

\* A handler that asks for diagnostics sends such a request.
LEMMA AskType ==
    ASSUME Traffic, NEW docs, NEW count \in Nat, DocsType(docs, count),
           count <= EditBound(fileRoot), EditBound(fileRoot) \in Nat, fileRoot' = fileRoot,
           generation' \in 1 .. GenerationBound,
           RequestDiagnostics(docs) \/ UNCHANGED <<pc, outgoing>>
    PROVE  outgoing' \in Requests /\ pc' \in {"idle", "offer", "drain", "resend", "stopping", "exited"}
BY RequestType DEF Traffic, RequestDiagnostics

\* More notifications only leave more room for versions.
LEMMA MoreRoom ==
    ASSUME NEW docs, NEW count \in Nat, DocsType(docs, count), NEW more \in Nat, count <= more
    PROVE  DocsType(docs, more)
<1>1. \A p \in DOMAIN docs : docs[p] \in [text : Texts, version : 1 .. more]
  BY DEF DocsType
<1> QED BY <1>1 DEF DocsType

\* The generation moves by one at most when a document does or a closure is
\* resolved again.
LEMMA GenerationStep ==
    ASSUME generation \in Nat, GenerationBound \in Nat, generation <= GenerationBound,
           \/ \E docs : Refresh(docs)
           \/ \E p \in Paths : CloseDocument(p) \/ \E text \in Texts : SetDocument(p, text)
    PROVE  generation' \in {generation, generation + 1} /\ generation' <= GenerationBound
BY DEF Refresh, ReplaceWorkspaceDocuments, CloseDocument, SetDocument, Invalidate, inputs

\* The handlers of document notifications make one more version.
LEMMA DocumentBounds ==
    ASSUME InputTypes, Bounded, Traffic,
           NEW docs, DocsType(docs, edits + 1), Handle(docs),
           generation' \in {generation, generation + 1}, generation' <= GenerationBound,
           RequestDiagnostics(docs) \/ UNCHANGED <<pc, outgoing>>
    PROVE  Bounded' /\ Traffic'
<1> USE DEF Handle, channels, coordinator
<1>1. /\ EditBound(fileRoot) \in Nat /\ WriteBound(fileRoot) \in Nat /\ fileRoot' = fileRoot
      /\ edits \in Nat /\ writes \in Nat /\ generation \in Nat /\ generation > 0
      /\ Cardinality(unseen) \in Nat /\ GenerationBound \in Nat
  BY BoundTypes, FS_CardinalityType DEF Bounded, InputTypes
<1>2. edits' = edits + 1 /\ edits' <= EditBound(fileRoot) /\ writes' = writes /\ unseen' = unseen
  BY <1>1 DEF Bounded
<1>3. DocsType(documents', edits')
  BY <1>2
<1>4. Bounded'
  BY <1>1, <1>2, <1>3 DEF Bounded
<1>5. outgoing' \in Requests /\ pc' \in {"idle", "offer", "drain", "resend", "stopping", "exited"}
  BY <1>1, <1>2, AskType
<1>6. Requests' = Requests
  BY <1>1 DEF Requests
<1> QED BY <1>4, <1>5, <1>6 DEF Traffic

\* The editor's notifications about its documents
LEMMA DocumentsBounded ==
    ASSUME InputTypes, Bounded, Traffic,
           \/ \E p \in Paths, text \in Texts : Open(p, text) \/ Change(p, text)
           \/ \E p \in Paths : ChangeVersion(p) \/ Close(p)
    PROVE  Bounded' /\ Traffic'
<1>0. /\ edits \in Nat /\ generation \in Nat /\ GenerationBound \in Nat
      /\ generation <= GenerationBound
  BY BoundTypes DEF Bounded, InputTypes
<1> DEFINE entry == [text : Texts, version : 1 .. edits + 1]
<1>1. DocsType(documents, edits + 1)
  BY <1>0, MoreRoom DEF Bounded
<1>2. /\ DOMAIN documents \subseteq Paths
      /\ documents \in [DOMAIN documents -> entry]
      /\ \A p \in DOMAIN documents : documents[p].version \in 1 .. edits
  BY <1>1 DEF DocsType, Bounded
<1>3. ASSUME NEW p \in Paths, NEW text \in Texts, Open(p, text) PROVE Bounded' /\ Traffic'
  <2> DEFINE docs == [q \in DOMAIN documents \cup {p} |->
                         IF q = p THEN [text |-> text, version |-> 1] ELSE documents[q]]
  <2>1. DocsType(docs, edits + 1)
    <3>1. [text |-> text, version |-> 1] \in entry
      BY <1>0
    <3>2. docs \in [DOMAIN documents \cup {p} -> entry]
      BY <1>2, <3>1
    <3> QED BY <1>2, <3>2 DEF DocsType
  <2>2. /\ Handle(docs)
        /\ Refresh(docs) \/ SetDocument(p, text)
        /\ RequestDiagnostics(docs) \/ UNCHANGED <<pc, outgoing>>
    BY <1>3 DEF Open, Refresh
  <2> HIDE DEF docs
  <2>3. generation' \in {generation, generation + 1} /\ generation' <= GenerationBound
    BY <1>0, <2>2, GenerationStep
  <2> QED BY <2>1, <2>2, <2>3, DocumentBounds
<1>4. ASSUME NEW p \in Paths, NEW text \in Texts, Change(p, text) PROVE Bounded' /\ Traffic'
  <2> DEFINE docs == [documents EXCEPT ![p] = [text |-> text, version |-> @.version + 1]]
  <2>1. DocsType(docs, edits + 1)
    <3>1. p \in DOMAIN documents
      BY <1>4 DEF Change
    <3>2. [text |-> text, version |-> documents[p].version + 1] \in entry
      BY <1>0, <1>2, <3>1
    <3>3. docs \in [DOMAIN documents -> entry]
      BY <1>2, <3>1, <3>2
    <3> QED BY <1>2, <3>3 DEF DocsType
  <2>2. /\ Handle(docs)
        /\ Refresh(docs) \/ SetDocument(p, text)
        /\ RequestDiagnostics(docs) \/ UNCHANGED <<pc, outgoing>>
    BY <1>4 DEF Change, Refresh
  <2> HIDE DEF docs
  <2>3. generation' \in {generation, generation + 1} /\ generation' <= GenerationBound
    BY <1>0, <2>2, GenerationStep
  <2> QED BY <2>1, <2>2, <2>3, DocumentBounds
<1>5. ASSUME NEW p \in Paths, ChangeVersion(p) PROVE Bounded' /\ Traffic'
  <2> DEFINE docs == [documents EXCEPT ![p].version = @ + 1]
  <2>1. DocsType(docs, edits + 1)
    <3>1. p \in DOMAIN documents
      BY <1>5 DEF ChangeVersion
    <3>2. [documents[p] EXCEPT !.version = @ + 1] \in entry
      BY <1>0, <1>2, <3>1
    <3>3. docs \in [DOMAIN documents -> entry]
      BY <1>2, <3>1, <3>2
    <3> QED BY <1>2, <3>3 DEF DocsType
  <2>2. /\ Handle(docs) /\ generation' = generation
        /\ RequestDiagnostics(docs)
    BY <1>5 DEF ChangeVersion, inputs
  <2> HIDE DEF docs
  <2>3. generation' \in {generation, generation + 1} /\ generation' <= GenerationBound
    BY <1>0, <2>2
  <2> QED BY <2>1, <2>2, <2>3, DocumentBounds
<1>6. ASSUME NEW p \in Paths, Close(p) PROVE Bounded' /\ Traffic'
  <2> DEFINE docs == Without(documents, p)
  <2>1. DocsType(docs, edits + 1)
    <3>1. docs \in [DOMAIN documents \ {p} -> entry]
      BY <1>2 DEF Without
    <3> QED BY <1>2, <3>1 DEF DocsType
  <2>2. /\ Handle(docs)
        /\ Refresh(docs) \/ CloseDocument(p)
        /\ RequestDiagnostics(docs) \/ UNCHANGED <<pc, outgoing>>
    BY <1>6 DEF Close, Refresh
  <2> HIDE DEF docs
  <2>3. generation' \in {generation, generation + 1} /\ generation' <= GenerationBound
    BY <1>0, <2>2, GenerationStep
  <2> QED BY <2>1, <2>2, <2>3, DocumentBounds
<1> QED BY <1>3, <1>4, <1>5, <1>6

\* Files that are written count until they are notified.
LEMMA FilesBounded ==
    ASSUME InputTypes, Bounded, Traffic,
           \/ WatchedFiles
           \/ \E p \in Paths : Save(p) \/ Write(p)
    PROVE  Bounded' /\ Traffic'
<1> USE DEF channels, coordinator, loop, inputs, service
<1>0. /\ edits \in Nat /\ writes \in Nat /\ generation \in Nat /\ GenerationBound \in Nat
      /\ generation <= GenerationBound /\ generation > 0 /\ EditBound(fileRoot) \in Nat
      /\ WriteBound(fileRoot) \in Nat /\ Cardinality(unseen) \in Nat
      /\ GenerationBound > EditBound(fileRoot) + WriteBound(fileRoot)
  BY BoundTypes, FS_CardinalityType DEF Bounded, InputTypes
<1>1. ASSUME fileRoot' = fileRoot, DocsType(documents', edits'), edits' = edits, writes' \in Nat,
             writes' <= WriteBound(fileRoot), generation' \in Nat, generation' > 0,
             generation' <= GenerationBound,
             ~fileRoot => generation' + Cardinality(unseen') <= 1 + edits + writes',
             UNCHANGED <<channels, coordinator>>,
             RequestDiagnostics(documents) \/ UNCHANGED <<pc, outgoing>>
      PROVE  Bounded' /\ Traffic'
  <2>1. Bounded'
    BY <1>0, <1>1 DEF Bounded
  <2>2. outgoing' \in Requests /\ pc' \in {"idle", "offer", "drain", "resend", "stopping", "exited"}
    BY <1>0, <1>1, AskType DEF Bounded
  <2>3. Requests' = Requests
    BY <1>1 DEF Requests
  <2> QED BY <1>1, <2>1, <2>2, <2>3 DEF Traffic
<1>2. ASSUME NEW p \in Paths, Save(p) \/ Write(p) PROVE Bounded' /\ Traffic'
  <2>1. /\ fileRoot' = fileRoot /\ documents' = documents /\ edits' = edits
        /\ writes' = writes + 1 /\ writes < WriteBound(fileRoot) /\ unseen' = unseen \cup {p}
        /\ UNCHANGED <<channels, coordinator>>
        /\ \/ fileRoot /\ Refresh(documents)
           \/ UNCHANGED <<generation, pc, outgoing>>
    BY <1>2 DEF Save, Write
  <2>2. /\ generation' \in Nat /\ generation' > 0 /\ generation' <= GenerationBound
        /\ ~fileRoot => generation' = generation
    BY <1>0, <2>1, GenerationStep
  <2>3. Cardinality(unseen') \in Nat /\ Cardinality(unseen') <= Cardinality(unseen) + 1
    <3>1. Cardinality(unseen \cup {p}) =
            IF p \in unseen THEN Cardinality(unseen) ELSE Cardinality(unseen) + 1
      BY FS_AddElement DEF InputTypes
    <3> QED BY <1>0, <2>1, <3>1
  <2>4. RequestDiagnostics(documents) \/ UNCHANGED <<pc, outgoing>>
    BY <2>1 DEF Refresh
  <2>5. ~fileRoot => generation' + Cardinality(unseen') <= 1 + edits + writes'
    BY <1>0, <2>1, <2>2, <2>3 DEF Bounded
  <2>6. DocsType(documents', edits')
    BY <2>1 DEF Bounded
  <2> QED BY <1>0, <1>1, <2>1, <2>2, <2>4, <2>5, <2>6
<1>3. CASE WatchedFiles
  <2>1. /\ fileRoot' = fileRoot /\ documents' = documents /\ edits' = edits /\ writes' = writes
        /\ unseen' = {} /\ UNCHANGED <<channels, coordinator>>
        /\ RequestDiagnostics(documents) \/ UNCHANGED <<pc, outgoing>>
        /\ \/ fileRoot /\ Refresh(documents)
           \/ ~fileRoot /\ \E done \in SUBSET unseen : FilesRead(done)
    BY <1>3 DEF WatchedFiles, Refresh
  <2>2. Cardinality(unseen') = 0
    BY <2>1, FS_EmptySet
  <2>3. CASE fileRoot /\ Refresh(documents)
    <3>1. generation' \in Nat /\ generation' > 0 /\ generation' <= GenerationBound
      BY <1>0, <2>3, GenerationStep
    <3> QED BY <1>0, <1>1, <2>1, <2>3, <3>1 DEF Bounded
  <2>4. ASSUME ~fileRoot, NEW done \in SUBSET unseen, FilesRead(done) PROVE Bounded' /\ Traffic'
    <3>1. PICK changed \in SUBSET done : generation' = generation + Cardinality(changed)
      BY <2>4 DEF FilesRead
    <3>2. Cardinality(changed) \in Nat /\ Cardinality(changed) <= Cardinality(unseen)
      BY FS_Subset, FS_CardinalityType DEF InputTypes
    <3>3. /\ generation' \in Nat /\ generation' > 0 /\ generation' <= 1 + edits + writes
          /\ edits <= EditBound(fileRoot) /\ writes <= WriteBound(fileRoot)
      BY <1>0, <2>4, <3>1, <3>2 DEF Bounded
    <3>4. generation' <= GenerationBound
      BY <1>0, <3>3
    <3> QED BY <1>0, <1>1, <2>1, <2>2, <3>3, <3>4 DEF Bounded
  <2> QED BY <2>1, <2>3, <2>4
<1> QED BY <1>2, <1>3

\* The loop and the coordinator pass requests on and give them back.
LEMMA StepsBounded ==
    ASSUME InputTypes, Bounded, Traffic, LoopStep \/ Exit \/ CoordinatorStep
    PROVE  Bounded' /\ Traffic'
<1> USE DEF editor, loop, channels, coordinator, service, inputs, analysis, Schedule
<1>1. UNCHANGED <<fileRoot, unseen, documents, generation, edits, writes, outgoing>>
  BY DEF LoopStep, Offer, Drain, Resend, ReceiveResult, Stopped, Exit, CoordinatorStep,
         ReceiveRequest, Debounced, CallAnalyze, FinishAnalysis, CheckGeneration, SendResult,
         ObserveStop, AnswerFromCache, BeginAnalysis, CommitAnalysis, DropAnalysis
<1>2. Bounded'
  BY <1>1 DEF Bounded
<1> SUFFICES Traffic'
  BY <1>2
<1>3. Requests' = Requests
  BY <1>1 DEF Requests
<1>4. ASSUME pc' \in {"idle", "offer", "drain", "resend", "stopping", "exited"},
             requests' = << >> \/ requests' = requests \/ requests' = <<outgoing>>,
             results' = << >> \/ results' = results, UNCHANGED coordinator
      PROVE  Traffic'
  BY <1>1, <1>3, <1>4 DEF Traffic
<1>5. CASE Offer \/ Drain \/ Resend \/ ReceiveResult \/ Stopped \/ Exit
  BY <1>4, <1>5 DEF Offer, Drain, Resend, ReceiveResult, Stopped, Exit, Traffic
<1>6. ASSUME requests' = << >> \/ requests' = requests, UNCHANGED <<pc, results>>,
             pending' \in Requests, armed' \in BOOLEAN,
             place' = "waiting" \/ (place' = "calling" /\ ~armed')
      PROVE  Traffic'
  BY <1>1, <1>3, <1>6 DEF Traffic
<1>7. CASE ReceiveRequest \/ Debounced
  <2>1. requests # << >> => requests[1] \in Requests
    BY DEF Traffic
  <2>2. CASE ReceiveRequest
    BY <1>6, <2>1, <2>2 DEF ReceiveRequest, Traffic
  <2>3. CASE Debounced /\ requests # << >>
    BY <1>6, <2>1, <2>3 DEF Debounced
  <2>4. CASE Debounced /\ requests = << >>
    <3>1. /\ armed /\ ~armed' /\ place' = "calling"
          /\ UNCHANGED <<pc, results, requests, pending>>
      BY <2>4 DEF Debounced
    <3>2. pending' \in Requests /\ armed' \in BOOLEAN
      BY <2>4, <3>1 DEF Traffic, Debounced
    <3> QED BY <1>6, <3>1, <3>2
  <2> QED BY <1>7, <2>2, <2>3, <2>4
<1>8. ASSUME UNCHANGED <<pc, requests, results, armed, pending>>,
             place' \in {"calling", "analyzing", "checking", "sending", "stopped"},
             place \notin {"waiting", "stopped"} \/ place' = "stopped"
      PROVE  Traffic'
  <2>1. armed => place' = "stopped"
    BY <1>8 DEF Traffic
  <2>2. armed \/ place' # "stopped" => pending \in Requests
    BY <1>8 DEF Traffic
  <2> QED BY <1>1, <1>3, <1>8, <2>1, <2>2 DEF Traffic
<1>9. ASSUME UNCHANGED <<pc, requests, armed>>, pending' = NoRequest, place' = "waiting",
             place \in {"analyzing", "checking", "sending"},
             results' = results \/ results'[1].request \in Requests
      PROVE  Traffic'
  <2>1. ~armed'
    BY <1>9 DEF Traffic
  <2> QED BY <1>1, <1>3, <1>9, <2>1 DEF Traffic
<1>10. CASE CallAnalyze
  BY <1>8, <1>10 DEF CallAnalyze
<1>11. CASE FinishAnalysis
  BY <1>8, <1>9, <1>11 DEF FinishAnalysis
<1>12. CASE CheckGeneration
  BY <1>8, <1>9, <1>12 DEF CheckGeneration
<1>13. CASE ObserveStop
  BY <1>8, <1>13 DEF ObserveStop
<1>14. CASE SendResult
  <2>1. /\ results' = <<[request |-> pending, snapshot |-> result[Coordinator]]>>
        /\ pending \in Requests
    BY <1>14 DEF SendResult, Traffic
  <2>2. results'[1].request \in Requests
    BY <2>1
  <2> QED BY <1>9, <1>14, <2>2 DEF SendResult
<1> QED BY <1>5, <1>7, <1>10, <1>11, <1>12, <1>13, <1>14 DEF LoopStep, CoordinatorStep

\* Analyses are of projects, and what is published of them is of their files.
LEMMA PublicationsKept ==
    ASSUME InputTypes, Answers, Bounded, Traffic, Publications, [ServerNext]_vars
    PROVE  Publications'
<1> USE DEF editor, loop, channels, coordinator, service, inputs, analysis, Handle
<1> DEFINE c == Coordinator
           Same == UNCHANGED <<fileRoot, view, shown, snapshot, result, results>>
<1>0. /\ DOMAIN result = {c} /\ (calls[c].running => calls[c].units \in Units)
      /\ NoSnapshot.sources \in Units
  BY NoUnits DEF Answers, NoSnapshot
<1>1. ASSUME fileRoot' = fileRoot,
             snapshot' = snapshot \/ snapshot'.sources \in Units,
             result' = result \/ result'[c].sources \in Units,
             results' = results \/ results' = << >> \/ results'[1].snapshot.sources \in Units,
             view' = view \/ view'.sources \in Units,
             shown' = shown \/ shown' \in [Paths -> Shown]
      PROVE  Publications'
  <2>1. Shown' = Shown
    BY <1>1 DEF Shown
  <2> QED BY <1>1, <2>1 DEF Publications
<1>2. CASE \/ \E p \in Paths, text \in Texts : Open(p, text) \/ Change(p, text)
           \/ \E p \in Paths : ChangeVersion(p) \/ Close(p) \/ Save(p) \/ Write(p)
           \/ WatchedFiles
  <2>1. UNCHANGED <<fileRoot, view, result, results>>
    BY <1>2 DEF Open, Change, ChangeVersion, Close, Save, Write, WatchedFiles
  <2>2. snapshot' = snapshot \/ snapshot' = NoSnapshot
    <3>1. ASSUME NEW docs, Refresh(docs) PROVE snapshot' = snapshot \/ snapshot' = NoSnapshot
      BY <3>1 DEF Refresh, ReplaceWorkspaceDocuments, Invalidate
    <3>2. ASSUME NEW p, NEW text, SetDocument(p, text)
          PROVE  snapshot' = snapshot \/ snapshot' = NoSnapshot
      BY <3>2 DEF SetDocument, Invalidate
    <3>3. ASSUME NEW p, CloseDocument(p) PROVE snapshot' = snapshot \/ snapshot' = NoSnapshot
      BY <3>3 DEF CloseDocument, Invalidate
    <3>4. ASSUME NEW done, FilesRead(done) PROVE snapshot' = snapshot \/ snapshot' = NoSnapshot
      BY <3>4 DEF FilesRead
    <3>5. CASE \E p \in Paths, text \in Texts : Open(p, text) \/ Change(p, text)
      BY <3>1, <3>2, <3>5 DEF Open, Change
    <3>6. CASE \E p \in Paths : ChangeVersion(p) \/ Close(p) \/ Save(p) \/ Write(p)
      BY <3>1, <3>3, <3>6 DEF ChangeVersion, Close, Save, Write
    <3>7. CASE WatchedFiles
      BY <3>1, <3>4, <3>7 DEF WatchedFiles
    <3> QED BY <1>2, <3>5, <3>6, <3>7
  <2>3. shown' = shown \/ shown' \in [Paths -> Shown]
    <3>1. \/ shown' = shown
          \/ \E p \in Paths : shown' = [shown EXCEPT ![p] = Nothing]
      BY <1>2 DEF Open, Change, ChangeVersion, Close, Save, Write, WatchedFiles
    <3> QED BY <3>1 DEF Publications, Shown
  <2> QED BY <1>0, <1>1, <2>1, <2>2, <2>3
<1>3. CASE Offer \/ Drain \/ Resend \/ Stopped \/ Exit
  BY <1>1, <1>3 DEF Offer, Drain, Resend, Stopped, Exit
<1>4. CASE ReceiveResult
  <2> DEFINE r == results[1]
  <2>1. /\ results # << >> /\ results' = << >> /\ UNCHANGED <<fileRoot, snapshot, result>>
        /\ \/ UNCHANGED <<view, shown>>
           \/ /\ view' = [version |-> r.snapshot.version, sources |-> r.snapshot.sources]
              /\ shown' = Published(r)
    BY <1>4 DEF ReceiveResult
  <2>2. /\ r.snapshot.sources \in Units /\ r.request \in Requests
        /\ r.snapshot.errors \subseteq DOMAIN r.snapshot.sources
    BY <2>1 DEF Publications, Traffic, Answers, Sound
  <2>3. Published(r) \in [Paths -> Shown]
    <3> SUFFICES ASSUME NEW p \in Paths
                 PROVE  (IF p \in r.snapshot.errors
                         THEN [text    |-> r.snapshot.sources[p],
                               version |-> IF p \in DOMAIN r.request.versions
                                           THEN r.request.versions[p] ELSE 0]
                         ELSE Nothing) \in Shown
      BY DEF Published
    <3>1. p \in r.snapshot.errors => r.snapshot.sources[p] \in Texts
      BY <2>2, UnitsAre
    <3>2. PICK files \in SUBSET Paths : r.request.versions \in [files -> 1 .. EditBound(fileRoot)]
      BY <2>2 DEF Requests
    <3>3. EditBound(fileRoot) \in Nat
      BY BoundTypes
    <3>4. (IF p \in DOMAIN r.request.versions THEN r.request.versions[p] ELSE 0)
             \in 0 .. EditBound(fileRoot)
      BY <3>2, <3>3
    <3> HIDE DEF r
    <3> QED BY <3>1, <3>4 DEF Shown
  <2>4. view' = view \/ view'.sources \in Units
    BY <2>1, <2>2
  <2> HIDE DEF r
  <2> QED BY <1>1, <2>1, <2>3, <2>4
<1>5. CASE ReceiveRequest \/ Debounced \/ CheckGeneration \/ ObserveStop
  BY <1>1, <1>5 DEF ReceiveRequest, Debounced, CheckGeneration, ObserveStop
<1>6. CASE CallAnalyze
  <2>1. /\ UNCHANGED <<fileRoot, snapshot, results, view, shown>>
        /\ result' = result \/ result' = [result EXCEPT ![c] = snapshot]
    BY <1>6 DEF CallAnalyze, AnswerFromCache, BeginAnalysis
  <2>2. result' = result \/ result'[c].sources \in Units
    BY <1>0, <2>1 DEF Publications
  <2> QED BY <1>1, <2>1, <2>2
<1>7. CASE FinishAnalysis
  <2>1. CASE DropAnalysis(c)
    BY <1>1, <1>7, <2>1 DEF FinishAnalysis, DropAnalysis
  <2>2. CASE CommitAnalysis(c)
    <3>0. PICK errors : /\ snapshot' = Built(calls[c], errors)
                        /\ result' = [result EXCEPT ![c] = Built(calls[c], errors)]
      BY <2>2 DEF CommitAnalysis
    <3> DEFINE built == Built(calls[c], errors)
    <3>1. /\ calls[c].running /\ snapshot' = built /\ result' = [result EXCEPT ![c] = built]
          /\ UNCHANGED <<fileRoot, results, view, shown>>
      BY <1>7, <2>2, <3>0 DEF FinishAnalysis, CommitAnalysis
    <3>2. built.sources \in Units
      BY <1>0, <3>1 DEF Built
    <3> HIDE DEF built
    <3>3. result'[c].sources \in Units
      BY <1>0, <3>1, <3>2
    <3> QED BY <1>1, <3>1, <3>2, <3>3
  <2> QED BY <1>7, <2>1, <2>2 DEF FinishAnalysis
<1>8. CASE SendResult
  <2>1. /\ results' = <<[request |-> pending, snapshot |-> result[c]]>>
        /\ UNCHANGED <<fileRoot, snapshot, result, view, shown>>
    BY <1>8 DEF SendResult
  <2>2. results'[1].snapshot.sources \in Units
    BY <2>1 DEF Publications
  <2> QED BY <1>1, <2>1, <2>2
<1>9. CASE UNCHANGED vars
  BY <1>1, <1>9 DEF vars
<1> QED BY <1>2, <1>3, <1>4, <1>5, <1>6, <1>7, <1>8, <1>9 DEF ServerNext, LoopStep, CoordinatorStep

\* Every variable stays within its type: also the versions and generations, which
\* the notifications that a session has seen bound.
THEOREM ServerTypes == ServerSpec => []TypeOK
<1> DEFINE Types == Bounded /\ Traffic /\ Publications
<1>1. ServerInit => Types
  <2> SUFFICES ASSUME ServerInit PROVE Types
    OBVIOUS
  <2>1. /\ fileRoot \in FileRoots /\ edits = 0 /\ writes = 0 /\ generation = 1
        /\ documents = << >> /\ unseen = {}
    BY DEF ServerInit, Init
  <2>2. /\ EditBound(fileRoot) \in Nat /\ WriteBound(fileRoot) \in Nat
        /\ GenerationBound \in Nat \ {0}
    BY <2>1, ServerAssumption, ServiceAssumption
  <2>3. DocsType(documents, 0)
    BY <2>1 DEF DocsType
  <2>4. Bounded
    BY <2>1, <2>2, <2>3, FS_EmptySet DEF Bounded
  <2>5. outgoing \in Requests
    <3>1. << >> \in [{} -> 1 .. EditBound(fileRoot)]
      OBVIOUS
    <3>2. << >> \in UNION {[files -> 1 .. EditBound(fileRoot)] : files \in SUBSET Paths}
      BY <3>1
    <3>3. outgoing = [generation |-> 1, versions |-> << >>] /\ 1 \in 1 .. GenerationBound
      BY <2>2 DEF ServerInit
    <3> QED BY <3>2, <3>3 DEF Requests
  <2>6. Traffic
    BY <2>5 DEF ServerInit, Traffic
  <2>7. snapshot.sources = << >> /\ result[Coordinator].sources = << >> /\ view.sources = << >>
    BY ServerAssumption DEF ServerInit, Init, NoSnapshot, NoView
  <2>8. Publications
    BY <2>7, NoUnits DEF ServerInit, Publications, Shown
  <2> QED BY <2>4, <2>6, <2>8
<1>2. InputTypes /\ Answers /\ Types /\ [ServerNext]_vars => Types'
  <2> SUFFICES ASSUME InputTypes, Answers, Types, [ServerNext]_vars PROVE Types'
    OBVIOUS
  <2>1. Publications'
    BY PublicationsKept
  <2>2. CASE \/ \E p \in Paths, text \in Texts : Open(p, text) \/ Change(p, text)
             \/ \E p \in Paths : ChangeVersion(p) \/ Close(p)
    BY <2>1, <2>2, DocumentsBounded
  <2>3. CASE \/ WatchedFiles
             \/ \E p \in Paths : Save(p) \/ Write(p)
    BY <2>1, <2>3, FilesBounded
  <2>4. CASE LoopStep \/ Exit \/ CoordinatorStep
    BY <2>1, <2>4, StepsBounded
  <2>5. CASE UNCHANGED vars
    BY <2>1, <2>5 DEF vars, editor, loop, channels, coordinator, service, inputs, Bounded, Traffic,
                      Requests
  <2> QED BY <2>2, <2>3, <2>4, <2>5 DEF ServerNext
<1>3. InputTypes /\ Answers /\ Types => TypeOK
  <2> SUFFICES ASSUME InputTypes, Answers, Types PROVE TypeOK
    OBVIOUS
  <2>1. /\ EditBound(fileRoot) \in Nat /\ GenerationBound \in Nat /\ generation \in Nat
        /\ generation > 0 /\ generation <= GenerationBound
    BY BoundTypes DEF Bounded, InputTypes
  <2>2. documents \in Documents
    <3>1. DocsType(documents, EditBound(fileRoot))
      BY <2>1, MoreRoom DEF Bounded
    <3> DEFINE files == DOMAIN documents
    <3>2. files \in SUBSET Paths /\ documents \in [files -> [text : Texts, version : 1 .. EditBound(fileRoot)]]
      BY <3>1 DEF DocsType
    <3> HIDE DEF files
    <3> QED BY <3>2 DEF Documents
  <2>3. view.version \in 0 .. GenerationBound
    BY <2>1 DEF Answers, Timely
  <2>4. generation \in 1 .. GenerationBound
    BY <2>1
  <2> QED BY <2>2, <2>3, <2>4 DEF TypeOK, InputTypes, Bounded, Traffic, Publications
<1> QED BY <1>1, <1>2, <1>3, AnswersAreTimely, PTL DEF ServerSpec
=============================================================================
