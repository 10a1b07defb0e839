--------------------------- MODULE LanguageServer ---------------------------
(***************************************************************************)
(* The language server (internal/lsp): the event loop that handles the     *)
(* editor's notifications, the diagnostics coordinator that analyzes in    *)
(* the background (diagnostics.go), and the compiler service they share.   *)
(*                                                                         *)
(* A session serves a configured project, whose files it follows through   *)
(* watch notifications, or one root file and its import closure (fileRoot).*)
(* A handler runs in one step up to the coordinator's Request, whose       *)
(* channel operations are steps of their own.                              *)
(***************************************************************************)
EXTENDS CompilerService, FiniteSets, Sequences

CONSTANTS
    FileRoots,      \* the kinds of session: project (FALSE) and file-root (TRUE)
    Entry,          \* its root file
    Imports(_, _),  \* the files that a file with this text imports
    Missing,        \* no such file
    Unreadable,     \* a file that cannot be read: its permissions, a directory
    AllReadable,    \* do files stay readable
    EditBound(_),   \* notifications about documents, by the kind of session
    WriteBound(_)   \* changes of files on disk

Coordinator == "diagnostics"

ASSUME ServerAssumption ==
    /\ Callers = {Coordinator}
    /\ FileRoots \subseteq BOOLEAN /\ AllReadable \in BOOLEAN
    /\ Entry \in Paths
    /\ \A p \in Paths, text \in Texts : Imports(p, text) \subseteq Paths
    /\ \A units \in Units : Verdicts(units) \subseteq SUBSET DOMAIN units
    /\ Missing \notin Texts /\ Unreadable \notin Texts /\ Missing # Unreadable
    /\ \A kind \in FileRoots :
          /\ EditBound(kind) \in Nat /\ WriteBound(kind) \in Nat
          /\ GenerationBound > EditBound(kind) + WriteBound(kind)

VARIABLES
    fileRoot,   \* is the session a file-root one
    disk,       \* what reading each file gives
    unseen,     \* files with a change the editor has not notified yet
    documents,  \* Server.documents: the open buffers and their versions
    view,       \* Server.snapshot: the snapshot queries are answered from
    shown,      \* Server.published, and what the editor shows: the diagnostics
                \* of each file, as the text and the version they are about
    pc,         \* where the event loop is
    outgoing,   \* the request it is handing to the coordinator
    requests,   \* the coordinator's requests, a channel of capacity one
    results,    \* its results, a channel of capacity one
    place,      \* where the coordinator's goroutine is
    pending,    \* the request it waits or works for
    armed,      \* is its debounce timer running
    edits, writes

editor == <<fileRoot, disk, unseen, documents, edits, writes>>
loop == <<view, shown, pc, outgoing>>
channels == <<requests, results>>
coordinator == <<place, pending, armed>>
service == <<inputs, snapshot, analysis>>
vars == <<editor, loop, channels, coordinator, service>>

Nothing == [text |-> Missing, version |-> 0]
NoRequest == [generation |-> 0, versions |-> << >>]
NoView == [version |-> 0, sources |-> << >>]

-----------------------------------------------------------------------------
(* The workspace of a file-root session: loadFileRootSourceGraph *)

\* The open buffer, or else the file.
Reading(docs, p) == IF p \in DOMAIN docs THEN docs[p].text ELSE disk[p]

\* Imported files are in the closure, unless they are missing.
ImportClosed(docs, files) ==
    \A p \in files : Reading(docs, p) \in Texts =>
        \A q \in Imports(p, Reading(docs, p)) : Reading(docs, q) # Missing => q \in files

Closure(docs) ==
    {p \in Paths : \A files \in SUBSET Paths :
                      Entry \in files /\ ImportClosed(docs, files) => p \in files}

\* The first file that cannot be read fails the resolution.
ResolveFails(docs) == \E p \in Closure(docs) : Reading(docs, p) = Unreadable

\* A missing entry gives an empty workspace until the editor opens it.
Resolved(docs) ==
    IF Reading(docs, Entry) = Missing
    THEN << >>
    ELSE [p \in Closure(docs) |-> Reading(docs, p)]

-----------------------------------------------------------------------------
\* The session after the initialized notification, which asks for the first
\* diagnostics.  A project without files is refused.
ServerInit ==
    /\ fileRoot \in FileRoots
    /\ disk \in [Paths -> Texts \cup {Missing}]
    /\ unseen = {}
    /\ documents = << >>
    /\ view = NoView
    /\ shown = [p \in Paths |-> Nothing]
    /\ pc = "offer"
    /\ outgoing = [generation |-> 1, versions |-> << >>]
    /\ requests = << >>
    /\ results = << >>
    /\ place = "waiting"
    /\ pending = NoRequest
    /\ armed = FALSE
    /\ edits = 0
    /\ writes = 0
    /\ Init
    /\ fileRoot \/ \E p \in Paths : disk[p] # Missing
    /\ base = IF fileRoot THEN Resolved(<< >>)
              ELSE [p \in {q \in Paths : disk[q] # Missing} |-> disk[p]]

-----------------------------------------------------------------------------
(* The event loop *)

\* captureDiagnosticRequest, then Request on the coordinator.  The targets only
\* add empty publications, which show nothing.
RequestDiagnostics(docs) ==
    /\ outgoing' = [generation |-> generation',
                    versions   |-> [p \in DOMAIN docs |-> docs[p].version]]
    /\ pc' = "offer"

\* refreshFileRootWorkspace: a resolution that fails only shows its error.
Refresh(docs) ==
    IF ResolveFails(docs)
    THEN UNCHANGED <<inputs, snapshot, pc, outgoing>>
    ELSE ReplaceWorkspaceDocuments(Resolved(docs)) /\ RequestDiagnostics(docs)

\* The common part of the handlers of one document notification.
Handle(docs) ==
    /\ pc = "idle"
    /\ edits < EditBound(fileRoot)
    /\ edits' = edits + 1
    /\ documents' = docs
    /\ UNCHANGED <<fileRoot, disk, unseen, writes, view, channels, coordinator, analysis>>

\* textDocument/didOpen
Open(p, text) ==
    LET docs == [q \in DOMAIN documents \cup {p} |->
                    IF q = p THEN [text |-> text, version |-> 1] ELSE documents[q]]
    IN  /\ p \notin DOMAIN documents
        /\ Handle(docs)
        /\ IF fileRoot THEN Refresh(docs)
                       ELSE SetDocument(p, text) /\ RequestDiagnostics(docs)
        /\ UNCHANGED shown

\* textDocument/didChange.  clearPublishedDiagnostics empties what is shown for
\* a text that has gone.  Versions only grow; a change that repeats one is
\* ignored, which changes nothing.
Change(p, text) ==
    LET docs == [documents EXCEPT ![p] = [text |-> text, version |-> @.version + 1]]
    IN  /\ p \in DOMAIN documents
        /\ Handle(docs)
        /\ shown' = IF text # documents[p].text THEN [shown EXCEPT ![p] = Nothing] ELSE shown
        /\ IF fileRoot THEN Refresh(docs)
                       ELSE SetDocument(p, text) /\ RequestDiagnostics(docs)

\* len(params.ContentChanges) == 0
ChangeVersion(p) ==
    LET docs == [documents EXCEPT ![p].version = @ + 1]
    IN  /\ p \in DOMAIN documents
        /\ Handle(docs)
        /\ UNCHANGED <<shown, inputs, snapshot>>
        /\ RequestDiagnostics(docs)

\* textDocument/didClose
Close(p) ==
    LET docs == Without(documents, p)
    IN  /\ p \in DOMAIN documents
        /\ Handle(docs)
        /\ IF fileRoot THEN Refresh(docs)
                       ELSE CloseDocument(p) /\ RequestDiagnostics(docs)
        /\ UNCHANGED shown

\* The editor saves a buffer and sends textDocument/didSave, without its text.
Save(p) ==
    /\ p \in DOMAIN documents
    /\ pc = "idle"
    /\ writes < WriteBound(fileRoot)
    /\ writes' = writes + 1
    /\ disk' = [disk EXCEPT ![p] = documents[p].text]
    /\ unseen' = unseen \cup {p}
    /\ IF fileRoot THEN Refresh(documents) ELSE UNCHANGED <<inputs, snapshot, pc, outgoing>>
    /\ UNCHANGED <<fileRoot, documents, edits, view, shown, channels, coordinator, analysis>>

\* Mutated: files that are gone stay in the project.
FilesReadKeepingGone(done) ==
    LET written == {p \in done : disk[p] # Missing}
        changed == {p \in written : ~Holds(base, p, disk[p])}
    IN  /\ base' = [p \in DOMAIN base \cup written |->
                       IF p \in written THEN disk[p] ELSE base[p]]
        /\ generation' = generation + Cardinality(changed)
        /\ snapshot' = IF changed = {} THEN snapshot ELSE NoSnapshot
        /\ UNCHANGED overlays

\* Mutated: a file that is gone does not make a new generation.
FilesReadUncounted(done) ==
    LET written == {p \in done : disk[p] # Missing}
        changed == {p \in written : ~Holds(base, p, disk[p])}
    IN  /\ base' = [p \in (DOMAIN base \ done) \cup written |->
                       IF p \in written THEN disk[p] ELSE base[p]]
        /\ generation' = generation + Cardinality(changed)
        /\ snapshot' = IF changed = {} THEN snapshot ELSE NoSnapshot
        /\ UNCHANGED overlays

\* changeWorkspaceFiles in a project.  Every file is read when its event is
\* handled; one that cannot be read drops the events behind it.
FilesRead(done) ==
    LET written == {p \in done : disk[p] # Missing}
        changed == {p \in done : IF p \in written THEN ~Holds(base, p, disk[p])
                                                  ELSE p \in DOMAIN base}
    IN  /\ base' = [p \in (DOMAIN base \ done) \cup written |->
                       IF p \in written THEN disk[p] ELSE base[p]]
        /\ generation' = generation + Cardinality(changed)
        /\ snapshot' = IF changed = {} THEN snapshot ELSE NoSnapshot
        /\ UNCHANGED overlays

\* workspace/didChangeWatchedFiles
WatchedFiles ==
    /\ pc = "idle"
    /\ unseen # {}
    /\ unseen' = {}
    /\ \/ fileRoot /\ Refresh(documents)
       \/ /\ ~fileRoot
          /\ \A p \in unseen : disk[p] # Unreadable
          /\ FilesRead(unseen)
          /\ RequestDiagnostics(documents)
       \/ /\ ~fileRoot
          /\ \E p \in unseen : disk[p] = Unreadable
          /\ \E done \in SUBSET {p \in unseen : disk[p] # Unreadable} : FilesRead(done)
          /\ UNCHANGED <<pc, outgoing>>
    /\ UNCHANGED <<fileRoot, disk, documents, edits, writes, view, shown, channels, coordinator, analysis>>

\* Mutated: a channel without a bound
OfferUnbounded ==
    /\ pc = "offer"
    /\ requests' = Append(requests, outgoing)
    /\ pc' = "idle"
    /\ UNCHANGED <<editor, view, shown, outgoing, results, coordinator, service>>

\* Mutated: a request that finds the slot taken is left out.
OfferOnce ==
    /\ pc = "offer"
    /\ requests' = IF requests = << >> THEN <<outgoing>> ELSE requests
    /\ pc' = "idle"
    /\ UNCHANGED <<editor, view, shown, outgoing, results, coordinator, service>>

\* Request: the first select
Offer ==
    /\ pc = "offer"
    /\ IF requests = << >>
       THEN requests' = <<outgoing>> /\ pc' = "idle"
       ELSE UNCHANGED requests /\ pc' = "drain"
    /\ UNCHANGED <<editor, view, shown, outgoing, results, coordinator, service>>

\* Mutated: the older request stays in the slot.
DrainNothing ==
    /\ pc = "drain"
    /\ pc' = "resend"
    /\ UNCHANGED <<editor, view, shown, outgoing, channels, coordinator, service>>

\* its second, which takes out an older request if it is still there
Drain ==
    /\ pc = "drain"
    /\ requests' = << >>
    /\ pc' = "resend"
    /\ UNCHANGED <<editor, view, shown, outgoing, results, coordinator, service>>

\* and its third, which waits for room
Resend ==
    /\ pc = "resend"
    /\ requests = << >>
    /\ requests' = <<outgoing>>
    /\ pc' = "idle"
    /\ UNCHANGED <<editor, view, shown, outgoing, results, coordinator, service>>

\* Mutated: the generation at the time of the answer is not compared.
ApplicableLate(r) == r.snapshot.version = r.request.generation

\* applyDiagnosticResult
Applicable(r) ==
    r.snapshot.version = r.request.generation /\ generation = r.request.generation

\* applySnapshot: every file that has, had or may have diagnostics is published.
Published(r) ==
    [p \in Paths |->
        IF p \in r.snapshot.errors
        THEN [text    |-> r.snapshot.sources[p],
              version |-> IF p \in DOMAIN r.request.versions THEN r.request.versions[p] ELSE 0]
        ELSE Nothing]

ReceiveResult ==
    LET r == results[1] IN
    /\ pc = "idle"
    /\ results # << >>
    /\ results' = << >>
    /\ IF Applicable(r)
       THEN /\ view' = [version |-> r.snapshot.version, sources |-> r.snapshot.sources]
            /\ shown' = Published(r)
       ELSE UNCHANGED <<view, shown>>
    /\ UNCHANGED <<editor, pc, outgoing, requests, coordinator, service>>

\* exit, or the end of the input: Run returns through Stop, which waits for the
\* coordinator no longer than its grace period.
Exit ==
    /\ pc = "idle"
    /\ pc' = "stopping"
    /\ UNCHANGED <<editor, view, shown, outgoing, channels, coordinator, service>>

Stopped ==
    /\ pc = "stopping"
    /\ pc' = "exited"
    /\ UNCHANGED <<editor, view, shown, outgoing, channels, coordinator, service>>

\* Mutated: any snapshot will do.
AnalyzedSnapshot == view.version # 0

\* currentAnalyzedSnapshot: may a request that edits sources be answered?
CurrentAnalyzedSnapshot == view.version # 0 /\ view.version = generation

-----------------------------------------------------------------------------
(* The coordinator *)

StopClosed == pc \in {"stopping", "exited"}

\* schedule: the newer request replaces the one that waits.
Schedule(request) ==
    /\ pending' = request
    /\ armed' = TRUE

ReceiveRequest ==
    /\ place = "waiting"
    /\ requests # << >>
    /\ requests' = << >>
    /\ Schedule(requests[1])
    /\ UNCHANGED <<editor, loop, results, place, service>>

\* Mutated: the request that came meanwhile gives way to the one that waited.
DebouncedFirst ==
    /\ place = "waiting"
    /\ armed
    /\ armed' = FALSE
    /\ place' = "calling"
    /\ requests' = << >>
    /\ UNCHANGED pending
    /\ UNCHANGED <<editor, loop, results, service>>

\* The timer fires: a request that came meanwhile is scheduled instead.
Debounced ==
    /\ place = "waiting"
    /\ armed
    /\ IF requests # << >>
       THEN /\ requests' = << >>
            /\ Schedule(requests[1])
            /\ UNCHANGED place
       ELSE /\ armed' = FALSE
            /\ place' = "calling"
            /\ UNCHANGED <<requests, pending>>
    /\ UNCHANGED <<editor, loop, results, service>>

\* c.analyze() is AnalyzeOnce of the service.
CallAnalyze ==
    /\ place = "calling"
    /\ \/ AnswerFromCache(Coordinator) /\ place' = "checking"
       \/ BeginAnalysis(Coordinator) /\ place' = "analyzing"
    /\ UNCHANGED <<editor, loop, channels, pending, armed>>

\* A dropped analysis leaves its request unanswered: a newer one follows it.
FinishAnalysis ==
    /\ place = "analyzing"
    /\ \/ CommitAnalysis(Coordinator) /\ place' = "checking" /\ UNCHANGED pending
       \/ DropAnalysis(Coordinator) /\ place' = "waiting" /\ pending' = NoRequest
    /\ UNCHANGED <<editor, loop, channels, armed>>

\* snapshot.Version != request.generation || c.generation() != request.generation
CheckGeneration ==
    /\ place = "checking"
    /\ IF result[Coordinator].version = pending.generation /\ generation = pending.generation
       THEN place' = "sending" /\ UNCHANGED pending
       ELSE place' = "waiting" /\ pending' = NoRequest
    /\ UNCHANGED <<editor, loop, channels, armed, service>>

SendResult ==
    /\ place = "sending"
    /\ results = << >>
    /\ results' = <<[request |-> pending, snapshot |-> result[Coordinator]]>>
    /\ place' = "waiting"
    /\ pending' = NoRequest
    /\ UNCHANGED <<editor, loop, requests, armed, service>>

\* Mutated: the sending of a result does not look at the stop channel.
ObserveStopWaiting ==
    /\ StopClosed
    /\ place = "waiting"
    /\ place' = "stopped"
    /\ UNCHANGED <<editor, loop, channels, pending, armed, service>>

\* case <-c.stop, where the goroutine waits or sends
ObserveStop ==
    /\ StopClosed
    /\ place \in {"waiting", "sending"}
    /\ place' = "stopped"
    /\ UNCHANGED <<editor, loop, channels, pending, armed, service>>

-----------------------------------------------------------------------------
\* Something outside the editor writes or removes a file.
Write(p) ==
    /\ writes < WriteBound(fileRoot)
    /\ writes' = writes + 1
    /\ \E content \in Texts \cup {Missing} \cup (IF AllReadable THEN {} ELSE {Unreadable}) :
          disk[p] # content /\ disk' = [disk EXCEPT ![p] = content]
    /\ unseen' = unseen \cup {p}
    /\ UNCHANGED <<fileRoot, documents, edits, loop, channels, coordinator, service>>

LoopStep == Offer \/ Drain \/ Resend \/ ReceiveResult \/ Stopped

CoordinatorStep ==
    \/ ReceiveRequest \/ Debounced \/ CallAnalyze \/ FinishAnalysis
    \/ CheckGeneration \/ SendResult \/ ObserveStop

ServerNext ==
    \/ \E p \in Paths, text \in Texts : Open(p, text) \/ Change(p, text)
    \/ \E p \in Paths : ChangeVersion(p) \/ Close(p) \/ Save(p) \/ Write(p)
    \/ WatchedFiles
    \/ LoopStep
    \/ Exit
    \/ CoordinatorStep

ServerSpec == ServerInit /\ [][ServerNext]_vars
=============================================================================
