---------------------- MODULE LanguageServerProperties ----------------------
(***************************************************************************)
(* What the editor may rely on.                                            *)
(***************************************************************************)
EXTENDS LanguageServer

\* Publications as the text and the version they are about.
Shown == [text : Texts, version : 0 .. EditBound(fileRoot)] \cup {Nothing}

Documents == UNION {[files -> [text : Texts, version : 1 .. EditBound(fileRoot)]] : files \in SUBSET Paths}

Requests ==
    [generation : 1 .. GenerationBound,
     versions   : UNION {[files -> 1 .. EditBound(fileRoot)] : files \in SUBSET Paths}]

\* Every variable stays within its type.
TypeOK ==
    /\ fileRoot \in FileRoots
    /\ disk \in [Paths -> Texts \cup {Missing, Unreadable}]
    /\ unseen \subseteq Paths
    /\ documents \in Documents
    /\ view.version \in 0 .. GenerationBound /\ view.sources \in Units
    /\ shown \in [Paths -> Shown]
    /\ pc \in {"idle", "offer", "drain", "resend", "stopping", "exited"}
    /\ outgoing \in Requests
    /\ requests = << >> \/ \E r \in Requests : requests = <<r>>
    /\ results = << >> \/ results[1].request \in Requests
    /\ place \in {"waiting", "calling", "analyzing", "checking", "sending", "stopped"}
    /\ pending \in Requests \cup {NoRequest}
    /\ armed \in BOOLEAN
    /\ base \in Units /\ overlays \in Units
    /\ generation \in 1 .. GenerationBound

\* The request channel of one slot never blocks the event loop: an analysis, as
\* long as it takes, leaves the editor's notifications handled.
NeverBlocked == pc = "resend" => requests = << >>

\* What is analyzed of an open document is the buffer, not the file: opening,
\* editing, undoing back to the saved text and closing leave overlays, base and
\* Server.documents in agreement.
BuffersAnalyzed ==
    \A p \in DOMAIN documents :
        ~fileRoot \/ p \in DOMAIN base =>
            p \in DOMAIN Current /\ Current[p] = documents[p].text

\* A rename, whose edits are spans of the analyzed sources, is only answered
\* from a snapshot in which every open document has the text the editor will
\* apply the edits to.
RenameFitsBuffers ==
    CurrentAnalyzedSnapshot =>
        \A p \in DOMAIN documents \cap DOMAIN view.sources :
            view.sources[p] = documents[p].text

\* The snapshot that is taken for current is one of the files and overlays the
\* service holds, also while a watch notification is abandoned half way.
ViewIsCurrent == CurrentAnalyzedSnapshot => view.sources = Current

\* Does the editor show an open document diagnostics of another text?
StaleRanges(p) ==
    /\ p \in DOMAIN documents
    /\ shown[p] # Nothing
    /\ shown[p].text # documents[p].text

\* No edit leaves, and no late result brings, diagnostics of an older text to
\* a document that is open.
NoStaleRanges ==
    [][\A p \in DOMAIN documents : StaleRanges(p)' => StaleRanges(p)]_vars

\* Is what is shown for an open document about an older version of it?
OutdatedRanges(p) == StaleRanges(p) /\ shown[p].version \in 1 .. documents[p].version - 1

\* "clearPublishedDiagnostics invalidates diagnostics computed for an older
\* document version" (server.go): no step shows them again.
OlderVersionsStayCleared ==
    [][\A p \in DOMAIN documents : OutdatedRanges(p)' => StaleRanges(p)]_vars

\* Does every file stay readable?  One that does not ends the handling of the
\* notification that it is part of, and of the files after it.
Readable == \A p \in Paths : disk[p] # Unreadable

\* Is every file, once its notifications are handled, in the snapshot of the
\* project as it is on disk?
Applied ==
    unseen = {} =>
        \A p \in Paths :
            /\ disk[p] \in Texts => Holds(base, p, disk[p])
            /\ disk[p] = Missing => p \notin DOMAIN base

\* Edits, saves and watch notifications in any order leave nothing out.
WatchApplied == []Readable => []Applied

-----------------------------------------------------------------------------
\* The Go scheduler runs the coordinator and the event loop, whose select takes
\* a ready result when no notification is left, and the editor sends the
\* notification of every change.
FairServer ==
    /\ ServerSpec
    /\ WF_vars(LoopStep)
    /\ WF_vars(CoordinatorStep)
    /\ WF_vars(WatchedFiles)

\* The workspace the editor has: its buffers over the files.
Workspace ==
    IF fileRoot
    THEN Resolved(documents)
    ELSE [p \in {q \in Paths : Reading(documents, q) # Missing} |-> Reading(documents, p)]

ShowsErrors ==
    \E errors \in Verdicts(Workspace) : \A p \in Paths :
        IF p \in errors THEN shown[p].text = Workspace[p] ELSE shown[p] = Nothing

\* No request is lost between the debounce, the slot that is emptied and the
\* analyses that are dropped: when the edits end, the editor comes to show the
\* errors of its buffers and files, and nothing else (while they can be read).
Settles == []Readable => <>[](ShowsErrors \/ StopClosed)

\* The coordinator ends after the server has, even one that the server did not
\* wait for: no goroutine is left.
CoordinatorStops == StopClosed ~> place = "stopped"
=============================================================================
