------------------------- MODULE GeneratedWorkspaces -------------------------
(***************************************************************************)
(* The workspaces of "trb run" and "trb test"                              *)
(* (internal/cli/generated_workspace.go): a directory below .trb/run with  *)
(* a lock file, its lease, and a marker owner.json.  Its process writes    *)
(* the target source into it and removes or keeps it at the end; every     *)
(* other run, and "trb clean", reaps those that were abandoned.            *)
(*                                                                         *)
(* The processes share nothing but the file system: one action is one      *)
(* system call.  os.RemoveAll opens the directory, unlinks what is in it,  *)
(* wherever the directory has been moved to, and then unlinks its name.    *)
(***************************************************************************)
EXTENDS Naturals

CONSTANTS
    Workspaces,   \* each with the process that makes it
    Reapers,      \* processes in reapGeneratedWorkspaces
    Mortal        \* those that may be killed there

ASSUME WorkspacesAssumption ==
    /\ Mortal \subseteq Reapers
    /\ Reapers \cap {"nobody", "owner"} = {}

VARIABLES
    keep,     \* is the command of each workspace run with --keep-generated
    prompt,   \* does no process stall for workspaceCreationGrace, a minute, while
              \* a workspace is made, looked at or closed
    owner,    \* where the process of each workspace is
    place,    \* where its directory is
    source,   \* the target source in it
    marker,   \* its owner.json
    lock,     \* does lease.lock exist
    holder,   \* who has it locked
    young,    \* is CreatedAt within the grace
    touched,  \* is the modification time of the directory within the grace
    at,       \* where each reaper is
    of        \* and on which workspace

files == <<place, source, marker, lock, touched>>
reapers == <<at, of>>
settings == <<keep, prompt>>
vars == <<settings, owner, files, holder, young, reapers>>

Holders == {"nobody", "owner"} \cup Reapers

Init ==
    /\ keep \in [Workspaces -> BOOLEAN]
    /\ prompt \in BOOLEAN
    /\ owner = [w \in Workspaces |-> "absent"]
    /\ place = [w \in Workspaces |-> "none"]
    /\ source = [w \in Workspaces |-> "none"]
    /\ marker = [w \in Workspaces |-> "none"]
    /\ lock = [w \in Workspaces |-> FALSE]
    /\ holder = [w \in Workspaces |-> "nobody"]
    /\ young = [w \in Workspaces |-> FALSE]
    /\ touched = [w \in Workspaces |-> FALSE]
    /\ at = [r \in Reapers |-> "idle"]
    /\ of \in [Reapers -> Workspaces]

-----------------------------------------------------------------------------
(* The process of a workspace *)

Go(w, from, to) == owner[w] = from /\ owner' = [owner EXCEPT ![w] = to]

\* The directory still has its name below .trb/run.
Exists(w) == place[w] = "run"

Touch(w) == touched' = [touched EXCEPT ![w] = TRUE]

\* createGeneratedWorkspace: os.MkdirTemp
Create(w) ==
    /\ Go(w, "absent", "made")
    /\ place' = [place EXCEPT ![w] = "run"]
    /\ Touch(w)
    /\ UNCHANGED <<source, marker, lock, holder, young, reapers>>

CreateLease(w) ==
    /\ Exists(w)
    /\ Go(w, "made", "opened")
    /\ lock' = [lock EXCEPT ![w] = TRUE]
    /\ Touch(w)
    /\ UNCHANGED <<place, source, marker, holder, young, reapers>>

\* acquireWorkspaceLease, which waits
AcquireLease(w) ==
    /\ holder[w] = "nobody"
    /\ Go(w, "opened", "leased")
    /\ holder' = [holder EXCEPT ![w] = "owner"]
    /\ UNCHANGED <<files, young, reapers>>

\* os.WriteFile creates the file, or truncates it when it is written again to
\* keep the workspace, and then writes it.
OpenMarker(w) ==
    /\ Exists(w)
    /\ marker' = [marker EXCEPT ![w] = "empty"]
    /\ touched' = [touched EXCEPT ![w] = @ \/ marker[w] = "none"]
    /\ UNCHANGED <<place, source, lock, holder, reapers>>

CreateMarker(w) ==
    /\ Go(w, "leased", "marking")
    /\ young' = [young EXCEPT ![w] = TRUE]
    /\ OpenMarker(w)

\* Mutated: what is written is only a part of the marker.
WrittenPartly(w, content) == marker' = [marker EXCEPT ![w] = "partial"]

\* A file that was unlinked is written nowhere.
Written(w, content) ==
    marker' = IF marker[w] = "none" THEN marker ELSE [marker EXCEPT ![w] = content]

WriteMarker(w) ==
    /\ Go(w, "marking", "marked")
    /\ Written(w, "active")
    /\ UNCHANGED <<place, source, lock, touched, holder, young, reapers>>

\* The caller writes the target source below Path(), with os.MkdirAll of the
\* directories (writeCompiledTree of cli.go), and runs it.
WriteSource(w) ==
    /\ Go(w, "marked", "running")
    /\ place' = [place EXCEPT ![w] = "run"]
    /\ source' = [source EXCEPT ![w] = "whole"]
    /\ Touch(w)
    /\ UNCHANGED <<marker, lock, holder, young, reapers>>

Active == {"marked", "running"}

\* Mutated: Close returns its error without the removal.
FailAtOnce(w) ==
    /\ \/ owner[w] \in {"made", "leased", "keeping"} /\ ~Exists(w)
       \/ owner[w] \in Active /\ keep[w] /\ marker[w] = "none"
    /\ owner' = [owner EXCEPT ![w] = "closed"]
    /\ UNCHANGED <<files, holder, young, reapers>>

\* A directory or a file that has gone: cleanup, or Close, releases the lease
\* and removes the workspace.
Fail(w) ==
    /\ \/ owner[w] \in {"made", "leased", "keeping"} /\ ~Exists(w)
       \/ owner[w] \in Active /\ keep[w] /\ marker[w] = "none"
    /\ owner' = [owner EXCEPT ![w] = "closing"]
    /\ UNCHANGED <<files, holder, young, reapers>>

\* Close, at the end of the run or after an error before it, of a workspace
\* that is not kept
Discard(w) ==
    /\ \E from \in Active : Go(w, from, "closing")
    /\ UNCHANGED <<files, holder, young, reapers>>

\* releaseLease
Released(w) == [holder EXCEPT ![w] = IF @ = "owner" THEN "nobody" ELSE @]

ReleaseLease(w) ==
    /\ \/ Go(w, "closing", "removing")
       \/ Go(w, "retained", "released")
    /\ holder' = Released(w)
    /\ UNCHANGED <<files, young, reapers>>

\* Close of one that is: the marker is read,
Retain(w) ==
    /\ keep[w]
    /\ marker[w] = "active"
    /\ \E from \in Active : Go(w, from, "keeping")
    /\ UNCHANGED <<files, holder, young, reapers>>

\* truncated,
TruncateMarker(w) ==
    /\ Go(w, "keeping", "retaining")
    /\ OpenMarker(w)
    /\ UNCHANGED young

\* written with Retained,
WriteRetained(w) ==
    /\ Go(w, "retaining", "retained")
    /\ Written(w, "retained")
    /\ UNCHANGED <<place, source, lock, touched, holder, young, reapers>>

\* and, after ReleaseLease, the directory is moved to .trb/generated.
Move(w) ==
    /\ Exists(w)
    /\ Go(w, "released", "kept")
    /\ place' = [place EXCEPT ![w] = "generated"]
    /\ UNCHANGED <<source, marker, lock, touched, holder, young, reapers>>

MoveFails(w) ==
    /\ ~Exists(w)
    /\ Go(w, "released", "failed")
    /\ UNCHANGED <<files, holder, young, reapers>>

\* os.RemoveAll, for what is in the directory and for its name
RemoveContents(w) ==
    /\ source' = [source EXCEPT ![w] = "lost"]
    /\ marker' = [marker EXCEPT ![w] = "none"]
    /\ lock' = [lock EXCEPT ![w] = FALSE]
    /\ Touch(w)
    /\ UNCHANGED place

\* The name of a directory that is not empty any more stays.
RemoveName(w) ==
    /\ place' = [place EXCEPT ![w] =
          IF @ = "run" /\ source[w] # "whole" /\ marker[w] = "none" /\ ~lock[w]
          THEN "none" ELSE @]
    /\ UNCHANGED <<source, marker, lock, touched>>

OwnerRemoves(w) ==
    /\ \/ Exists(w) /\ Go(w, "removing", "emptied") /\ RemoveContents(w)
       \/ ~Exists(w) /\ Go(w, "removing", "closed") /\ UNCHANGED files
       \/ Go(w, "emptied", "closed") /\ RemoveName(w)
    /\ UNCHANGED <<holder, young, reapers>>

Ended == {"absent", "kept", "failed", "closed", "killed"}

\* The process is killed, or the system shuts down: the lock is gone with it.
Kill(w) ==
    /\ owner[w] \notin Ended
    /\ owner' = [owner EXCEPT ![w] = "killed"]
    /\ holder' = Released(w)
    /\ UNCHANGED <<files, young, reapers>>

-----------------------------------------------------------------------------
(* reapGeneratedWorkspaces, with removeUnknown *)

Step(r, from, to) == at[r] = from /\ at' = [at EXCEPT ![r] = to] /\ UNCHANGED of

\* The next entry of os.ReadDir
Select(r, w) ==
    /\ at[r] = "idle"
    /\ Exists(w)
    /\ at' = [at EXCEPT ![r] = "reading"]
    /\ of' = [of EXCEPT ![r] = w]
    /\ UNCHANGED <<owner, files, holder, young>>

\* A marker that is missing or cannot be decoded makes the workspace unknown.
ReadMarker(r) ==
    /\ \/ marker[of[r]] \in {"none", "empty"} /\ Step(r, "reading", "unknown")
       \/ marker[of[r]] = "active" /\ Step(r, "reading", "known")
       \/ marker[of[r]] = "retained" /\ Step(r, "reading", "idle")
    /\ UNCHANGED <<owner, files, holder, young>>

\* Mutated: an unknown workspace is left alone, whatever its age.
SkipUnknown(r) ==
    /\ Step(r, "unknown", "idle")
    /\ UNCHANGED <<owner, files, holder, young>>

\* workspaceIsWithinCreationGrace
CheckAge(r) ==
    /\ \/ Exists(of[r]) /\ touched[of[r]] /\ Step(r, "unknown", "idle")
       \/ ~(Exists(of[r]) /\ touched[of[r]]) /\ Step(r, "unknown", "removing")
    /\ UNCHANGED <<owner, files, holder, young>>

OpenLease(r) ==
    LET found == Exists(of[r]) /\ lock[of[r]] IN
    /\ \/ found /\ Step(r, "known", "opened")
       \/ ~found /\ young[of[r]] /\ Step(r, "known", "idle")
       \/ ~found /\ ~young[of[r]] /\ Step(r, "known", "removing")
    /\ UNCHANGED <<owner, files, holder, young>>

\* Mutated: a lease that is taken does not stop the reaper.
TryAny(r) ==
    /\ Step(r, "opened", "locked")
    /\ UNCHANGED <<owner, files, holder, young>>

\* acquireWorkspaceLease, which does not wait
TryLease(r) ==
    /\ \/ /\ holder[of[r]] = "nobody"
          /\ Step(r, "opened", "locked")
          /\ holder' = [holder EXCEPT ![of[r]] = r]
       \/ /\ holder[of[r]] # "nobody"
          /\ Step(r, "opened", "idle")
          /\ UNCHANGED holder
    /\ UNCHANGED <<owner, files, young>>

Dropped(r) == [w \in Workspaces |-> IF holder[w] = r THEN "nobody" ELSE holder[w]]

\* The lease is released before the removal.
DropLease(r) ==
    /\ Step(r, "locked", "removing")
    /\ holder' = Dropped(r)
    /\ UNCHANGED <<owner, files, young>>

ReaperRemoves(r) ==
    /\ \/ Exists(of[r]) /\ Step(r, "removing", "inside") /\ UNCHANGED files
       \/ ~Exists(of[r]) /\ Step(r, "removing", "idle") /\ UNCHANGED files
       \/ Step(r, "inside", "emptied") /\ RemoveContents(of[r])
       \/ Step(r, "emptied", "idle") /\ RemoveName(of[r])
    /\ UNCHANGED <<owner, holder, young>>

KillReaper(r) ==
    /\ r \in Mortal
    /\ at[r] # "dead"
    /\ at' = [at EXCEPT ![r] = "dead"]
    /\ holder' = Dropped(r)
    /\ UNCHANGED <<owner, files, young, of>>

-----------------------------------------------------------------------------
\* trb clean --generated
CleanGenerated(w) ==
    /\ place[w] = "generated"
    /\ place' = [place EXCEPT ![w] = "none"]
    /\ source' = [source EXCEPT ![w] = "lost"]
    /\ UNCHANGED <<owner, marker, lock, touched, holder, young, reapers>>

\* A minute passes.
Age(w) ==
    /\ prompt =>
          \/ owner[w] \in Ended
          \/ /\ owner[w] \in Active
             /\ \A r \in Reapers : of[r] = w => at[r] \in {"idle", "dead"}
    /\ young[w] \/ touched[w]
    /\ young' = [young EXCEPT ![w] = FALSE]
    /\ touched' = [touched EXCEPT ![w] = FALSE]
    /\ UNCHANGED <<owner, place, source, marker, lock, holder, reapers>>

Run(w) ==
    \/ Create(w) \/ CreateLease(w) \/ AcquireLease(w) \/ CreateMarker(w) \/ WriteMarker(w)
    \/ WriteSource(w) \/ Fail(w) \/ Discard(w) \/ Retain(w) \/ TruncateMarker(w)
    \/ WriteRetained(w)
    \/ ReleaseLease(w) \/ Move(w) \/ MoveFails(w) \/ OwnerRemoves(w)

Reap(r) ==
    \/ \E w \in Workspaces : Select(r, w)
    \/ ReadMarker(r) \/ CheckAge(r) \/ OpenLease(r) \/ TryLease(r) \/ DropLease(r)
    \/ ReaperRemoves(r)

Next ==
    /\ \/ \E w \in Workspaces : Run(w) \/ Kill(w) \/ CleanGenerated(w) \/ Age(w)
       \/ \E r \in Reapers : Reap(r) \/ KillReaper(r)
    /\ UNCHANGED settings

Spec == Init /\ [][Next]_vars
=============================================================================
