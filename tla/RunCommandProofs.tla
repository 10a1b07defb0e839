--------------------------- MODULE RunCommandProofs ---------------------------
(***************************************************************************)
(* A command, with its relay and its program, keeps to the protocol of the *)
(* workspaces, so that what is proved of them holds of it; and the process *)
(* it has started keeps its source.                                        *)
(***************************************************************************)
EXTENDS RunCommandProperties, TLAPS

-----------------------------------------------------------------------------
(* Workspaces and reapers                                                  *)

\* The reapers that look at w are at one of these points.
ReapersAt(w, points) == \A r \in Reapers : of[r] = w => at[r] \in points

\* Nobody has seen a workspace that is not there.
AbsentUnseen(w) ==
    owner[w] = "absent" =>
        /\ place[w] = "none"
        /\ marker[w] = "none"
        /\ ReapersAt(w, {"idle", "dead"})

\* A workspace that is being made is touched too recently to be removed.
MakingFresh(w) ==
    owner[w] \in {"made", "opened", "leased", "marking"} =>
        /\ place[w] = "run"
        /\ touched[w]
        /\ marker[w] = IF owner[w] = "marking" THEN "empty" ELSE "none"
        /\ owner[w] # "made" => lock[w]
        /\ owner[w] \in {"leased", "marking"} => holder[w] = "owner"
        /\ ReapersAt(w, {"idle", "reading", "unknown", "dead"})

\* An active one is leased, and a reaper that saw it without its marker finds it
\* touched too recently.
ActiveLeased(w) ==
    owner[w] \in Active =>
        /\ place[w] = "run"
        /\ marker[w] = "active"
        /\ lock[w]
        /\ holder[w] = "owner"
        /\ owner[w] = "running" => source[w] = "whole"
        /\ ReapersAt(w, {"idle", "reading", "unknown", "known", "opened", "dead"})
        /\ \A r \in Reapers : of[r] = w /\ at[r] = "unknown" => touched[w]

Protected(w) == AbsentUnseen(w) /\ MakingFresh(w) /\ ActiveLeased(w)

IInv == TypeOK /\ (prompt => \A w \in Workspaces : Protected(w))

\* Only a workspace that is kept is moved, and what its process has emptied
\* stays empty, so that the name can be removed.
Emptied(w) ==
    /\ place[w] = "generated" => owner[w] = "kept"
    /\ owner[w] = "emptied" /\ place[w] = "run" =>
          source[w] # "whole" /\ marker[w] = "none" /\ ~lock[w]
    /\ owner[w] = "closed" => place[w] = "none"

EInv == TypeOK /\ \A w \in Workspaces : Emptied(w)

-----------------------------------------------------------------------------
\* Every step keeps the types.
LEMMA TypeStep == TypeOK /\ [Next]_vars => TypeOK'
<1> SUFFICES ASSUME TypeOK, [Next]_vars PROVE TypeOK'
  OBVIOUS
<1>0. UNCHANGED settings
  BY DEF Next, vars
<1> USE <1>0 DEF TypeOK, Holders, Ended, Active, Go, Exists, Touch, Released, Written, OpenMarker,
        RemoveContents, RemoveName, Step, Dropped, files, reapers, settings
<1>1. ASSUME NEW w \in Workspaces, Run(w) PROVE TypeOK'
  <2>1. CASE Create(w) BY <2>1 DEF Create
  <2>2. CASE CreateLease(w) BY <2>2 DEF CreateLease
  <2>3. CASE AcquireLease(w) BY <2>3 DEF AcquireLease
  <2>4. CASE CreateMarker(w) BY <2>4 DEF CreateMarker
  <2>5. CASE WriteMarker(w) BY <2>5 DEF WriteMarker
  <2>6. CASE WriteSource(w) BY <2>6 DEF WriteSource
  <2>7. CASE Fail(w) BY <2>7 DEF Fail
  <2>8. CASE Discard(w) BY <2>8 DEF Discard
  <2>9. CASE Retain(w) BY <2>9 DEF Retain
  <2>10. CASE TruncateMarker(w) BY <2>10 DEF TruncateMarker
  <2>11. CASE WriteRetained(w) BY <2>11 DEF WriteRetained
  <2>12. CASE ReleaseLease(w) BY <2>12 DEF ReleaseLease
  <2>13. CASE Move(w) BY <2>13 DEF Move
  <2>14. CASE MoveFails(w) BY <2>14 DEF MoveFails
  <2>15. CASE OwnerRemoves(w)
    <3>1. CASE RemoveContents(w) BY <2>15, <3>1 DEF OwnerRemoves
    <3>2. CASE RemoveName(w) BY <2>15, <3>2 DEF OwnerRemoves
    <3>3. CASE UNCHANGED files BY <2>15, <3>3 DEF OwnerRemoves
    <3> QED BY <2>15, <3>1, <3>2, <3>3 DEF OwnerRemoves
  <2> QED BY <1>1, <2>1, <2>2, <2>3, <2>4, <2>5, <2>6, <2>7, <2>8, <2>9, <2>10, <2>11,
             <2>12, <2>13, <2>14, <2>15 DEF Run
<1>2. ASSUME NEW w \in Workspaces, Kill(w) \/ CleanGenerated(w) \/ Age(w) PROVE TypeOK'
  <2>1. CASE Kill(w) BY <2>1 DEF Kill
  <2>2. CASE CleanGenerated(w) BY <2>2 DEF CleanGenerated
  <2>3. CASE Age(w) BY <2>3 DEF Age
  <2> QED BY <1>2, <2>1, <2>2, <2>3
<1>3. ASSUME NEW r \in Reapers, Reap(r) PROVE TypeOK'
  <2>1. ASSUME NEW w \in Workspaces, Select(r, w) PROVE TypeOK'
    BY <2>1 DEF Select
  <2>2. CASE ReadMarker(r) BY <2>2 DEF ReadMarker
  <2>3. CASE CheckAge(r) BY <2>3 DEF CheckAge
  <2>4. CASE OpenLease(r) BY <2>4 DEF OpenLease
  <2>5. CASE TryLease(r) BY <2>5 DEF TryLease
  <2>6. CASE DropLease(r) BY <2>6 DEF DropLease
  <2>7. CASE ReaperRemoves(r)
    <3>1. CASE RemoveContents(of[r]) BY <2>7, <3>1 DEF ReaperRemoves
    <3>2. CASE RemoveName(of[r]) BY <2>7, <3>2 DEF ReaperRemoves
    <3>3. CASE UNCHANGED files BY <2>7, <3>3 DEF ReaperRemoves
    <3> QED BY <2>7, <3>1, <3>2, <3>3 DEF ReaperRemoves
  <2> QED BY <1>3, <2>1, <2>2, <2>3, <2>4, <2>5, <2>6, <2>7 DEF Reap
<1>4. ASSUME NEW r \in Reapers, KillReaper(r) PROVE TypeOK'
  BY <1>4 DEF KillReaper
<1>5. CASE UNCHANGED vars
  BY <1>5 DEF vars
<1> QED BY <1>1, <1>2, <1>3, <1>4, <1>5 DEF Next

-----------------------------------------------------------------------------
\* What a step leaves alone keeps its protection.
LEMMA Elsewhere ==
    ASSUME NEW w \in Workspaces, Protected(w), UNCHANGED reapers,
           owner'[w] = owner[w], place'[w] = place[w], source'[w] = source[w],
           marker'[w] = marker[w], lock'[w] = lock[w], holder'[w] = holder[w],
           touched'[w] = touched[w]
    PROVE  Protected(w)'
BY DEF Protected, AbsentUnseen, MakingFresh, ActiveLeased, ReapersAt, reapers

\* The process of a workspace keeps it protected, and disturbs no other one.
LEMMA RunStep ==
    ASSUME IInv, prompt, NEW v \in Workspaces, Run(v) \/ Kill(v) \/ CleanGenerated(v), NEW w \in Workspaces
    PROVE  Protected(w)'
<1> USE DEF TypeOK, Holders, Go, Exists, Touch, Released, Written, OpenMarker, RemoveContents,
        RemoveName, files, reapers
<1>1. CASE w # v
  <2>1. /\ UNCHANGED reapers
        /\ owner'[w] = owner[w] /\ place'[w] = place[w] /\ source'[w] = source[w]
        /\ marker'[w] = marker[w] /\ lock'[w] = lock[w] /\ holder'[w] = holder[w]
        /\ touched'[w] = touched[w]
    <3>1. CASE Create(v) BY <1>1, <3>1 DEF Create, IInv
    <3>2. CASE CreateLease(v) BY <1>1, <3>2 DEF CreateLease, IInv
    <3>3. CASE AcquireLease(v) BY <1>1, <3>3 DEF AcquireLease, IInv
    <3>4. CASE CreateMarker(v) BY <1>1, <3>4 DEF CreateMarker, IInv
    <3>5. CASE WriteMarker(v) BY <1>1, <3>5 DEF WriteMarker, IInv
    <3>6. CASE WriteSource(v) BY <1>1, <3>6 DEF WriteSource, IInv
    <3>7. CASE Fail(v) BY <1>1, <3>7 DEF Fail, IInv
    <3>8. CASE Discard(v) BY <1>1, <3>8 DEF Discard, IInv
    <3>9. CASE Retain(v) BY <1>1, <3>9 DEF Retain, IInv
    <3>10. CASE TruncateMarker(v) BY <1>1, <3>10 DEF TruncateMarker, IInv
    <3>11. CASE WriteRetained(v) BY <1>1, <3>11 DEF WriteRetained, IInv
    <3>12. CASE ReleaseLease(v) BY <1>1, <3>12 DEF ReleaseLease, IInv
    <3>13. CASE Move(v) BY <1>1, <3>13 DEF Move, IInv
    <3>14. CASE MoveFails(v) BY <1>1, <3>14 DEF MoveFails, IInv
    <3>15. CASE OwnerRemoves(v) BY <1>1, <3>15 DEF OwnerRemoves, IInv
    <3>16. CASE Kill(v) BY <1>1, <3>16 DEF Kill, IInv
    <3>17. CASE CleanGenerated(v) BY <1>1, <3>17 DEF CleanGenerated, IInv
    <3> QED BY <3>1, <3>2, <3>3, <3>4, <3>5, <3>6, <3>7, <3>8, <3>9, <3>10, <3>11, <3>12,
               <3>13, <3>14, <3>15, <3>16, <3>17 DEF Run
  <2> QED BY <2>1, Elsewhere DEF IInv
<1>2. CASE w = v
  <2> USE <1>2 DEF IInv, Protected, AbsentUnseen, MakingFresh, ActiveLeased, ReapersAt, Active, Ended
  <2>1. CASE Create(v) BY <2>1 DEF Create
  <2>2. CASE CreateLease(v) BY <2>2 DEF CreateLease
  <2>3. CASE AcquireLease(v) BY <2>3 DEF AcquireLease
  <2>4. CASE CreateMarker(v) BY <2>4 DEF CreateMarker
  <2>5. CASE WriteMarker(v) BY <2>5 DEF WriteMarker
  <2>6. CASE WriteSource(v) BY <2>6 DEF WriteSource
  <2>7. CASE Fail(v) BY <2>7 DEF Fail
  <2>8. CASE Discard(v) BY <2>8 DEF Discard
  <2>9. CASE Retain(v) BY <2>9 DEF Retain
  <2>10. CASE TruncateMarker(v) BY <2>10 DEF TruncateMarker
  <2>11. CASE WriteRetained(v) BY <2>11 DEF WriteRetained
  <2>12. CASE ReleaseLease(v) BY <2>12 DEF ReleaseLease
  <2>13. CASE Move(v) BY <2>13 DEF Move
  <2>14. CASE MoveFails(v) BY <2>14 DEF MoveFails
  <2>15. CASE OwnerRemoves(v) BY <2>15 DEF OwnerRemoves
  <2>16. CASE Kill(v) BY <2>16 DEF Kill
  <2>17. CASE CleanGenerated(v) BY <2>17 DEF CleanGenerated
  <2> QED BY <2>1, <2>2, <2>3, <2>4, <2>5, <2>6, <2>7, <2>8, <2>9, <2>10, <2>11, <2>12,
             <2>13, <2>14, <2>15, <2>16, <2>17 DEF Run
<1> QED BY <1>1, <1>2

\* Time does not pass while a reaper looks at an active workspace.
LEMMA AgeStep ==
    ASSUME IInv, prompt, NEW v \in Workspaces, Age(v), NEW w \in Workspaces
    PROVE  Protected(w)'
<1>1. CASE w # v
  BY <1>1, Elsewhere DEF Age, IInv, TypeOK, reapers
<1>2. CASE w = v
  <2>1. CASE owner[w] \in Ended
    BY <1>2, <2>1 DEF Age, IInv, TypeOK, Protected, AbsentUnseen, MakingFresh, ActiveLeased,
          ReapersAt, Ended, Active, reapers
  <2>2. CASE owner[w] \in Active /\ ReapersAt(w, {"idle", "dead"})
    BY <1>2, <2>2 DEF Age, IInv, TypeOK, Protected, AbsentUnseen, MakingFresh, ActiveLeased,
          ReapersAt, Active, reapers
  <2> QED BY <1>2, <2>1, <2>2 DEF Age, ReapersAt
<1> QED BY <1>1, <1>2

\* A reaper removes no workspace that is being made or active.
LEMMA ReapStep ==
    ASSUME IInv, prompt, NEW r \in Reapers, Reap(r) \/ KillReaper(r), NEW w \in Workspaces
    PROVE  Protected(w)'
<1> USE WorkspacesAssumption DEF IInv, TypeOK, Holders, Exists, Touch, Dropped, RemoveContents,
        RemoveName, Step, files, Protected, AbsentUnseen, MakingFresh, ActiveLeased, ReapersAt,
        Active
<1>1. ASSUME NEW v \in Workspaces, Select(r, v) PROVE Protected(w)'
  BY <1>1 DEF Select
<1>2. CASE ReadMarker(r) BY <1>2 DEF ReadMarker
<1>3. CASE CheckAge(r) BY <1>3 DEF CheckAge
<1>4. CASE OpenLease(r) BY <1>4 DEF OpenLease
<1>5. CASE TryLease(r) BY <1>5 DEF TryLease
<1>6. CASE DropLease(r) BY <1>6 DEF DropLease
<1>7. CASE ReaperRemoves(r) BY <1>7 DEF ReaperRemoves
<1>8. CASE KillReaper(r) BY <1>8 DEF KillReaper
<1> QED BY <1>1, <1>2, <1>3, <1>4, <1>5, <1>6, <1>7, <1>8 DEF Reap

\* Every variable stays within its type.
THEOREM TypeCorrect == Spec => []TypeOK
<1>1. Init => TypeOK
  BY DEF Init, TypeOK, Holders, Ended
<1> QED BY <1>1, TypeStep, PTL DEF Spec

\* The documentation's "A lease protects every active project workspace": no
\* reaper of another run, killed or not, takes away a workspace in use.
THEOREM LeaseIsProtection == Spec => []LeaseProtects
<1>1. Init => IInv
  BY DEF Init, IInv, TypeOK, Holders, Ended, Active, Protected, AbsentUnseen, MakingFresh,
         ActiveLeased, ReapersAt
<1>2. IInv /\ [Next]_vars => IInv'
  <2> SUFFICES ASSUME IInv, [Next]_vars PROVE IInv'
    OBVIOUS
  <2>1. TypeOK'
    BY TypeStep DEF IInv
  <2>2. prompt' = prompt
    BY DEF Next, vars, settings
  <2>3. ASSUME prompt, NEW w \in Workspaces PROVE Protected(w)'
    <3>1. CASE UNCHANGED vars
      BY <2>3, <3>1, Elsewhere DEF IInv, vars, files, reapers
    <3>2. CASE \E v \in Workspaces : Run(v) \/ Kill(v) \/ CleanGenerated(v)
      BY <2>3, <3>2, RunStep
    <3>3. CASE \E v \in Workspaces : Age(v)
      BY <2>3, <3>3, AgeStep
    <3>4. CASE \E r \in Reapers : Reap(r) \/ KillReaper(r)
      BY <2>3, <3>4, ReapStep
    <3> QED BY <3>1, <3>2, <3>3, <3>4 DEF Next
  <2> QED BY <2>1, <2>2, <2>3 DEF IInv
<1>3. IInv => LeaseProtects
  BY DEF IInv, LeaseProtects, Protected, ActiveLeased, Active
<1> QED BY <1>1, <1>2, <1>3, PTL DEF Spec

-----------------------------------------------------------------------------
\* A workspace whose process, place and contents a step leaves alone
LEMMA EmptiedElsewhere ==
    ASSUME NEW w \in Workspaces, Emptied(w), owner'[w] = owner[w], place'[w] = place[w],
           source'[w] = source[w], marker'[w] = marker[w], lock'[w] = lock[w]
    PROVE  Emptied(w)'
BY DEF Emptied

\* The process of a workspace empties its directory before it removes the name,
\* and puts nothing into it afterwards.
LEMMA EmptiedByOwner ==
    ASSUME EInv, NEW v \in Workspaces, Run(v) \/ Kill(v) \/ CleanGenerated(v) \/ Age(v),
           NEW w \in Workspaces
    PROVE  Emptied(w)'
<1> USE DEF EInv, TypeOK, Holders, Go, Exists, Touch, Released, Written, OpenMarker,
        RemoveContents, RemoveName, files, reapers, Emptied, Active, Ended
<1>1. CASE Create(v) BY <1>1 DEF Create
<1>2. CASE CreateLease(v) BY <1>2 DEF CreateLease
<1>3. CASE AcquireLease(v) BY <1>3 DEF AcquireLease
<1>4. CASE CreateMarker(v) BY <1>4 DEF CreateMarker
<1>5. CASE WriteMarker(v) BY <1>5 DEF WriteMarker
<1>6. CASE WriteSource(v) BY <1>6 DEF WriteSource
<1>7. CASE Fail(v) BY <1>7 DEF Fail
<1>8. CASE Discard(v) BY <1>8 DEF Discard
<1>9. CASE Retain(v) BY <1>9 DEF Retain
<1>10. CASE TruncateMarker(v) BY <1>10 DEF TruncateMarker
<1>11. CASE WriteRetained(v) BY <1>11 DEF WriteRetained
<1>12. CASE ReleaseLease(v) BY <1>12 DEF ReleaseLease
<1>13. CASE Move(v) BY <1>13 DEF Move
<1>14. CASE MoveFails(v) BY <1>14 DEF MoveFails
<1>15. CASE OwnerRemoves(v) BY <1>15 DEF OwnerRemoves
<1>16. CASE Kill(v) BY <1>16 DEF Kill
<1>17. CASE CleanGenerated(v) BY <1>17 DEF CleanGenerated
<1>18. CASE Age(v) BY <1>18 DEF Age
<1> QED BY <1>1, <1>2, <1>3, <1>4, <1>5, <1>6, <1>7, <1>8, <1>9, <1>10, <1>11, <1>12, <1>13,
           <1>14, <1>15, <1>16, <1>17, <1>18 DEF Run

\* A reaper only takes away.
LEMMA EmptiedByReaper ==
    ASSUME EInv, NEW r \in Reapers, Reap(r) \/ KillReaper(r), NEW w \in Workspaces
    PROVE  Emptied(w)'
<1> USE DEF EInv, TypeOK, files, Step
<1>1. CASE UNCHANGED <<owner, place, source, marker, lock>>
  BY <1>1, EmptiedElsewhere
<1>2. CASE ReaperRemoves(r)
  <2>1. CASE RemoveContents(of[r]) BY <1>2, <2>1 DEF ReaperRemoves, RemoveContents, Emptied
  <2>2. CASE RemoveName(of[r]) BY <1>2, <2>2 DEF ReaperRemoves, RemoveName, Emptied
  <2>3. CASE UNCHANGED files BY <1>2, <2>3, <1>1 DEF ReaperRemoves
  <2> QED BY <1>2, <2>1, <2>2, <2>3 DEF ReaperRemoves
<1>3. CASE Reap(r) /\ ~ReaperRemoves(r)
  BY <1>1, <1>3 DEF Reap, Select, ReadMarker, CheckAge, OpenLease, TryLease, DropLease
<1>4. CASE KillReaper(r)
  BY <1>1, <1>4 DEF KillReaper
<1> QED BY <1>2, <1>3, <1>4

\* A run that comes to its end leaves nothing below .trb/run, even when another
\* process, which took it for abandoned, removes the same directory meanwhile.
THEOREM ClosedLeavesNothing == Spec => []NothingLeft
<1>1. Init => EInv
  BY DEF Init, EInv, TypeOK, Holders, Ended, Emptied
<1>2. EInv /\ [Next]_vars => EInv'
  <2> SUFFICES ASSUME EInv, [Next]_vars PROVE EInv'
    OBVIOUS
  <2>1. TypeOK'
    BY TypeStep DEF EInv
  <2>2. ASSUME NEW w \in Workspaces PROVE Emptied(w)'
    <3>1. CASE UNCHANGED vars
      BY <3>1, EmptiedElsewhere DEF EInv, vars, files
    <3>2. CASE \E v \in Workspaces : Run(v) \/ Kill(v) \/ CleanGenerated(v) \/ Age(v)
      BY <3>2, EmptiedByOwner
    <3>3. CASE \E r \in Reapers : Reap(r) \/ KillReaper(r)
      BY <3>3, EmptiedByReaper
    <3> QED BY <3>1, <3>2, <3>3 DEF Next
  <2> QED BY <2>1, <2>2 DEF EInv
<1>3. EInv => NothingLeft
  BY DEF EInv, Emptied, NothingLeft
<1> QED BY <1>1, <1>2, <1>3, PTL DEF Spec

-----------------------------------------------------------------------------
(* The command, its relay and its program                                  *)

ServerStates == {"none", "booting", "serving", "noticing", "draining", "exited"}
ConnStates == {"closed", "idle", "busy", "orphan", "cut"}

ProgramTypeOK ==
    /\ server \in ServerStates
    /\ conn \in [Connections -> ConnStates]
    /\ heard \subseteq Kinds
    /\ limit \in BOOLEAN

RelayTypeOK ==
    /\ relay \in {"none", "open", "closed"}
    /\ signals \in Seq(Kinds) /\ Len(signals) <= 2
    /\ run \in {"before", "first", "second", "reaping", "returned", "gone"}
    /\ launcher \in {"none", "up", "gone"}
    /\ terminal \in BOOLEAN
    /\ backend \in {"go", "ruby", "typescript"}
    /\ sent \in 0 .. SignalBound

\* The child runs between its start and the return of Wait, and the workspace is
\* in use all that time.
Attended ==
    /\ backend # "go" => launcher = "none"
    /\ ChildRuns => run \in {"first", "second", "reaping", "gone"}
    /\ run \in {"first", "second", "reaping"} => owner[Command] = "running"
    /\ run = "gone" => owner[Command] = "killed"

-----------------------------------------------------------------------------
\* Every step of the command is one of the workspaces' protocol, or leaves the
\* workspaces alone.
LEMMA CommandStep == [CommandNext]_commandVars => [Next]_vars
<1> SUFFICES ASSUME [CommandNext]_commandVars PROVE [Next]_vars
  OBVIOUS
<1>1. CASE UNCHANGED commandVars
  BY <1>1 DEF commandVars, workspace, vars
<1>2. CASE Trb
  <2>1. CASE Workspace
    BY <2>1, CommandAssumption DEF Workspace, Next
  <2>2. CASE OpenRelay \/ Start \/ Wait \/ Forward \/ ForceStop \/ CloseRelay
    BY <2>2 DEF OpenRelay, Start, Wait, Forward, ForceStop, CloseRelay, workspace, vars
  <2> QED BY <1>2, <2>1, <2>2 DEF Trb
<1>3. CASE Launch \/ Program \/ Interrupt \/ \E kind \in Kinds : Signal(kind)
  BY <1>3 DEF Launch, Program, Interrupt, Signal, workspace, vars
<1>4. CASE KillCommand
  BY <1>4, CommandAssumption DEF KillCommand, Next
<1>5. CASE OtherCommands
  BY <1>5 DEF OtherCommands, Next
<1> QED BY <1>1, <1>2, <1>3, <1>4, <1>5 DEF CommandNext

\* The command refines the workspaces: no order of signals, timers and returns
\* makes it leave their protocol.
THEOREM CommandImplementsWorkspaces == CommandSpec => Spec
<1>1. CommandInit => Init
  BY DEF CommandInit
<1> QED BY <1>1, CommandStep, PTL DEF CommandSpec, Spec

-----------------------------------------------------------------------------
(* Types *)

\* The operations of the server that only its process takes
LEMMA ServeType ==
    ASSUME ProgramTypeOK, Serve PROVE ProgramTypeOK'
<1> USE DEF ProgramTypeOK, ServerStates, ConnStates, Exits, CutOff, Kinds
<1>1. CASE Listen BY <1>1 DEF Listen
<1>2. CASE Stop BY <1>2 DEF Stop
<1>3. CASE TimeUp BY <1>3 DEF TimeUp
<1>4. CASE CutRequests
  <2>1. CASE backend = "typescript" BY <1>4, <2>1 DEF CutRequests
  <2>2. CASE backend # "typescript" BY <1>4, <2>2 DEF CutRequests
  <2> QED BY <2>1, <2>2
<1>5. CASE Finish BY <1>5 DEF Finish
<1>6. ASSUME NEW c \in Connections,
             \/ CloseIdle(c) \/ Connect(c) \/ Request(c) \/ Respond(c) \/ Leave(c) \/ HandlerEnds(c)
      PROVE  ProgramTypeOK'
  BY <1>6 DEF CloseIdle, Connect, Request, Respond, Leave, HandlerEnds
<1> QED BY <1>1, <1>2, <1>3, <1>4, <1>5, <1>6 DEF Serve, Drain

\* and what others do to it
LEMMA ToldType ==
    ASSUME ProgramTypeOK, NEW kind \in Kinds, Boot \/ Hear(kind) \/ Killed \/ UNCHANGED program
    PROVE  ProgramTypeOK'
<1> USE DEF ProgramTypeOK, ServerStates, ConnStates, Exits, CutOff, program
<1>1. CASE Boot BY <1>1 DEF Boot
<1>2. CASE Hear(kind) BY <1>2 DEF Hear
<1>3. CASE Killed BY <1>3 DEF Killed
<1>4. CASE UNCHANGED program BY <1>4
<1> QED BY <1>1, <1>2, <1>3, <1>4

\* A signal taken from the channel, or put into it
LEMMA ChannelType ==
    ASSUME signals \in Seq(Kinds), Len(signals) <= 2
    PROVE  /\ signals # <<>> =>
                 Head(signals) \in Kinds /\ Tail(signals) \in Seq(Kinds) /\ Len(Tail(signals)) <= 2
           /\ \A kind \in Kinds : Len(signals) < 2 =>
                 Append(signals, kind) \in Seq(Kinds) /\ Len(Append(signals, kind)) <= 2
OBVIOUS

\* A command starts within its types,
LEMMA TypeAtStart ==
    ASSUME CommandInit PROVE ProgramTypeOK /\ RelayTypeOK
<1>1. ProgramTypeOK
  BY DEF CommandInit, WebInit, ProgramTypeOK, ServerStates, ConnStates, Kinds
<1>2. signals \in Seq(Kinds) /\ Len(signals) <= 2
  BY DEF CommandInit
<1>3. sent \in 0 .. SignalBound
  BY CommandAssumption DEF CommandInit
<1>4. RelayTypeOK
  BY <1>2, <1>3 DEF CommandInit, WebInit, RelayTypeOK
<1> QED BY <1>1, <1>4

\* and every step of the command, its program and the signals keeps them.
LEMMA TypeKept ==
    ASSUME ProgramTypeOK, RelayTypeOK, [CommandNext]_commandVars
    PROVE  ProgramTypeOK' /\ RelayTypeOK'
<1>1. UNCHANGED <<backend, terminal>>
  BY DEF CommandNext, commandVars
<1>2. \A kind \in Kinds : LauncherAfter(kind) \in {"none", "up", "gone"}
  BY DEF LauncherAfter, RelayTypeOK
<1>3. CASE UNCHANGED commandVars
  BY <1>3 DEF commandVars, command, program, ProgramTypeOK, RelayTypeOK
<1>4. CASE OpenRelay \/ Workspace \/ Wait \/ CloseRelay
  BY <1>1, <1>4 DEF OpenRelay, Workspace, Wait, CloseRelay, command, program, ProgramTypeOK,
        RelayTypeOK
<1>5. CASE Start
  <2>1. ProgramTypeOK'
    BY <1>5, ToldType DEF Start, Kinds
  <2>2. RelayTypeOK'
    BY <1>1, <1>5 DEF Start, RelayTypeOK
  <2> QED BY <2>1, <2>2
<1>6. CASE Forward
  <2>1. Head(signals) \in Kinds /\ Tail(signals) \in Seq(Kinds) /\ Len(Tail(signals)) <= 2
    BY <1>6, ChannelType DEF Forward, RelayTypeOK
  <2>2. ProgramTypeOK'
    BY <1>6, <2>1, ToldType DEF Forward, Forwarded, GroupHears, ChildHears
  <2>3. launcher' \in {"none", "up", "gone"}
    BY <1>2, <1>6, <2>1 DEF Forward, Forwarded, GroupHears, ChildHears, RelayTypeOK
  <2>4. RelayTypeOK'
    BY <1>1, <1>6, <2>1, <2>3 DEF Forward, RelayTypeOK
  <2> QED BY <2>2, <2>4
<1>7. CASE ForceStop
  <2>1. ProgramTypeOK'
    BY <1>7, ToldType DEF ForceStop, Kinds
  <2>2. signals' \in Seq(Kinds) /\ Len(signals') <= 2
    BY <1>7, ChannelType DEF ForceStop, RelayTypeOK
  <2>3. RelayTypeOK'
    BY <1>1, <1>7, <2>2 DEF ForceStop, RelayTypeOK
  <2> QED BY <2>1, <2>3
<1>8. CASE Launch
  <2>1. ProgramTypeOK'
    BY <1>8, ToldType DEF Launch, Kinds
  <2>2. RelayTypeOK'
    BY <1>1, <1>8 DEF Launch, RelayTypeOK, command
  <2> QED BY <2>1, <2>2
<1>9. CASE Program
  <2>1. ProgramTypeOK'
    BY <1>9, ServeType DEF Program
  <2>2. RelayTypeOK'
    BY <1>1, <1>9 DEF Program, RelayTypeOK, command
  <2> QED BY <2>1, <2>2
<1>10. ASSUME NEW kind \in Kinds, Notified(kind)
       PROVE  sent' \in 0 .. SignalBound /\ signals' \in Seq(Kinds) /\ Len(signals') <= 2
  BY <1>10, ChannelType, CommandAssumption DEF Notified, RelayTypeOK
<1>11. ASSUME NEW kind \in Kinds, Signal(kind) PROVE ProgramTypeOK' /\ RelayTypeOK'
  BY <1>1, <1>10, <1>11 DEF Signal, program, ProgramTypeOK, RelayTypeOK
<1>12. CASE Interrupt
  <2>1. ProgramTypeOK'
    BY <1>12, ToldType DEF Interrupt, GroupHears, Kinds
  <2>2. launcher' \in {"none", "up", "gone"}
    BY <1>2, <1>12 DEF Interrupt, GroupHears, Kinds
  <2>3. RelayTypeOK'
    BY <1>1, <1>10, <1>12, <2>2 DEF Interrupt, RelayTypeOK, Kinds
  <2> QED BY <2>1, <2>3
<1>13. CASE KillCommand \/ OtherCommands
  BY <1>1, <1>13 DEF KillCommand, OtherCommands, command, program, ProgramTypeOK, RelayTypeOK
<1> QED BY <1>3, <1>4, <1>5, <1>6, <1>7, <1>8, <1>9, <1>11, <1>12, <1>13 DEF CommandNext, Trb

\* Every variable of the command, its program and its workspaces stays within
\* its type; in particular the relay's channel never holds more than two.
THEOREM CommandTypeCorrect == CommandSpec => []CommandTypeOK
<1>1. CommandInit => ProgramTypeOK /\ RelayTypeOK
  BY TypeAtStart
<1>2. TypeOK /\ ProgramTypeOK /\ RelayTypeOK => CommandTypeOK
  BY DEF ProgramTypeOK, RelayTypeOK, ServerStates, ConnStates, CommandTypeOK
<1> QED BY <1>1, <1>2, TypeKept, CommandImplementsWorkspaces, TypeCorrect, PTL DEF CommandSpec

-----------------------------------------------------------------------------
(* The child and its source *)

\* A step of the program, or of a signal to it, starts no child.
LEMMA NotStarted ==
    ASSUME Serve \/ Killed \/ UNCHANGED program \/ \E kind \in Kinds : Hear(kind)
    PROVE  Alive' => Alive
<1>1. CASE Serve
  BY <1>1 DEF Serve, Listen, Drain, Stop, TimeUp, CutRequests, Finish, CloseIdle, Connect, Request,
              Respond, Leave, HandlerEnds, Exits, Alive
<1>2. CASE Killed \/ UNCHANGED program
  BY <1>2 DEF Killed, Exits, program, Alive
<1>3. ASSUME NEW kind \in Kinds, Hear(kind) PROVE Alive' => Alive
  BY <1>3 DEF Hear, Exits, program, Alive
<1> QED BY <1>1, <1>2, <1>3

\* Only the command itself and a kill end the use of its workspace.
LEMMA OwnerKept ==
    ASSUME TypeOK, OtherCommands PROVE owner'[Command] = owner[Command]
<1> USE CommandAssumption DEF TypeOK, Go
<1>1. ASSUME NEW w \in Workspaces \ {Command}, Run(w) \/ Kill(w)
      PROVE  owner'[Command] = owner[Command]
  BY <1>1 DEF Run, Create, CreateLease, AcquireLease, CreateMarker, WriteMarker, WriteSource, Fail,
              Discard, Retain, TruncateMarker, WriteRetained, ReleaseLease, Move, MoveFails,
              OwnerRemoves, Kill, Active
<1>2. ASSUME NEW w \in Workspaces, CleanGenerated(w) \/ Age(w) PROVE owner' = owner
  BY <1>2 DEF CleanGenerated, Age
<1>3. ASSUME NEW r \in Reapers, Reap(r) \/ KillReaper(r) PROVE owner' = owner
  BY <1>3 DEF Reap, Select, ReadMarker, CheckAge, OpenLease, TryLease, DropLease, ReaperRemoves,
              KillReaper
<1> QED BY <1>1, <1>2, <1>3 DEF OtherCommands

\* While relay.Run waits, the command closes nothing.
LEMMA OpenWhileAttended ==
    ASSUME TypeOK, Workspace, owner[Command] = "running", run \notin {"before", "returned"}
    PROVE  owner'[Command] = "running"
BY CommandAssumption
   DEF Workspace, Run, TypeOK, Go, Create, CreateLease, AcquireLease, CreateMarker, WriteMarker,
       WriteSource, Fail, Discard, Retain, TruncateMarker, WriteRetained, ReleaseLease, Move,
       MoveFails, OwnerRemoves, Active

\* Every step keeps the workspace attended.
LEMMA AttendedStep ==
    ASSUME TypeOK, RelayTypeOK, Attended, [CommandNext]_commandVars
    PROVE  Attended'
<1> USE DEF Attended, ChildRuns
<1>1. UNCHANGED <<backend, terminal>>
  BY DEF CommandNext, commandVars
<1>2. \A kind : launcher = "none" => LauncherAfter(kind) = "none"
  BY DEF LauncherAfter
<1>3. \A kind : LauncherAfter(kind) = "up" => launcher = "up"
  BY DEF LauncherAfter
<1>4. CASE UNCHANGED commandVars
  BY <1>4 DEF commandVars, command, program, workspace, Alive
<1>5. CASE OpenRelay \/ CloseRelay
  BY <1>1, <1>5 DEF OpenRelay, CloseRelay, program, workspace, Alive
<1>6. CASE Workspace
  <2>1. UNCHANGED <<server, run, launcher>>
    BY <1>6 DEF Workspace, program, command
  <2>2. run \in {"first", "second", "reaping"} => owner'[Command] = "running"
    BY <1>6, OpenWhileAttended
  <2>3. run # "gone"
    BY <1>6, CommandAssumption
       DEF Workspace, Run, Go, Create, CreateLease, AcquireLease, CreateMarker, WriteMarker,
           WriteSource, Fail, Discard, Retain, TruncateMarker, WriteRetained, ReleaseLease, Move,
           MoveFails, OwnerRemoves, Active
  <2> QED BY <1>1, <2>1, <2>2, <2>3 DEF Alive
<1>7. CASE Start
  BY <1>1, <1>7 DEF Start, Boot, program, workspace, Alive
<1>8. CASE Wait
  BY <1>1, <1>8 DEF Wait, ChildEnded, program, workspace, Alive
<1>9. CASE Forward
  <2>1. Alive' => Alive
    BY <1>9, NotStarted, ChannelType DEF Forward, Forwarded, GroupHears, ChildHears, RelayTypeOK
  <2>2. launcher' = launcher \/ \E kind \in Kinds : launcher' = LauncherAfter(kind)
    BY <1>9, ChannelType DEF Forward, Forwarded, GroupHears, ChildHears, RelayTypeOK
  <2>3. run = "first" /\ run' = "second" /\ owner' = owner
    BY <1>9 DEF Forward, workspace
  <2> QED BY <1>1, <1>2, <1>3, <2>1, <2>2, <2>3
<1>10. CASE ForceStop
  <2>1. Alive' => Alive
    BY <1>10, NotStarted DEF ForceStop
  <2> QED BY <1>1, <1>10, <2>1 DEF ForceStop, workspace
<1>11. CASE Launch
  BY <1>1, <1>11 DEF Launch, Boot, command, program, workspace, Alive
<1>12. CASE Program
  <2>1. Alive' => Alive
    BY <1>12, NotStarted DEF Program
  <2> QED BY <1>1, <1>12, <2>1 DEF Program, command, workspace
<1>13. ASSUME NEW kind \in Kinds, Signal(kind) PROVE Attended'
  BY <1>1, <1>13 DEF Signal, program, workspace, Alive
<1>14. CASE Interrupt
  <2>1. Alive' => Alive
    BY <1>14, NotStarted DEF Interrupt, GroupHears, Kinds
  <2> QED BY <1>1, <1>2, <1>3, <1>14, <2>1 DEF Interrupt, GroupHears, workspace
<1>15. CASE KillCommand
  BY <1>1, <1>15, CommandAssumption DEF KillCommand, Kill, program, TypeOK
<1>16. CASE OtherCommands
  BY <1>1, <1>16, OwnerKept DEF OtherCommands, command, program, Alive
<1> QED BY <1>4, <1>5, <1>6, <1>7, <1>8, <1>9, <1>10, <1>11, <1>12, <1>13, <1>14, <1>15, <1>16
        DEF CommandNext, Trb

\* The process trb has started finds its whole source as long as it runs,
\* whatever signals, timers and reapers do: the relay's waiting composed with
\* the lease.
THEOREM SourceIsThere == CommandSpec => []SourceWhileRunning
<1>1. CommandInit => RelayTypeOK /\ ProgramTypeOK /\ Attended
  BY TypeAtStart DEF CommandInit, WebInit, Attended, ChildRuns, Alive
<1>2. TypeOK /\ ProgramTypeOK /\ RelayTypeOK /\ Attended /\ [CommandNext]_commandVars =>
          ProgramTypeOK' /\ RelayTypeOK' /\ Attended'
  BY TypeKept, AttendedStep
<1>3. Attended /\ LeaseProtects => SourceWhileRunning
  BY CommandAssumption DEF Attended, LeaseProtects, SourceWhileRunning, Active
<1> QED BY <1>1, <1>2, <1>3, CommandImplementsWorkspaces, TypeCorrect, LeaseIsProtection, PTL
        DEF CommandSpec
-----------------------------------------------------------------------------
(* The time that a server gives to its requests *)

\* After at most one signal, who has been told of it and what is still to be
\* told: a server that has heard of nothing serves on, and one that did not
\* sit in a terminal was told before the relay started its timer.
Told ==
    /\ server \in {"none", "booting"} => \A c \in Connections : conn[c] = "closed"
    /\ server \in {"none", "booting", "serving"} => heard = {}
    /\ sent = 0 => signals = <<>> /\ heard = {} /\ run # "second"
    /\ sent = 1 =>
          /\ signals = <<>> \/ \E kind \in Kinds : signals = <<kind>>
          /\ run = "second" => signals = <<>>
          /\ signals # <<>> /\ heard # {} => terminal /\ Head(signals) = "INT"
          /\ run = "second" /\ ~terminal =>
                /\ server \notin {"booting", "serving"}
                /\ server = "none" => launcher # "up"

\* What a connection may not lose
Interrupted == \E c \in Connections : conn[c] = "busy" /\ conn'[c] \in {"orphan", "cut"}

\* A first signal that a server hears cuts nothing off.
LEMMA FirstSignal ==
    ASSUME ProgramTypeOK, Told, heard = {}, NEW kind \in Kinds, Hear(kind)
    PROVE  /\ ~Interrupted
           /\ server' \notin {"booting", "serving"}
           /\ server = "none" <=> server' = "none"
           /\ server' = "none" => conn' = conn /\ heard' = {}
<1> USE DEF Told, Interrupted, ProgramTypeOK, ServerStates, ConnStates
<1>1. CASE server = "booting"
  BY <1>1 DEF Hear, Exits, CutOff
<1>2. CASE server = "serving"
  BY <1>2 DEF Hear
<1>3. CASE server \in {"noticing", "draining"}
  BY <1>3 DEF Hear
<1>4. CASE server \in {"none", "exited"}
  BY <1>4 DEF Hear, program
<1> QED BY <1>1, <1>2, <1>3, <1>4

\* The server by itself cuts a request off only when its timeout has run out.
LEMMA ServerWaits ==
    ASSUME ProgramTypeOK, Told, Serve
    PROVE  /\ Interrupted => limit
           /\ server' \in {"none", "booting"} =>
                 server' = server /\ \A c \in Connections : conn'[c] = "closed"
           /\ server' = "serving" => server \in {"booting", "serving"}
           /\ heard' = heard
<1> USE DEF Told, Interrupted, ProgramTypeOK, ServerStates, ConnStates
<1>1. CASE Listen BY <1>1 DEF Listen, Exits, CutOff
<1>2. CASE Stop \/ TimeUp BY <1>2 DEF Stop, TimeUp
<1>3. CASE CutRequests BY <1>3 DEF CutRequests, Exits
<1>4. CASE Finish BY <1>4 DEF Finish, Exits, CutOff
<1>5. ASSUME NEW c \in Connections, Connect(c) \/ Request(c)
      PROVE  /\ ~Interrupted /\ server' = server /\ heard' = heard
             /\ server \notin {"none", "booting"}
  BY <1>5 DEF Connect, Request, Accepting
<1>6. ASSUME NEW c \in Connections, Respond(c) \/ Leave(c) \/ HandlerEnds(c) \/ CloseIdle(c)
      PROVE  /\ ~Interrupted /\ server' = server /\ heard' = heard
             /\ server \notin {"none", "booting"}
  BY <1>6 DEF Respond, Leave, HandlerEnds, CloseIdle
<1> QED BY <1>1, <1>2, <1>3, <1>4, <1>5, <1>6 DEF Serve, Drain

\* Every step of the command keeps Told, and cuts off no request that still has
\* its time when at most one signal was sent.
LEMMA ToldStep ==
    ASSUME Short, ProgramTypeOK, RelayTypeOK, Attended, Told, CommandNext
    PROVE  Told' /\ (Interrupted /\ sent' <= 1 => limit \/ (heard = {} /\ terminal))
<1> USE DEF RelayTypeOK
<1>1. UNCHANGED <<backend, terminal>>
  BY DEF CommandNext
<1>2. UNCHANGED program => ~Interrupted
  BY DEF program, Interrupted
<1>3. CASE OpenRelay \/ Workspace \/ Wait \/ CloseRelay \/ KillCommand \/ OtherCommands
  BY <1>1, <1>2, <1>3
     DEF OpenRelay, Workspace, Wait, CloseRelay, KillCommand, OtherCommands, command, program, Told
<1>4. CASE Start \/ Launch
  <2>1. ~Interrupted
    BY <1>2, <1>4 DEF Start, Launch, Boot, Interrupted
  <2>2. Told'
    BY <1>1, <1>4 DEF Start, Launch, Boot, command, program, Told
  <2> QED BY <2>1, <2>2
<1>5. CASE Program
  <2>1. UNCHANGED <<relay, signals, run, launcher, sent>> /\ Serve
    BY <1>5 DEF Program, command
  <2>2. Told'
    BY <1>1, <2>1, ServerWaits DEF Told
  <2> QED BY <2>1, <2>2, ServerWaits
<1>6. ASSUME NEW kind \in Kinds, Signal(kind)
      PROVE  Told' /\ ~Interrupted
  <2>1. UNCHANGED <<server, conn, heard, limit, run, launcher>> /\ sent' = sent + 1
    BY <1>6 DEF Signal, Notified, program
  <2>2. sent = 0 => signals' = <<kind>>
    BY <1>6 DEF Signal, Notified, Told
  <2>3. Told'
    BY <2>1, <2>2 DEF Told
  <2> QED BY <1>2, <2>1, <2>3 DEF program
<1>7. CASE Interrupt
  <2>1. terminal /\ Hear("INT") /\ run' = run /\ sent' = sent + 1 /\ "INT" \in Kinds
    BY <1>7 DEF Interrupt, Notified, GroupHears, Kinds
  <2>2. sent = 0 => signals' = <<"INT">> /\ run # "second"
    BY <1>7 DEF Interrupt, Notified, Told
  <2>3. CASE sent = 0
    BY <1>1, <2>1, <2>2, <2>3, FirstSignal DEF Told
  <2>4. CASE sent # 0
    <3>1. sent' # 0 /\ sent' # 1 /\ ~(sent' <= 1)
      BY <2>1, <2>4
    <3>2. /\ server' \in {"none", "booting"} => \A c \in Connections : conn'[c] = "closed"
          /\ server' \in {"none", "booting", "serving"} => heard' = {}
      BY <2>1 DEF Hear, Exits, program, Told, ProgramTypeOK, ServerStates
    <3> QED BY <3>1, <3>2 DEF Told
  <2> QED BY <2>3, <2>4
<1>8. CASE Forward
  <2>1. /\ run = "first" /\ signals # <<>> /\ Forwarded(Head(signals))
        /\ signals' = Tail(signals) /\ run' = "second" /\ sent' = sent
    BY <1>8 DEF Forward
  <2>2. Head(signals) \in Kinds
    BY <2>1
  <2>3. Hear(Head(signals)) \/ UNCHANGED program
    BY <2>1 DEF Forwarded, GroupHears, ChildHears
  <2>4. sent # 0
    BY <2>1 DEF Told
  <2>5. CASE sent = 1
    <3>1. signals' = <<>>
      BY <2>1, <2>5 DEF Told
    <3>2. CASE UNCHANGED program
      <4>1. terminal \/ GroupHears(Head(signals))
        BY <2>1 DEF Forwarded
      <4>2. GroupHears(Head(signals)) /\ ~terminal =>
               server \notin {"booting", "serving"} /\ (server = "none" => launcher' # "up")
        BY <2>2, <3>2 DEF GroupHears, LauncherAfter, Hear, Exits, program, Told, Kinds
      <4> QED BY <1>1, <1>2, <2>1, <2>5, <3>1, <3>2, <4>1, <4>2 DEF Told, program
    <3>3. CASE ~UNCHANGED program
      <4>1. Hear(Head(signals)) /\ ~(terminal /\ Head(signals) = "INT")
        BY <2>1, <2>3, <3>3 DEF Forwarded
      <4>2. heard = {}
        BY <2>1, <2>5, <4>1 DEF Told
      <4>3. ~terminal => launcher' = LauncherAfter(Head(signals))
        BY <2>1 DEF Forwarded, GroupHears
      <4>4. server' = "none" => server = "none" /\ conn' = conn /\ heard' = {}
        BY <2>2, <4>1, <4>2, FirstSignal
      <4>5. ~terminal /\ server' = "none" => launcher' # "up"
        BY <4>3, <4>4 DEF LauncherAfter
      <4>6. ~Interrupted /\ server' \notin {"booting", "serving"}
        BY <2>2, <4>1, <4>2, FirstSignal
      <4> QED BY <1>1, <2>1, <2>5, <3>1, <4>4, <4>5, <4>6 DEF Told
    <3> QED BY <3>2, <3>3
  <2>6. CASE sent # 1
    <3>1. sent' # 0 /\ sent' # 1 /\ ~(sent' <= 1)
      BY <2>1, <2>4, <2>6
    <3>2. /\ server' \in {"none", "booting"} => \A c \in Connections : conn'[c] = "closed"
          /\ server' \in {"none", "booting", "serving"} => heard' = {}
      BY <2>3 DEF Hear, Exits, program, Told, ProgramTypeOK, ServerStates
    <3> QED BY <3>1, <3>2 DEF Told
  <2> QED BY <2>5, <2>6
<1>9. CASE ForceStop
  <2>1. /\ run = "second" /\ run' = "reaping" /\ sent' = sent
        /\ Killed \/ UNCHANGED program
        /\ (signals # <<>> /\ signals' = Tail(signals)) \/ (Expired /\ signals' = signals)
    BY <1>9 DEF ForceStop
  <2>2. /\ server' \in {"none", "booting"} => \A c \in Connections : conn'[c] = "closed"
        /\ server' \in {"none", "booting", "serving"} => heard' = {}
    BY <2>1 DEF Killed, Exits, program, Told
  <2>3. sent # 0
    BY <2>1 DEF Told
  <2>4. CASE sent = 1
    <3>1. Expired /\ signals' = <<>>
      BY <2>1, <2>4 DEF Told
    <3>2. Told'
      BY <2>1, <2>2, <2>4, <3>1 DEF Told
    <3>3. CASE server = "serving"
      BY <2>1, <2>4, <3>2, <3>3 DEF Told
    <3>4. CASE server \in {"noticing", "draining"}
      BY <3>1, <3>2, <3>4 DEF Expired
    <3>5. CASE server \in {"none", "booting"}
      BY <3>2, <3>5 DEF Told, Interrupted
    <3>6. CASE server = "exited"
      BY <1>2, <2>1, <3>2, <3>6 DEF Killed, Alive
    <3> QED BY <3>3, <3>4, <3>5, <3>6 DEF ProgramTypeOK, ServerStates
  <2>5. CASE sent # 1
    <3>1. sent' # 0 /\ sent' # 1 /\ ~(sent' <= 1)
      BY <2>1, <2>3, <2>5
    <3> QED BY <2>2, <3>1 DEF Told
  <2> QED BY <2>4, <2>5
<1> QED BY <1>3, <1>4, <1>5, <1>6, <1>7, <1>8, <1>9 DEF CommandNext, Trb

\* After one signal a server that was told of it has its shutdown timeout, when
\* that is below the relay's: neither the server nor the relay cuts off what it
\* is working on before.
THEOREM ServerHasTime == Short => (CommandSpec => GivesTime)
<1> SUFFICES ASSUME Short PROVE CommandSpec => GivesTime
  OBVIOUS
<1>1. CommandInit => RelayTypeOK /\ ProgramTypeOK /\ Attended /\ Told
  BY TypeAtStart DEF CommandInit, WebInit, Attended, ChildRuns, Alive, Told
<1>2. ASSUME TypeOK, ProgramTypeOK, RelayTypeOK, Attended, Told, [CommandNext]_commandVars
      PROVE  /\ ProgramTypeOK' /\ RelayTypeOK' /\ Attended' /\ Told'
             /\ [\A c \in Connections :
                   conn[c] = "busy" /\ conn'[c] \in {"orphan", "cut"} /\ sent' <= 1 =>
                       limit \/ (heard = {} /\ terminal)]_commandVars
  <2>1. ProgramTypeOK' /\ RelayTypeOK' /\ Attended'
    BY <1>2, TypeKept, AttendedStep
  <2>2. CASE CommandNext
    BY <1>2, <2>1, <2>2, ToldStep DEF Interrupted
  <2>3. CASE UNCHANGED commandVars
    BY <1>2, <2>1, <2>3 DEF commandVars, command, program, Told
  <2> QED BY <1>2, <2>2, <2>3
<1> QED BY <1>1, <1>2, CommandImplementsWorkspaces, TypeCorrect, PTL DEF CommandSpec, GivesTime
=============================================================================
