------------------------------ MODULE RunCommand ------------------------------
(***************************************************************************)
(* "trb run" and "trb test" of a project (runProgram and runTest of        *)
(* internal/cli/cli.go): a generated workspace, the program that is        *)
(* started in it, here a web server, and the relay that passes signals on  *)
(* to it (internal/cli/child_process.go), among the other commands of the  *)
(* project, which reap workspaces.                                         *)
(*                                                                         *)
(* The program is a child of trb, but for Go, where the child is "go run", *)
(* which compiles the program, starts it, ignores interrupts from then on  *)
(* and dies of SIGTERM like any other process.                             *)
(***************************************************************************)
EXTENDS GeneratedWorkspaces, WebServer, Sequences

CONSTANTS
    Command,      \* the workspace of the command that is modelled
    Short,        \* is the shutdown timeout of the server below the relay's
    SignalBound   \* at most so many signals are sent

ASSUME CommandAssumption ==
    /\ Command \in Workspaces
    /\ Short \in BOOLEAN
    /\ SignalBound \in Nat

VARIABLES
    relay,     \* the commandSignalRelay: "none", "open" or "closed"
    signals,   \* its channel
    run,       \* where relay.Run is
    launcher,  \* "go run"
    terminal,  \* is the standard input a terminal, so that the child stays in
               \* the foreground process group of trb
    sent       \* how many signals were sent

workspace == <<settings, owner, files, holder, young, reapers>>
command == <<relay, signals, run>>
commandVars == <<workspace, backend, program, command, launcher, terminal, sent>>

CommandInit ==
    /\ Init
    /\ WebInit
    /\ relay = "none"
    /\ signals = <<>>
    /\ run = "before"
    /\ launcher = "none"
    /\ terminal \in BOOLEAN
    /\ sent = 0

\* What command.Wait waits for has ended.
ChildEnded ==
    IF backend = "go" THEN launcher = "gone" ELSE server = "exited"

-----------------------------------------------------------------------------
(* The command *)

\* newCommandSignalRelay, before the workspace is made
OpenRelay ==
    /\ relay = "none"
    /\ relay' = "open"
    /\ UNCHANGED <<workspace, program, signals, run, launcher, sent>>

\* The workspace is made when the relay is open, and closed by a deferred call:
\* after an error before the start, or after relay.Run.
Workspace ==
    /\ relay = "open"
    /\ Run(Command)
    /\ owner[Command] \in Active /\ owner'[Command] \notin Active => run \in {"before", "returned"}
    /\ UNCHANGED <<settings, program, command, launcher, sent>>

\* command.Start, which may fail
Start ==
    /\ owner[Command] = "running"
    /\ run = "before"
    /\ \/ /\ run' = "first"
          /\ IF backend = "go" THEN launcher' = "up" /\ UNCHANGED program
                               ELSE Boot /\ UNCHANGED launcher
       \/ run' = "returned" /\ UNCHANGED <<program, launcher>>
    /\ UNCHANGED <<workspace, relay, signals, sent>>

\* command.Wait has returned, in either select or after the SIGKILL.
Wait ==
    /\ run \in {"first", "second", "reaping"}
    /\ ChildEnded
    /\ run' = "returned"
    /\ UNCHANGED <<workspace, program, relay, signals, launcher, sent>>

\* "go run" after a signal: it stops compiling, and ignores an interrupt while
\* its program runs.
LauncherAfter(kind) ==
    IF launcher = "up" /\ (kind = "TERM" \/ server = "none") THEN "gone" ELSE launcher

\* A signal to the process group of the child
GroupHears(kind) == launcher' = LauncherAfter(kind) /\ Hear(kind)

\* and to its process alone
ChildHears(kind) ==
    IF backend = "go" THEN launcher' = LauncherAfter(kind) /\ UNCHANGED program
                      ELSE Hear(kind) /\ UNCHANGED launcher

\* What the child is sent: a terminal has interrupted it already.
Forwarded(kind) ==
    \/ ~terminal /\ GroupHears(kind)
    \/ terminal /\ kind = "TERM" /\ ChildHears(kind)
    \/ terminal /\ kind = "INT" /\ UNCHANGED <<program, launcher>>

\* Mutated: Run returns when the signal has been forwarded.
ForwardAndLeave ==
    /\ run = "first"
    /\ signals # <<>>
    /\ Forwarded(Head(signals))
    /\ signals' = Tail(signals)
    /\ run' = "returned"
    /\ UNCHANGED <<workspace, relay, sent>>

\* The first select takes a signal.
Forward ==
    /\ run = "first"
    /\ signals # <<>>
    /\ Forwarded(Head(signals))
    /\ signals' = Tail(signals)
    /\ run' = "second"
    /\ UNCHANGED <<workspace, relay, sent>>

\* childProcessShutdownTimeout has passed since then.  A server that was told to
\* stop has used up a shorter timeout of its own by now.
Expired == Short /\ server \in {"noticing", "draining"} => limit

\* Mutated: only a second signal forces the child to stop.
ForceOnSignal ==
    /\ run = "second"
    /\ signals # <<>>
    /\ signals' = Tail(signals)
    /\ run' = "reaping"
    /\ Killed
    /\ launcher' = IF launcher = "up" THEN "gone" ELSE launcher
    /\ UNCHANGED <<workspace, relay, sent>>

\* The second select takes another signal or the timer: forceStopChildProcess.
ForceStop ==
    /\ run = "second"
    /\ \/ signals # <<>> /\ signals' = Tail(signals)
       \/ Expired /\ UNCHANGED signals
    /\ run' = "reaping"
    /\ IF terminal /\ backend = "go" THEN UNCHANGED program ELSE Killed
    /\ launcher' = IF launcher = "up" THEN "gone" ELSE launcher
    /\ UNCHANGED <<workspace, relay, sent>>

\* relay.Close, deferred before the closing of the workspace and run after it
CloseRelay ==
    /\ relay = "open"
    /\ owner[Command] \in Ended \ {"absent", "killed"}
    /\ relay' = "closed"
    /\ UNCHANGED <<workspace, program, signals, run, launcher, sent>>

Trb == OpenRelay \/ Workspace \/ Start \/ Wait \/ Forward \/ ForceStop \/ CloseRelay

-----------------------------------------------------------------------------
(* The child *)

\* "go run" has compiled the program and starts it, or has found an error,
\* or ends after its program.
Launch ==
    /\ launcher = "up"
    /\ \/ Boot /\ UNCHANGED launcher
       \/ server \in {"none", "exited"} /\ launcher' = "gone" /\ UNCHANGED program
    /\ UNCHANGED <<workspace, command, sent>>

Program ==
    /\ Serve
    /\ UNCHANGED <<workspace, command, launcher, sent>>

-----------------------------------------------------------------------------
(* The environment *)

\* A signal reaches trb while it is notified: the runtime drops one that finds
\* the channel full.
Notified(kind) ==
    /\ relay = "open"
    /\ sent < SignalBound
    /\ sent' = sent + 1
    /\ signals' = IF Len(signals) < 2 THEN Append(signals, kind) ELSE signals

\* kill sends it to trb alone,
Signal(kind) ==
    /\ Notified(kind)
    /\ UNCHANGED <<workspace, program, relay, run, launcher>>

\* and a terminal interrupts the whole group in the foreground.
Interrupt ==
    /\ terminal
    /\ Notified("INT")
    /\ GroupHears("INT")
    /\ UNCHANGED <<workspace, relay, run>>

\* trb gets SIGKILL: what it has started goes on.
KillCommand ==
    /\ Kill(Command)
    /\ relay' = "closed"
    /\ run' = "gone"
    /\ UNCHANGED <<settings, program, signals, launcher, sent>>

\* The other commands, reaping or cleaning, and time
OtherCommands ==
    /\ \/ \E w \in Workspaces : CleanGenerated(w) \/ Age(w)
       \/ \E w \in Workspaces \ {Command} : Run(w) \/ Kill(w)
       \/ \E r \in Reapers : Reap(r) \/ KillReaper(r)
    /\ UNCHANGED <<settings, program, command, launcher, sent>>

CommandNext ==
    /\ \/ Trb \/ Launch \/ Program \/ Interrupt \/ KillCommand \/ OtherCommands
       \/ \E kind \in Kinds : Signal(kind)
    /\ UNCHANGED <<backend, terminal>>

CommandSpec == CommandInit /\ [][CommandNext]_commandVars
=============================================================================
