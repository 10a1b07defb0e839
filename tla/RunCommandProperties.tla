------------------------- MODULE RunCommandProperties -------------------------
(***************************************************************************)
(* What the documentation of "trb run" and of the web package promises     *)
(* (docs/cli.md, "Running programs"; docs/status.md on trb/web).           *)
(***************************************************************************)
EXTENDS RunCommand, GeneratedWorkspacesProperties

\* Every variable of the command and of its program stays within its type.
CommandTypeOK ==
    /\ TypeOK
    /\ backend \in {"go", "ruby", "typescript"}
    /\ server \in {"none", "booting", "serving", "noticing", "draining", "exited"}
    /\ conn \in [Connections -> {"closed", "idle", "busy", "orphan", "cut"}]
    /\ heard \subseteq Kinds
    /\ limit \in BOOLEAN
    /\ relay \in {"none", "open", "closed"}
    /\ signals \in Seq(Kinds) /\ Len(signals) <= 2
    /\ run \in {"before", "first", "second", "reaping", "returned", "gone"}
    /\ launcher \in {"none", "up", "gone"}
    /\ terminal \in BOOLEAN
    /\ sent \in 0 .. SignalBound

\* The process that trb has started
ChildRuns == IF backend = "go" THEN launcher = "up" ELSE Alive

\* It finds its whole source as long as it runs,
\* whatever signals come and whoever reaps the project meanwhile; only a kill of
\* trb itself leaves it alone.
SourceWhileRunning ==
    prompt /\ ChildRuns /\ owner[Command] # "killed" =>
        owner[Command] = "running" /\ place[Command] = "run" /\ source[Command] = "whole"

\* "waits for it to stop, and then removes the workspace": the workspace of a
\* program that is still running has not been closed.
ProgramStopped == Alive => run # "returned"

\* A server "gives active requests the configured time to finish": after one
\* signal that it was told of, no request is cut off before, by itself or by
\* the relay.
GivesTime ==
    [][\A c \in Connections :
          conn[c] = "busy" /\ conn'[c] \in {"orphan", "cut"} /\ sent' <= 1 =>
              limit \/ (heard = {} /\ terminal)]_commandVars

\* "TypeRB forwards interrupts and termination signals to the child process
\* group": what is forced to stop was told to stop before.  It is not, when the
\* interrupt was not meant for the group of the terminal, or came before the
\* child was there.
ToldBeforeForced ==
    [][run = "second" /\ run' = "reaping" /\ server = "serving" => heard # {}]_commandVars

\* "stops accepting new work": no request begins while a server drains.
NoNewWork ==
    [][\A c \in Connections :
          conn[c] = "idle" /\ conn'[c] = "busy" => server # "draining"]_commandVars

-----------------------------------------------------------------------------
\* trb, its child and the timers of both go on; nothing else has to happen:
\* handlers may never return, and clients may never leave.
CommandFairness ==
    /\ WF_commandVars(Trb /\ UNCHANGED <<backend, terminal>>)
    /\ WF_commandVars((Drain \/ Listen) /\ Program /\ UNCHANGED <<backend, terminal>>)
    /\ WF_commandVars(Launch /\ UNCHANGED <<backend, terminal>>)
    /\ \A r \in Reapers : WF_commandVars(Reap(r) /\ OtherCommands /\ UNCHANGED <<backend, terminal>>)
    /\ \A w \in Workspaces : SF_commandVars(Age(w) /\ OtherCommands /\ UNCHANGED <<backend, terminal>>)

CommandFairSpec == CommandSpec /\ CommandFairness

\* A command that gets a signal comes to its end, however its program behaves.
CommandEnds == sent > 0 ~> owner[Command] \in Ended
=============================================================================
