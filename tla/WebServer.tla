------------------------------ MODULE WebServer ------------------------------
(***************************************************************************)
(* The server a program generated from Web.serve runs, in each backend     *)
(* (webServer of internal/codegen/golang, ruby and typescript/web.go): it  *)
(* accepts connections until it is told to stop, gives the requests it is  *)
(* working on shutdown_timeout_milliseconds, and then cuts them off.  What *)
(* net/http, socket and node:http do is modelled from those uses.          *)
(***************************************************************************)
EXTENDS Naturals

CONSTANT Connections

Kinds == {"INT", "TERM"}

VARIABLES
    backend,  \* what the program is generated for
    server,   \* where its process is
    conn,     \* the state of each connection
    heard,    \* the signals its handlers have taken
    limit     \* has the shutdown timeout run out

program == <<server, conn, heard, limit>>

WebInit ==
    /\ backend \in {"go", "ruby", "typescript"}
    /\ server = "none"
    /\ conn = [c \in Connections |-> "closed"]
    /\ heard = {}
    /\ limit = FALSE

Alive == server \notin {"none", "exited"}

\* The connections after the end of the process: what was being answered is cut.
CutOff(connections) ==
    [c \in Connections |->
        IF connections[c] \in {"busy", "orphan", "cut"} THEN "cut" ELSE "closed"]

Exits ==
    /\ server' = "exited"
    /\ conn' = CutOff(conn)

-----------------------------------------------------------------------------
\* The process starts, before it handles signals.
Boot ==
    /\ server = "none"
    /\ server' = "booting"
    /\ UNCHANGED <<conn, heard, limit>>

\* The configuration is valid, the port is free and the handlers are there; or
\* the program ends with an error.
Listen ==
    /\ server = "booting"
    /\ \/ server' = "serving" /\ UNCHANGED conn
       \/ Exits
    /\ UNCHANGED <<heard, limit>>

\* Go and Ruby accept until they have noticed that they are to stop.
Accepting == server \in {"serving", "noticing"}

Connect(c) ==
    /\ Accepting
    /\ conn[c] = "closed"
    /\ conn' = [conn EXCEPT ![c] = "idle"]
    /\ UNCHANGED <<server, heard, limit>>

\* A connection that is open is read from while the server drains, too.
Request(c) ==
    /\ Accepting \/ server = "draining"
    /\ conn[c] = "idle"
    /\ conn' = [conn EXCEPT ![c] = "busy"]
    /\ UNCHANGED <<server, heard, limit>>

\* The handler answers; the connection is kept for the next request, which Go
\* does not do any more when it stops.
Respond(c) ==
    /\ conn[c] = "busy"
    /\ \E next \in {"idle", "closed"} :
          /\ next = "idle" => ~(backend = "go" /\ server = "draining")
          /\ conn' = [conn EXCEPT ![c] = next]
    /\ UNCHANGED <<server, heard, limit>>

Leave(c) ==
    /\ conn[c] = "idle"
    /\ conn' = [conn EXCEPT ![c] = "closed"]
    /\ UNCHANGED <<server, heard, limit>>

-----------------------------------------------------------------------------
\* A signal arrives.  There is no handler before the server listens, and
\* process.once takes a handler away when it has run; the other backends take
\* every signal.
Hear(kind) ==
    CASE server = "booting" -> Exits /\ UNCHANGED <<heard, limit>>
      [] server = "serving" ->
            /\ server' = IF backend = "typescript" THEN "draining" ELSE "noticing"
            /\ heard' = heard \cup {kind}
            /\ UNCHANGED <<conn, limit>>
      [] server \in {"noticing", "draining"} /\ backend = "typescript" /\ kind \in heard ->
            Exits /\ UNCHANGED <<heard, limit>>
      [] server \in {"noticing", "draining"} /\ ~(backend = "typescript" /\ kind \in heard) ->
            heard' = heard \cup {kind} /\ UNCHANGED <<server, conn, limit>>
      [] OTHER -> UNCHANGED program

\* The process gets SIGKILL.
Killed ==
    IF Alive THEN Exits /\ UNCHANGED <<heard, limit>> ELSE UNCHANGED program

\* select takes signalContext.Done(), or IO.select returns and the loop ends:
\* the listener is closed and the timeout starts.
Stop ==
    /\ server = "noticing"
    /\ server' = "draining"
    /\ UNCHANGED <<conn, heard, limit>>

\* net/http and node:http close the connections nothing is asked on; Ruby's
\* threads go on reading from theirs.
CloseIdle(c) ==
    /\ server = "draining"
    /\ backend # "ruby"
    /\ conn[c] = "idle"
    /\ conn' = [conn EXCEPT ![c] = "closed"]
    /\ UNCHANGED <<server, heard, limit>>

TimeUp ==
    /\ server = "draining"
    /\ ~limit
    /\ limit' = TRUE
    /\ UNCHANGED <<server, conn, heard>>

\* Mutated: the requests are cut off as soon as the server is to stop.
CutAtOnce ==
    /\ server = "draining"
    /\ \E c \in Connections : conn[c] \in {"idle", "busy"}
    /\ Exits
    /\ UNCHANGED <<heard, limit>>

\* Go closes the connections and returns, Ruby closes them and kills their
\* threads; TypeScript destroys them, and the handlers that are still running
\* keep the process alive.
CutRequests ==
    /\ server = "draining"
    /\ limit
    /\ \E c \in Connections : conn[c] \in {"idle", "busy"}
    /\ IF backend = "typescript"
       THEN /\ conn' = [c \in Connections |->
                  CASE conn[c] = "busy" -> "orphan" [] conn[c] = "idle" -> "closed"
                    [] OTHER -> conn[c]]
            /\ UNCHANGED server
       ELSE Exits
    /\ UNCHANGED <<heard, limit>>

\* The handler of a connection that was destroyed returns.
HandlerEnds(c) ==
    /\ conn[c] = "orphan"
    /\ conn' = [conn EXCEPT ![c] = "cut"]
    /\ UNCHANGED <<server, heard, limit>>

\* Nothing is open any more.
Finish ==
    /\ server = "draining"
    /\ \A c \in Connections : conn[c] \in {"closed", "cut"}
    /\ Exits
    /\ UNCHANGED <<heard, limit>>

Drain == Stop \/ TimeUp \/ CutRequests \/ Finish \/ \E c \in Connections : CloseIdle(c)

Serve ==
    \/ Listen \/ Drain
    \/ \E c \in Connections : Connect(c) \/ Request(c) \/ Respond(c) \/ Leave(c) \/ HandlerEnds(c)
=============================================================================
