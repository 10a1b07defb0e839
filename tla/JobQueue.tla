------------------------------ MODULE JobQueue ------------------------------
(***************************************************************************)
(* The SQL job queue: the trb_jobs table, the statements generated for it, *)
(* and the worker processes that claim, execute and conclude jobs.  The    *)
(* reference is the Go backend (internal/codegen/golang/jobs.go); the      *)
(* constants cover where the dialects and the Ruby backend differ.         *)
(*                                                                         *)
(* One action is one SQL transaction, one receive of a worker's select, or *)
(* one step of its two goroutines (heartbeat, execution).  A claim takes   *)
(* two actions, its SELECT and its UPDATE with the COMMIT: in between the  *)
(* row is locked (FOR UPDATE SKIP LOCKED) or, on SQLite, open to everybody.*)
(***************************************************************************)
EXTENDS Integers, FiniteSets

CONSTANTS
    Jobs,                \* jobs the application may enqueue
    Workers,             \* worker processes, one per `trb jobs start`
    WorkerIds,           \* values of claimed_by
    NoWorker,            \* claimed_by IS NULL
    NoJob,               \* no claim in hand
    WorkerId,            \* the id of each process: "worker-" and its PID
    MaximumAttempts,     \* maximum_attempts of each job
    Priority,            \* priority of each job, lower runs first
    Queue,               \* queue_name of each job
    SkipLocked,          \* does a claim's SELECT lock its row (SQLite: no)
    Served,              \* the queues whose jobs a worker selects
    Once,                \* the workers started with --once
    Lease,               \* lease_timeout in ticks, as the cutoff subtracts it
    HeartbeatInterval,   \* ticks between two heartbeats
    Heartbeats,          \* does the worker send heartbeats at all (Ruby: no)
    Timely,              \* are heartbeats and conclusions sent before time moves on
    StampPeriod,         \* granularity of CURRENT_TIMESTAMP, in ticks
    CutoffRounded,       \* is the stale cutoff taken from the rounded time too
    RetryDelay,          \* retry_base_delay in ticks
    AttemptBound, OverdueBound, DelayBound, AgeBound,   \* see JobRecord
    DisturbanceBound     \* crashes, signals, database errors and manual retries

ASSUME QueueAssumption ==
    /\ NoWorker \notin WorkerIds
    /\ NoJob \notin Jobs
    /\ WorkerId \in [Workers -> WorkerIds]
    /\ MaximumAttempts \in [Jobs -> Nat \ {0}]
    /\ Priority \in [Jobs -> Int]
    /\ Once \subseteq Workers
    /\ Lease \in Nat /\ HeartbeatInterval \in Nat \ {0} /\ RetryDelay \in Nat
    /\ Heartbeats \in BOOLEAN /\ Timely \in BOOLEAN /\ SkipLocked \in BOOLEAN
    /\ StampPeriod \in Nat \ {0} /\ CutoffRounded \in BOOLEAN
    /\ AttemptBound \in Nat /\ \A j \in Jobs : AttemptBound > MaximumAttempts[j]
    /\ OverdueBound \in Nat /\ DelayBound \in Nat
    /\ AgeBound \in Nat /\ AgeBound > Lease + StampPeriod
    /\ DisturbanceBound \in Nat

VARIABLES
    table,        \* trb_jobs, one row per job
    pc,           \* where each worker process is
    claim,        \* TrbJobsClaim.Id: the job each worker has in hand
    attempt,      \* TrbJobsClaim.Attempts: the attempt that claim is
    exec,         \* the execution goroutine of that claim
    beat,         \* ticks until its heartbeat goroutine fires, or Off
    signalled,    \* has the worker's signalContext been cancelled
    phase,        \* ticks since the last full second
    disturbances, \* how many disturbances there have been
    succeeded,    \* history: jobs some execution of which returned without error
    discarded     \* history: jobs an operator discarded

vars == <<table, pc, claim, attempt, exec, beat, signalled, phase, disturbances,
          succeeded, discarded>>
workerVars == <<pc, claim, attempt, exec, beat, signalled>>
history == <<succeeded, discarded>>

Off == -1

\* The table holds rows shaped like the abstract records.
Rows == [state     : {"absent", "ready", "running", "failed", "deleted"},
         attempts  : 0 .. AttemptBound,
         dueIn     : -OverdueBound .. DelayBound,
         claimedBy : WorkerIds \cup {NoWorker},
         claimAge  : 0 .. AgeBound,
         claimSkew : 0 .. StampPeriod - 1]

NoRow == [state |-> "absent", attempts |-> 0, dueIn |-> 0,
          claimedBy |-> NoWorker, claimAge |-> 0, claimSkew |-> 0]

Places == {"stopped", "recover", "select", "commit", "poll", "execute",
           "drain", "conclude", "release", "exit"}

-----------------------------------------------------------------------------
(* SQL: what the generated statements do to a row. *)

\* Mutated: the renewal forgets claimed_at.
StampForgotten(row) == [row EXCEPT !.claimSkew = phase]

\* Stored claimed_at = CURRENT_TIMESTAMP, which drops the fraction of a second
\* on SQLite and MySQL.
Stamp(row) == [row EXCEPT !.claimAge = 0, !.claimSkew = phase]

\* claimed_by = NULL, claimed_at = NULL
ClearClaim(row) == [row EXCEPT !.claimedBy = NoWorker, !.claimAge = 0, !.claimSkew = 0]

\* Mutated: a cutoff that is not rounded the way claimed_at is.
StaleUnrounded(row) ==
    row.state = "running" /\ row.claimAge + row.claimSkew > Lease

\* Mutated: only claims that were never renewed count as stale.
StaleNever(row) == row.state = "running" /\ row.claimedBy = NoWorker

\* state = 'running' AND claimed_at < cutoff
Stale(row) ==
    /\ row.state = "running"
    /\ row.claimAge + row.claimSkew > Lease + (IF CutoffRounded THEN phase ELSE 0)

\* Mutated: the acknowledgement is not fenced by claimed_by.
RunningOnly(row, id) == row.state = "running" /\ id \in WorkerIds

\* state = 'running' AND claimed_by = ?
ClaimedBy(row, id) == row.state = "running" /\ row.claimedBy = id

\* Mutated: the delay has the sign of the stale cutoff's interval.
RetryBackwards(row) == -(row.attempts * RetryDelay)

\* CURRENT_TIMESTAMP + attempts * retry_base_delay
RetryIn(row) ==
    LET delay == row.attempts * RetryDelay
    IN  IF delay < DelayBound THEN delay ELSE DelayBound

\* attempts + 1, counted up to the bound
NextAttempt(row) ==
    IF row.attempts < AttemptBound THEN row.attempts + 1 ELSE row.attempts

\* A row some open claim transaction has selected FOR UPDATE.
Locked(j) == SkipLocked /\ \E w \in Workers : pc[w] = "commit" /\ claim[w] = j

\* state = 'ready' AND run_at <= now AND queue_name = ?, with SKIP LOCKED where
\* the dialect has it
Selectable(w) ==
    {j \in Jobs : /\ table[j].state = "ready"
                  /\ table[j].dueIn <= 0
                  /\ Queue[j] \in Served[w]
                  /\ ~Locked(j)}

\* ORDER BY priority ASC, run_at ASC; ids are random, so any of the ties may
\* come first.
Before(j, k) ==
    \/ Priority[j] < Priority[k]
    \/ Priority[j] = Priority[k] /\ table[j].dueIn < table[k].dueIn

First(candidates) == {j \in candidates : \A k \in candidates : ~Before(k, j)}

\* Mutated: the claim stays in the released row.
ReadyAgainClaimed(row) == [row EXCEPT !.state = "ready"]

\* Mutated: a released job starts over with its attempts.
ReadyAgainAfresh(row) == [ClearClaim(row) EXCEPT !.state = "ready", !.attempts = 0]

ReadyAgain(row) == [ClearClaim(row) EXCEPT !.state = "ready"]

\* Mutated: an exhausted job is deleted instead of kept as failed.
FailedOnceDropped(j, row) ==
    [ClearClaim(row) EXCEPT
        !.state = IF row.attempts >= MaximumAttempts[j] THEN "deleted" ELSE "ready",
        !.dueIn = RetryIn(row)]

\* Mutated: the attempts are never compared with their maximum.
FailedOnceForEver(j, row) ==
    [ClearClaim(row) EXCEPT !.state = "ready", !.dueIn = RetryIn(row)]

FailedOnce(j, row) ==
    [ClearClaim(row) EXCEPT
        !.state = IF row.attempts >= MaximumAttempts[j] THEN "failed" ELSE "ready",
        !.dueIn = RetryIn(row)]

-----------------------------------------------------------------------------
Init ==
    /\ table = [j \in Jobs |-> NoRow]
    /\ pc = [w \in Workers |-> "stopped"]
    /\ claim = [w \in Workers |-> NoJob]
    /\ attempt = [w \in Workers |-> 0]
    /\ exec = [w \in Workers |-> "none"]
    /\ beat = [w \in Workers |-> Off]
    /\ signalled = [w \in Workers |-> FALSE]
    /\ phase = 0
    /\ disturbances = 0
    /\ succeeded = {}
    /\ discarded = {}

\* The bound on everything that may go wrong from outside.
Disturb == disturbances < DisturbanceBound /\ disturbances' = disturbances + 1

SetRow(j, row) == table' = [table EXCEPT ![j] = row]
Goto(w, place) == pc' = [pc EXCEPT ![w] = place]

-----------------------------------------------------------------------------
(* The application and the operator *)

\* TrbJobsEnqueue, with any delay up to the bound.  Its error returns insert
\* nothing.
Enqueue(j) ==
    /\ table[j].state = "absent"
    /\ \E delay \in 0 .. DelayBound :
          SetRow(j, [NoRow EXCEPT !.state = "ready", !.dueIn = delay])
    /\ UNCHANGED <<workerVars, phase, disturbances, history>>

\* trb jobs retry
Retry(j) ==
    /\ Disturb
    /\ table[j].state = "failed"
    /\ SetRow(j, [ReadyAgain(table[j]) EXCEPT !.attempts = 0, !.dueIn = 0])
    /\ UNCHANGED <<workerVars, phase, history>>

\* trb jobs discard; the DELETE waits for a row a claim transaction has locked.
Discard(j) ==
    /\ table[j].state \in {"ready", "failed"}
    /\ ~Locked(j)
    /\ SetRow(j, [NoRow EXCEPT !.state = "deleted"])
    /\ discarded' = discarded \cup {j}
    /\ UNCHANGED <<workerVars, phase, disturbances, succeeded>>

-----------------------------------------------------------------------------
(* The worker's loop *)

\* A process with no claim, no goroutine and no cancelled context.
Reset(w, place) ==
    /\ Goto(w, place)
    /\ claim' = [claim EXCEPT ![w] = NoJob]
    /\ attempt' = [attempt EXCEPT ![w] = 0]
    /\ exec' = [exec EXCEPT ![w] = "none"]
    /\ beat' = [beat EXCEPT ![w] = Off]
    /\ signalled' = [signalled EXCEPT ![w] = FALSE]

Start(w) ==
    /\ pc[w] = "stopped"
    /\ Reset(w, "recover")
    /\ UNCHANGED <<table, phase, disturbances, history>>

\* The process dies, and with it its goroutines and its open transaction.
Crash(w) ==
    /\ Disturb
    /\ pc[w] # "stopped"
    /\ Reset(w, "stopped")
    /\ UNCHANGED <<table, phase, history>>

\* SIGTERM or SIGINT: signal.NotifyContext cancels signalContext.
Signal(w) ==
    /\ Disturb
    /\ pc[w] # "stopped"
    /\ ~signalled[w]
    /\ signalled' = [signalled EXCEPT ![w] = TRUE]
    /\ UNCHANGED <<table, pc, claim, attempt, exec, beat, phase, history>>

\* if signalContext.Err() != nil { return true }, and the same at the poll.
Return(w) ==
    /\ pc[w] \in {"recover", "poll"}
    /\ signalled[w]
    /\ Goto(w, "release")
    /\ UNCHANGED <<table, claim, attempt, exec, beat, signalled, phase,
                   disturbances, history>>

\* TrbJobsRecoverStale: every stale claim becomes ready, whoever holds it.
RecoverStale(w) ==
    /\ pc[w] = "recover"
    /\ ~signalled[w]
    /\ table' = [j \in Jobs |-> IF Stale(table[j]) THEN ReadyAgain(table[j])
                                                   ELSE table[j]]
    /\ Goto(w, "select")
    /\ UNCHANGED <<claim, attempt, exec, beat, signalled, phase, disturbances, history>>

\* Its error is logged, unless the worker runs once: then os.Exit skips the
\* deferred release.
RecoverStaleFails(w) ==
    /\ Disturb
    /\ pc[w] = "recover"
    /\ ~signalled[w]
    /\ IF w \in Once
       THEN Reset(w, "stopped")
       ELSE Goto(w, "select") /\ UNCHANGED <<claim, attempt, exec, beat, signalled>>
    /\ UNCHANGED <<table, phase, history>>

\* TrbJobsClaimNext up to its SELECT
SelectJob(w) ==
    /\ pc[w] = "select"
    /\ ~signalled[w]
    /\ \E j \in First(Selectable(w)) : claim' = [claim EXCEPT ![w] = j]
    /\ Goto(w, "commit")
    /\ UNCHANGED <<table, attempt, exec, beat, signalled, phase, disturbances, history>>

\* claim == nil
NothingToClaim(w) ==
    /\ pc[w] = "select"
    /\ ~signalled[w]
    /\ Selectable(w) = {}
    /\ Goto(w, IF w \in Once THEN "release" ELSE "poll")
    /\ UNCHANGED <<table, claim, attempt, exec, beat, signalled, phase,
                   disturbances, history>>

\* The UPDATE of TrbJobsClaimNext, as the COMMIT makes it visible
Claimed(w, row) ==
    Stamp([row EXCEPT !.state = "running",
                      !.attempts = NextAttempt(row),
                      !.claimedBy = WorkerId[w]])

\* Mutated: WHERE id = ?, whatever became of the row since it was selected.
StillThere(row) == row.state \notin {"absent", "deleted"}

\* WHERE id = ? AND state = 'ready': the row is still one to claim.
StillReady(row) == row.state = "ready"

\* The transaction commits, the worker starts the two goroutines.
CommitClaim(w) ==
    LET j == claim[w] IN
    /\ pc[w] = "commit"
    /\ ~signalled[w]
    /\ StillReady(table[j])
    /\ SetRow(j, Claimed(w, table[j]))
    /\ attempt' = [attempt EXCEPT ![w] = NextAttempt(table[j])]
    /\ exec' = [exec EXCEPT ![w] = "running"]
    /\ beat' = [beat EXCEPT ![w] = IF Heartbeats THEN HeartbeatInterval ELSE Off]
    /\ Goto(w, "execute")
    /\ UNCHANGED <<claim, signalled, phase, disturbances, history>>

\* affected != 1: somebody else was faster, which is as if nothing were ready.
ClaimTaken(w) ==
    /\ pc[w] = "commit"
    /\ ~signalled[w]
    /\ ~StillReady(table[claim[w]])
    /\ claim' = [claim EXCEPT ![w] = NoJob]
    /\ Goto(w, IF w \in Once THEN "release" ELSE "poll")
    /\ UNCHANGED <<table, attempt, exec, beat, signalled, phase, disturbances, history>>

\* err != nil: the context is cancelled, which rolls the transaction back, or
\* the database reports an error.  An error of the COMMIT leaves open whether
\* the claim took effect.
ClaimFails(w) ==
    /\ pc[w] \in {"select", "commit"}
    /\ \/ signalled[w] /\ UNCHANGED <<table, disturbances>>
       \/ Disturb /\ UNCHANGED table
       \/ /\ Disturb
          /\ pc[w] = "commit" /\ StillReady(table[claim[w]])
          /\ SetRow(claim[w], Claimed(w, table[claim[w]]))
    /\ IF w \in Once
       THEN Reset(w, "stopped")
       ELSE /\ Goto(w, "poll")
            /\ claim' = [claim EXCEPT ![w] = NoJob]
            /\ UNCHANGED <<attempt, exec, beat, signalled>>
    /\ UNCHANGED <<phase, history>>

\* stdtime.After(pollInterval)
Poll(w) ==
    /\ pc[w] = "poll"
    /\ ~signalled[w]
    /\ Goto(w, "recover")
    /\ UNCHANGED <<table, claim, attempt, exec, beat, signalled, phase,
                   disturbances, history>>

-----------------------------------------------------------------------------
(* Execution, heartbeat and conclusion of a claim *)

\* trbJobsExecuteClaim returns; a panic is recovered as an error.  After a
\* shutdown timeout the goroutine may still get here before the process exits.
ExecutionReturns(w) ==
    /\ exec[w] = "running"
    /\ \E result \in {"ok", "error"} :
          /\ exec' = [exec EXCEPT ![w] = result]
          /\ succeeded' = IF result = "ok" THEN succeeded \cup {claim[w]} ELSE succeeded
    /\ UNCHANGED <<table, pc, claim, attempt, beat, signalled, phase,
                   disturbances, discarded>>

\* TrbJobsHeartbeat at a tick of the heartbeat goroutine.  The goroutine
\* returns when the claim is lost.
Heartbeat(w) ==
    LET row == table[claim[w]] IN
    /\ beat[w] = 0
    /\ IF ClaimedBy(row, WorkerId[w])
       THEN SetRow(claim[w], Stamp(row)) /\ beat' = [beat EXCEPT ![w] = HeartbeatInterval]
       ELSE UNCHANGED table /\ beat' = [beat EXCEPT ![w] = Off]
    /\ UNCHANGED <<pc, claim, attempt, exec, signalled, phase, disturbances, history>>

\* It returns as well on a database error.
HeartbeatFails(w) ==
    /\ Disturb
    /\ beat[w] = 0
    /\ beat' = [beat EXCEPT ![w] = Off]
    /\ UNCHANGED <<table, pc, claim, attempt, exec, signalled, phase, history>>

\* case <-signalContext.Done(): the worker goes on waiting, with a time limit.
StartDrain(w) ==
    /\ pc[w] = "execute"
    /\ signalled[w]
    /\ Goto(w, "drain")
    /\ UNCHANGED <<table, claim, attempt, exec, beat, signalled, phase,
                   disturbances, history>>

\* executionError = <-execution, then close(heartbeatDone)
ReceiveResult(w) ==
    /\ pc[w] \in {"execute", "drain"}
    /\ exec[w] \in {"ok", "error"}
    /\ beat' = [beat EXCEPT ![w] = Off]
    /\ Goto(w, "conclude")
    /\ UNCHANGED <<table, claim, attempt, exec, signalled, phase, disturbances, history>>

\* stdtime.After(shutdownTimeout): return while the goroutine is executing.
DrainTimeout(w) ==
    /\ pc[w] = "drain"
    /\ beat' = [beat EXCEPT ![w] = Off]
    /\ Goto(w, "release")
    /\ UNCHANGED <<table, claim, attempt, exec, signalled, phase, disturbances, history>>

\* The end of an iteration: back to the loop, or out of it with --once.
NextIteration(w) ==
    /\ Goto(w, IF w \in Once THEN "release" ELSE "recover")
    /\ claim' = [claim EXCEPT ![w] = NoJob]
    /\ attempt' = [attempt EXCEPT ![w] = 0]
    /\ exec' = [exec EXCEPT ![w] = "none"]
    /\ UNCHANGED <<beat, signalled, phase, history>>

\* TrbJobsAcknowledge; a lost claim is only logged.
Acknowledge(w) ==
    /\ pc[w] = "conclude"
    /\ exec[w] = "ok"
    /\ IF ClaimedBy(table[claim[w]], WorkerId[w])
       THEN SetRow(claim[w], [NoRow EXCEPT !.state = "deleted"])
       ELSE UNCHANGED table
    /\ NextIteration(w)
    /\ UNCHANGED disturbances

\* TrbJobsFail
Fail(w) ==
    /\ pc[w] = "conclude"
    /\ exec[w] = "error"
    /\ IF ClaimedBy(table[claim[w]], WorkerId[w])
       THEN SetRow(claim[w], FailedOnce(claim[w], table[claim[w]]))
       ELSE UNCHANGED table
    /\ NextIteration(w)
    /\ UNCHANGED disturbances

\* A database error of either is logged and the claim is left to grow stale.
ConcludeFails(w) ==
    /\ Disturb
    /\ pc[w] = "conclude"
    /\ NextIteration(w)
    /\ UNCHANGED table

\* The deferred TrbJobsReleaseWorker, whose error is dropped.
Release(w) ==
    /\ pc[w] = "release"
    /\ \/ /\ table' = [j \in Jobs |-> IF ClaimedBy(table[j], WorkerId[w])
                                      THEN ReadyAgain(table[j]) ELSE table[j]]
          /\ UNCHANGED disturbances
       \/ Disturb /\ UNCHANGED table
    /\ Goto(w, "exit")
    /\ UNCHANGED <<claim, attempt, exec, beat, signalled, phase, history>>

Exit(w) ==
    /\ pc[w] = "exit"
    /\ Reset(w, "stopped")
    /\ UNCHANGED <<table, phase, disturbances, history>>

-----------------------------------------------------------------------------
\* One tick of the clock: rows fall due, claims age, heartbeats come nearer.
Tick ==
    /\ Timely => \A w \in Workers : beat[w] # 0 /\ pc[w] # "conclude"
    /\ table' = [j \in Jobs |->
          IF table[j].state \in {"absent", "deleted"} THEN table[j]
          ELSE [table[j] EXCEPT
                  !.dueIn = IF @ > -OverdueBound THEN @ - 1 ELSE @,
                  !.claimAge = IF table[j].state = "running" /\ @ < AgeBound
                               THEN @ + 1 ELSE @]]
    /\ beat' = [w \in Workers |-> IF beat[w] > 0 THEN beat[w] - 1 ELSE beat[w]]
    /\ phase' = IF phase + 1 = StampPeriod THEN 0 ELSE phase + 1
    /\ UNCHANGED <<pc, claim, attempt, exec, signalled, disturbances, history>>

\* What a worker process does of its own accord.
WorkerStep(w) ==
    \/ Return(w)
    \/ RecoverStale(w)
    \/ SelectJob(w)
    \/ NothingToClaim(w)
    \/ CommitClaim(w)
    \/ ClaimTaken(w)
    \/ ClaimFails(w)
    \/ Poll(w)
    \/ StartDrain(w)
    \/ ReceiveResult(w)
    \/ DrainTimeout(w)
    \/ Acknowledge(w)
    \/ Fail(w)
    \/ Release(w)
    \/ Exit(w)

\* What happens to it.
WorkerFault(w) ==
    \/ Crash(w)
    \/ Signal(w)
    \/ RecoverStaleFails(w)
    \/ HeartbeatFails(w)
    \/ ConcludeFails(w)

Next ==
    \/ \E j \in Jobs : Enqueue(j) \/ Retry(j) \/ Discard(j)
    \/ \E w \in Workers : \/ Start(w) \/ WorkerStep(w) \/ WorkerFault(w)
                          \/ ExecutionReturns(w) \/ Heartbeat(w)
    \/ Tick

Spec == Init /\ [][Next]_vars
=============================================================================
