------------------------- MODULE JobQueueProperties -------------------------
(***************************************************************************)
(* What the job queue promises.                                            *)
(***************************************************************************)
EXTENDS JobQueue

\* Every variable stays within its type; the table within Rows.
TypeOK ==
    /\ table \in [Jobs -> Rows]
    /\ pc \in [Workers -> Places]
    /\ claim \in [Workers -> Jobs \cup {NoJob}]
    /\ attempt \in [Workers -> 0 .. AttemptBound]
    /\ exec \in [Workers -> {"none", "running", "ok", "error"}]
    /\ beat \in [Workers -> Off .. HeartbeatInterval]
    /\ signalled \in [Workers -> BOOLEAN]
    /\ phase \in 0 .. StampPeriod - 1
    /\ disturbances \in 0 .. DisturbanceBound
    /\ succeeded \subseteq Jobs
    /\ discarded \subseteq Jobs

\* claimed_by is set exactly while the row is running: no statement leaves a
\* ready or failed row claimed, or a running row that no worker can conclude;
\* and a job that reached `failed` has used up its attempts.
ClaimConsistent ==
    \A j \in Jobs :
        /\ (table[j].state = "running") <=> (table[j].claimedBy # NoWorker)
        /\ table[j].state = "failed" => table[j].attempts >= MaximumAttempts[j]

\* The workers that still act on a claim they took.
Holding(w) == pc[w] \in {"execute", "drain", "conclude"}

\* `WHERE state = 'running' AND claimed_by = ?` is a fence: when it lets a
\* worker heartbeat, acknowledge or fail the job in its hand, the claim in the
\* table is the one the worker took, never a later one of the same job.
Fenced ==
    \A w \in Workers :
        Holding(w) /\ ClaimedBy(table[claim[w]], WorkerId[w])
            => table[claim[w]].attempts = attempt[w]

\* A claim is for one worker: from its UPDATE until its worker concludes it or
\* gives it up, no statement of anybody takes it away but a recovery that finds
\* it stale.  Where SELECT locks no row, two workers may have selected the same
\* job; only the condition on the state in the UPDATE keeps them apart then.
ClaimStands ==
    [][\A w \in Workers :
          LET held == table[claim[w]] IN
          Holding(w) /\ ClaimedBy(held, WorkerId[w]) =>
              \/ ClaimedBy(table'[claim[w]], WorkerId[w])
              \/ pc'[w] # pc[w]
              \/ Stale(held) /\ \E v \in Workers : RecoverStale(v)]_vars

\* Delivery is at least once: a row only leaves the table after one execution of
\* its job returned without error, or because an operator discarded it.
NoJobLost ==
    \A j \in Jobs : table[j].state = "deleted" => j \in succeeded \cup discarded

\* A claim is only recovered as stale when its holder has been silent for longer
\* than the lease, whatever rounding CURRENT_TIMESTAMP goes through.
LeaseHonoured ==
    [][\A w \in Workers, j \in Jobs :
          RecoverStale(w) /\ table[j].state = "running" /\ table'[j].state = "ready"
              => table[j].claimAge > Lease]_vars

\* A claim whose holder is executing with its heartbeat on time is not taken
\* away by anybody else's stale recovery.
ActiveClaimKept ==
    [][\A v, w \in Workers :
          RecoverStale(v) /\ pc[w] \in {"execute", "drain"}
              /\ (Heartbeats => beat[w] # Off)
              /\ ClaimedBy(table[claim[w]], WorkerId[w])
              => table'[claim[w]].state = "running"]_vars

\* Shutdown lets the current job return before it releases the job.
ReturnsBeforeRelease ==
    [][\A w \in Workers :
          Release(w) /\ exec[w] = "running" => table'[claim[w]] = table[claim[w]]]_vars

\* A job is not attempted more often than its maximum: an exhausted job is moved
\* to `failed`.
AttemptsLimited == \A j \in Jobs : table[j].attempts <= MaximumAttempts[j]

-----------------------------------------------------------------------------
(* Refinement: every row moves the way a sqlstore.Record moves. *)

RecordOf(j) == INSTANCE JobRecord
    WITH record <- table[j], Maximum <- MaximumAttempts[j], SkewBound <- StampPeriod

\* \A j \in Jobs : RecordOf(j)!Spec, with the quantifier inside the box: every
\* generated statement moves every row as one method of the Record would, or
\* leaves it alone.
RowsAreRecords ==
    /\ \A j \in Jobs : RecordOf(j)!Init
    /\ [][\A j \in Jobs : RecordOf(j)!Next \/ UNCHANGED table[j]]_table

-----------------------------------------------------------------------------
(* Liveness *)

\* A worker process keeps taking its own steps, its goroutines are scheduled,
\* perform() returns, and time passes.  No crash, signal, database error or
\* manual command is assumed to happen, nor any process to be started.
Fairness ==
    /\ \A w \in Workers : /\ WF_vars(WorkerStep(w))
                          /\ WF_vars(ExecutionReturns(w))
                          /\ WF_vars(Heartbeat(w))
    /\ WF_vars(Tick)

FairSpec == Spec /\ Fairness

\* While some worker process stays up that serves every queue, ...
WorkerStaysUp ==
    \E w \in Workers : Served[w] = {Queue[j] : j \in Jobs} /\ <>[](pc[w] # "stopped")

\* ... every ready job is eventually performed, discarded or moved to `failed`,
\* through whatever crashes, lost claims and shutdowns of other workers.
EventuallyConcluded ==
    WorkerStaysUp =>
        \A j \in Jobs : table[j].state = "ready" ~> table[j].state \in {"deleted", "failed"}

\* ... and no claim stays in the table for ever after its holder is gone.
OrphanedClaimsRecovered ==
    WorkerStaysUp =>
        \A j \in Jobs : table[j].state = "running" ~> table[j].state # "running"
=============================================================================
