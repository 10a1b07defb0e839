----------------------------- MODULE JobRecord -----------------------------
(***************************************************************************)
(* The life of one durable job, as internal/jobs/sqlstore/sqlstore.go      *)
(* defines it: the Record type with its Claim, Acknowledge, Fail and       *)
(* Release methods.  This is the abstract specification of the queue: the  *)
(* SQL statements every backend generates must move each row the way a     *)
(* Record moves (JobQueue.tla shows that they do).                         *)
(*                                                                         *)
(* Times are relative to the current instant: dueIn is RunAt - now and     *)
(* claimAge is now - ClaimedAt, both cut at the bounds below, so that the  *)
(* clock itself needs no bound.                                            *)
(***************************************************************************)
EXTENDS Integers

CONSTANTS
    WorkerIds,        \* the values of ClaimedBy
    NoWorker,         \* ClaimedBy of a record that nobody claims
    Maximum,          \* Record.MaximumAttempts of this record
    AttemptBound,     \* attempts are counted up to here, then stay
    OverdueBound,     \* how long past RunAt is still told apart
    DelayBound,       \* the longest delay of an enqueue or a retry
    AgeBound,         \* the oldest claim told apart
    SkewBound         \* largest rounding of a stored ClaimedAt, exclusive

VARIABLE record

States == {"absent", "ready", "running", "failed", "deleted"}

\* Record, without the columns that only carry data.  "absent" is before the
\* INSERT and "deleted" after the DELETE.  claimSkew is what rounding took
\* from the stored ClaimedAt, so the row says the claim is claimAge+claimSkew
\* old.
Record ==
    [state     : States,
     attempts  : 0 .. AttemptBound,
     dueIn     : -OverdueBound .. DelayBound,
     claimedBy : WorkerIds \cup {NoWorker},
     claimAge  : 0 .. AgeBound,
     claimSkew : 0 .. SkewBound - 1]

Absent == [state |-> "absent", attempts |-> 0, dueIn |-> 0,
           claimedBy |-> NoWorker, claimAge |-> 0, claimSkew |-> 0]
Deleted == [Absent EXCEPT !.state = "deleted"]

CountAttempt(n) == IF n < AttemptBound THEN n + 1 ELSE n

\* record.ClaimedBy = "" and record.ClaimedAt = nil
Unclaimed(r) == [r EXCEPT !.claimedBy = NoWorker, !.claimAge = 0, !.claimSkew = 0]

Init == record = Absent

\* NewRecord: ready, no attempt yet.  A scheduled job starts with a delay.
NewRecord ==
    /\ record.state = "absent"
    /\ \E delay \in 0 .. DelayBound :
          record' = [Absent EXCEPT !.state = "ready", !.dueIn = delay]

Claim(worker) ==
    /\ record.state = "ready"
    /\ record.dueIn <= 0
    /\ \E skew \in 0 .. SkewBound - 1 :
          record' = [record EXCEPT !.state = "running",
                                   !.attempts = CountAttempt(@),
                                   !.claimedBy = worker,
                                   !.claimAge = 0,
                                   !.claimSkew = skew]

\* A heartbeat renews ClaimedAt of a running record for its claimant.
Renew(worker) ==
    /\ record.state = "running"
    /\ record.claimedBy = worker
    /\ \E skew \in 0 .. SkewBound - 1 :
          record' = [record EXCEPT !.claimAge = 0, !.claimSkew = skew]

Acknowledge(worker) ==
    /\ record.state = "running"
    /\ record.claimedBy = worker
    /\ record' = Deleted

\* Fail keeps the record retryable until its attempts are used up.  Record.Fail
\* leaves RunAt of a failed record alone while the SQL statements move it too;
\* nothing reads it before Retry sets it, so it is left open here.
Fail(worker) ==
    /\ record.state = "running"
    /\ record.claimedBy = worker
    /\ \E runAt \in 0 .. DelayBound :
          record' = [Unclaimed(record) EXCEPT
                        !.state = IF record.attempts >= Maximum THEN "failed" ELSE "ready",
                        !.dueIn = runAt]

Release ==
    /\ record.state = "running"
    /\ record' = [Unclaimed(record) EXCEPT !.state = "ready"]

\* trb jobs retry and trb jobs discard
Retry ==
    /\ record.state = "failed"
    /\ record' = [Unclaimed(record) EXCEPT !.state = "ready", !.attempts = 0, !.dueIn = 0]

Discard ==
    /\ record.state \in {"ready", "failed"}
    /\ record' = Deleted

\* Time passes: nothing but the two relative times of the record moves.
Age ==
    /\ record.state \in {"ready", "running", "failed"}
    /\ record' = [record EXCEPT
                    !.dueIn = IF @ > -OverdueBound THEN @ - 1 ELSE @,
                    !.claimAge = IF record.state = "running" /\ @ < AgeBound THEN @ + 1 ELSE @]

Next ==
    \/ NewRecord
    \/ \E worker \in WorkerIds :
          Claim(worker) \/ Renew(worker) \/ Acknowledge(worker) \/ Fail(worker)
    \/ Release
    \/ Retry
    \/ Discard
    \/ Age

Spec == Init /\ [][Next]_record
=============================================================================
