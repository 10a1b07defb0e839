--------------------------- MODULE JobQueueProofs ---------------------------
(***************************************************************************)
(* Safety of the job queue, for every set of jobs and workers and every    *)
(* value of the other constants, and that its rows are Records.            *)
(***************************************************************************)
EXTENDS JobQueueProperties, TLAPS

\* An open transaction or an execution is always about some job; an execution
\* outlives its claim only until the process exits, a heartbeat does not.
ClaimInHand ==
    \A w \in Workers :
        /\ pc[w] = "commit" \/ Holding(w) \/ exec[w] # "none" => claim[w] \in Jobs
        /\ exec[w] # "none" => Holding(w) \/ pc[w] \in {"release", "exit"}
        /\ beat[w] # Off => pc[w] \in {"execute", "drain"}

\* A claim's SELECT locks its row, or there is one worker, as the guide asks of
\* an SQLite queue.
LocksOrOneWorker == SkipLocked \/ \A v, w \in Workers : v = w

\* Then the row of an open claim transaction is that transaction's alone, and
\* stays ready and due unless an operator discards it.
SelectedRows ==
    LocksOrOneWorker =>
        \A w \in Workers : pc[w] = "commit" =>
            /\ \/ table[claim[w]].state = "ready" /\ table[claim[w]].dueIn <= 0
               \/ table[claim[w]].state = "deleted"
            /\ \A v \in Workers : pc[v] = "commit" /\ claim[v] = claim[w] => v = w

\* Only an execution that returned without error puts a job in succeeded.
ResultRecorded == \A w \in Workers : exec[w] = "ok" => claim[w] \in succeeded

-----------------------------------------------------------------------------
(* What the statements make of a row. *)

\* CURRENT_TIMESTAMP in a row, and NULL in its claim columns.
LEMMA StampType ==
    ASSUME NEW row \in Rows, phase \in 0 .. StampPeriod - 1
    PROVE  /\ Stamp(row) \in Rows
           /\ Stamp(row).state = row.state
           /\ Stamp(row).claimedBy = row.claimedBy
           /\ Stamp(row).attempts = row.attempts
<1> DEFINE young == [row EXCEPT !.claimAge = 0]
<1>1. young \in Rows
  BY QueueAssumption DEF Rows
<1>2. Stamp(row) = [young EXCEPT !.claimSkew = phase]
  BY DEF Stamp
<1>3. /\ young.state = row.state /\ young.claimedBy = row.claimedBy
      /\ young.attempts = row.attempts
  BY DEF Rows
<1> HIDE DEF young
<1> QED BY <1>1, <1>2, <1>3, QueueAssumption DEF Rows

\* A row whose claim columns are cleared has the type of an unclaimed row.
LEMMA ClearClaimType ==
    ASSUME NEW row \in Rows
    PROVE  /\ ClearClaim(row) \in Rows
           /\ ClearClaim(row).state = row.state
           /\ ClearClaim(row).claimedBy = NoWorker
           /\ ClearClaim(row).attempts = row.attempts
<1> DEFINE freed == [row EXCEPT !.claimedBy = NoWorker]
           young == [freed EXCEPT !.claimAge = 0]
<1>1. /\ freed \in Rows
      /\ freed.state = row.state /\ freed.claimedBy = NoWorker
      /\ freed.attempts = row.attempts
  BY QueueAssumption DEF Rows
<1>2. ClearClaim(row) = [young EXCEPT !.claimSkew = 0]
  BY DEF ClearClaim
<1> HIDE DEF freed
<1>3. /\ young \in Rows
      /\ young.state = freed.state /\ young.claimedBy = freed.claimedBy
      /\ young.attempts = freed.attempts
  BY <1>1, QueueAssumption DEF Rows
<1> HIDE DEF young
<1> QED BY <1>1, <1>2, <1>3, QueueAssumption DEF Rows

\* A released or recovered row is ready, unclaimed, with its attempts kept.
LEMMA ReadyAgainType ==
    ASSUME NEW row \in Rows
    PROVE  /\ ReadyAgain(row) \in Rows
           /\ ReadyAgain(row).state = "ready"
           /\ ReadyAgain(row).claimedBy = NoWorker
           /\ ReadyAgain(row).attempts = row.attempts
<1>1. ClearClaim(row) \in Rows
  BY ClearClaimType
<1> QED BY <1>1, ClearClaimType DEF ReadyAgain, Rows

\* A failed execution leaves an unclaimed row, `failed` only when exhausted.
LEMMA FailedOnceType ==
    ASSUME NEW row \in Rows, NEW j \in Jobs
    PROVE  /\ FailedOnce(j, row) \in Rows
           /\ FailedOnce(j, row).state \in {"ready", "failed"}
           /\ FailedOnce(j, row).state = "failed" => row.attempts >= MaximumAttempts[j]
           /\ FailedOnce(j, row).claimedBy = NoWorker
           /\ FailedOnce(j, row).attempts = row.attempts
<1> DEFINE next == IF row.attempts >= MaximumAttempts[j] THEN "failed" ELSE "ready"
           cleared == ClearClaim(row)
           moved == [cleared EXCEPT !.state = next]
<1>1. RetryIn(row) \in -OverdueBound .. DelayBound
  BY QueueAssumption DEF RetryIn, Rows
<1>2. FailedOnce(j, row) = [moved EXCEPT !.dueIn = RetryIn(row)]
  BY DEF FailedOnce
<1>3. /\ next \in {"ready", "failed"}
      /\ next = "failed" => row.attempts >= MaximumAttempts[j]
  OBVIOUS
<1>4. /\ cleared \in Rows /\ cleared.claimedBy = NoWorker
      /\ cleared.attempts = row.attempts
  BY ClearClaimType
<1> HIDE DEF next, cleared
<1>5. /\ moved \in Rows /\ moved.state = next
      /\ moved.claimedBy = NoWorker /\ moved.attempts = row.attempts
  BY <1>3, <1>4 DEF Rows
<1> HIDE DEF moved
<1>6. /\ FailedOnce(j, row) \in Rows /\ FailedOnce(j, row).state = moved.state
      /\ FailedOnce(j, row).claimedBy = moved.claimedBy
      /\ FailedOnce(j, row).attempts = moved.attempts
  BY <1>1, <1>2, <1>5 DEF Rows
<1> QED BY <1>3, <1>5, <1>6

\* A committed claim is a running row of its worker, one attempt further.
LEMMA ClaimedType ==
    ASSUME NEW row \in Rows, NEW w \in Workers, phase \in 0 .. StampPeriod - 1
    PROVE  /\ NextAttempt(row) \in 0 .. AttemptBound
           /\ Claimed(w, row) \in Rows
           /\ Claimed(w, row).state = "running"
           /\ Claimed(w, row).claimedBy = WorkerId[w]
           /\ Claimed(w, row).attempts = NextAttempt(row)
<1> DEFINE moved == [row EXCEPT !.state = "running"]
           counted == [moved EXCEPT !.attempts = NextAttempt(row)]
           taken == [counted EXCEPT !.claimedBy = WorkerId[w]]
<1>1. NextAttempt(row) \in 0 .. AttemptBound
  BY QueueAssumption DEF NextAttempt, Rows
<1>2. Claimed(w, row) = Stamp(taken)
  BY DEF Claimed
<1>3. moved \in Rows /\ moved.state = "running"
  BY DEF Rows
<1> HIDE DEF moved
<1>4. counted \in Rows /\ counted.state = "running" /\ counted.attempts = NextAttempt(row)
  BY <1>1, <1>3 DEF Rows
<1> HIDE DEF counted
<1>5. /\ taken \in Rows /\ taken.state = "running"
      /\ taken.attempts = NextAttempt(row) /\ taken.claimedBy = WorkerId[w]
  BY <1>4, QueueAssumption DEF Rows
<1> HIDE DEF taken
<1> QED BY <1>1, <1>2, <1>5, StampType

\* A row that respects the invariants about single rows.
GoodRow(j, row) ==
    /\ row \in Rows
    /\ (row.state = "running") <=> (row.claimedBy # NoWorker)
    /\ row.state = "failed" => row.attempts >= MaximumAttempts[j]

\* The rows of the statements that neither claim nor renew are good rows.
LEMMA GoodRows ==
    ASSUME NEW j \in Jobs, NEW row \in Rows
    PROVE  /\ GoodRow(j, ReadyAgain(row))
           /\ GoodRow(j, FailedOnce(j, row))
           /\ GoodRow(j, [NoRow EXCEPT !.state = "deleted"])
           /\ \A delay \in 0 .. DelayBound :
                 GoodRow(j, [NoRow EXCEPT !.state = "ready", !.dueIn = delay])
<1>1. GoodRow(j, ReadyAgain(row))
  BY ReadyAgainType DEF GoodRow
<1>2. GoodRow(j, FailedOnce(j, row))
  BY FailedOnceType DEF GoodRow
<1>3. NoRow \in Rows /\ NoRow.claimedBy = NoWorker
  BY QueueAssumption DEF NoRow, Rows
<1>4. GoodRow(j, [NoRow EXCEPT !.state = "deleted"])
  BY <1>3 DEF GoodRow, Rows
<1>5. ASSUME NEW delay \in 0 .. DelayBound
      PROVE  GoodRow(j, [NoRow EXCEPT !.state = "ready", !.dueIn = delay])
  <2> DEFINE ready == [NoRow EXCEPT !.state = "ready"]
  <2>1. ready \in Rows /\ ready.state = "ready" /\ ready.claimedBy = NoWorker
    BY <1>3 DEF Rows
  <2>2. [NoRow EXCEPT !.state = "ready", !.dueIn = delay] = [ready EXCEPT !.dueIn = delay]
    OBVIOUS
  <2> HIDE DEF ready
  <2>3. GoodRow(j, [ready EXCEPT !.dueIn = delay])
    BY <2>1, QueueAssumption DEF GoodRow, Rows
  <2> QED BY <2>2, <2>3
<1> QED BY <1>1, <1>2, <1>4, <1>5

\* So are a committed claim and a renewed one.
LEMMA GoodClaims ==
    ASSUME NEW j \in Jobs, NEW w \in Workers, NEW row \in Rows,
           phase \in 0 .. StampPeriod - 1
    PROVE  /\ GoodRow(j, Claimed(w, row))
           /\ GoodRow(j, row) => GoodRow(j, Stamp(row))
<1>1. GoodRow(j, Claimed(w, row))
  BY ClaimedType, QueueAssumption DEF GoodRow
<1>2. GoodRow(j, row) => GoodRow(j, Stamp(row))
  BY StampType DEF GoodRow
<1> QED BY <1>1, <1>2

\* What trb jobs retry makes of a failed row.
LEMMA GoodRetry ==
    ASSUME NEW j \in Jobs, NEW row \in Rows
    PROVE  GoodRow(j, [ReadyAgain(row) EXCEPT !.attempts = 0, !.dueIn = 0])
<1> DEFINE again == ReadyAgain(row)
           fresh == [again EXCEPT !.attempts = 0]
<1>1. again \in Rows /\ again.state = "ready" /\ again.claimedBy = NoWorker
  BY ReadyAgainType
<1>2. [again EXCEPT !.attempts = 0, !.dueIn = 0] = [fresh EXCEPT !.dueIn = 0]
  OBVIOUS
<1> HIDE DEF again
<1>3. fresh \in Rows /\ fresh.state = "ready" /\ fresh.claimedBy = NoWorker
  BY <1>1, QueueAssumption DEF Rows
<1> HIDE DEF fresh
<1>4. GoodRow(j, [fresh EXCEPT !.dueIn = 0])
  BY <1>3, QueueAssumption DEF GoodRow, Rows
<1> QED BY <1>2, <1>4 DEF again

\* What a tick makes of a row that is in the table.
LEMMA GoodTick ==
    ASSUME NEW j \in Jobs, NEW row, GoodRow(j, row)
    PROVE  LET aged == [row EXCEPT
                          !.dueIn = IF @ > -OverdueBound THEN @ - 1 ELSE @,
                          !.claimAge = IF row.state = "running" /\ @ < AgeBound
                                       THEN @ + 1 ELSE @]
           IN  GoodRow(j, aged) /\ aged.state = row.state /\ aged.dueIn <= row.dueIn
<1> DEFINE due == IF row.dueIn > -OverdueBound THEN row.dueIn - 1 ELSE row.dueIn
           age == IF row.state = "running" /\ row.claimAge < AgeBound
                  THEN row.claimAge + 1 ELSE row.claimAge
           nearer == [row EXCEPT !.dueIn = due]
           aged == [nearer EXCEPT !.claimAge = age]
<1>1. due \in -OverdueBound .. DelayBound /\ due <= row.dueIn /\ age \in 0 .. AgeBound
  BY QueueAssumption DEF GoodRow, Rows
<1>2. [row EXCEPT !.dueIn = IF @ > -OverdueBound THEN @ - 1 ELSE @,
                  !.claimAge = IF row.state = "running" /\ @ < AgeBound
                               THEN @ + 1 ELSE @] = aged
  BY DEF GoodRow, Rows
<1> HIDE DEF due, age
<1>3. /\ nearer \in Rows /\ nearer.state = row.state /\ nearer.dueIn <= row.dueIn
      /\ nearer.claimedBy = row.claimedBy /\ nearer.attempts = row.attempts
  BY <1>1 DEF GoodRow, Rows
<1> HIDE DEF nearer
<1>4. /\ aged \in Rows /\ aged.state = row.state /\ aged.dueIn <= row.dueIn
      /\ aged.claimedBy = row.claimedBy /\ aged.attempts = row.attempts
  BY <1>1, <1>3 DEF Rows
<1> HIDE DEF aged
<1> QED BY <1>2, <1>4 DEF GoodRow

-----------------------------------------------------------------------------
(* The inductive invariant *)

\* Its conjunct about the table alone.
TableInv == table \in [Jobs -> Rows] /\ \A j \in Jobs : GoodRow(j, table[j])

\* Fenced is kept apart: it needs distinct PIDs.
IInv ==
    /\ TypeOK
    /\ TableInv
    /\ ClaimInHand
    /\ SelectedRows
    /\ ResultRecorded
    /\ NoJobLost

\* Writing one good row keeps the table good.
LEMMA SetRowGood ==
    ASSUME TableInv, NEW j \in Jobs, NEW row, GoodRow(j, row), SetRow(j, row)
    PROVE  TableInv' /\ table'[j] = row /\ \A k \in Jobs \ {j} : table'[k] = table[k]
  BY DEF TableInv, SetRow, GoodRow

\* The initial table is good, nobody holds anything.
LEMMA InitIInv == Init => IInv
<1> SUFFICES ASSUME Init PROVE IInv
  OBVIOUS
<1>1. NoRow \in Rows /\ NoRow.state = "absent" /\ NoRow.claimedBy = NoWorker
  BY QueueAssumption DEF NoRow, Rows
<1>2. TableInv
  BY <1>1 DEF Init, TableInv, GoodRow
<1>3. TypeOK
  BY <1>1, QueueAssumption DEF Init, TypeOK, Places, Off
<1>4. ClaimInHand /\ SelectedRows /\ ResultRecorded
  BY DEF Init, ClaimInHand, SelectedRows, ResultRecorded, Holding, Off
<1>5. NoJobLost
  BY <1>1 DEF Init, NoJobLost
<1> QED BY <1>2, <1>3, <1>4, <1>5 DEF IInv

\* A step that touches no row keeps what is said of rows.
LEMMA TableKept ==
    ASSUME IInv, UNCHANGED table, succeeded \subseteq succeeded', discarded' = discarded
    PROVE  TableInv' /\ NoJobLost'
  BY DEF IInv, TableInv, GoodRow, NoJobLost

\* The process starts afresh, dies or exits.
LEMMA ResetStep ==
    ASSUME IInv, NEW w \in Workers, NEW place \in {"stopped", "recover"},
           Reset(w, place), UNCHANGED <<table, phase, history>>,
           disturbances' \in 0 .. DisturbanceBound
    PROVE  IInv'
<1> USE DEF IInv, Reset, Goto, history
<1>1. TypeOK'
  BY QueueAssumption DEF TypeOK, Places, Off
<1>2. ClaimInHand' /\ ResultRecorded'
  BY DEF TypeOK, ClaimInHand, ResultRecorded, Holding
<1>3. SelectedRows'
  BY DEF TypeOK, SelectedRows
<1> QED BY <1>1, <1>2, <1>3, TableKept

\* The actions of a worker that leave the table alone.
LEMMA WorkerStepKeepsTable ==
    ASSUME IInv, NEW w \in Workers
    PROVE  /\ Start(w) \/ Crash(w) \/ Exit(w) => IInv'
           /\ Signal(w) \/ Return(w) \/ RecoverStaleFails(w) => IInv'
           /\ SelectJob(w) \/ NothingToClaim(w) \/ ClaimTaken(w) \/ Poll(w) => IInv'
           /\ ExecutionReturns(w) \/ HeartbeatFails(w) \/ StartDrain(w) => IInv'
           /\ ReceiveResult(w) \/ DrainTimeout(w) \/ ConcludeFails(w) => IInv'
<1> USE DEF IInv, Goto, history
<1>0. TypeOK
  OBVIOUS
<1>1. CASE Start(w) \/ Crash(w) \/ Exit(w)
  <2>1. /\ Reset(w, "stopped") \/ Reset(w, "recover")
        /\ UNCHANGED <<table, phase, history>>
        /\ disturbances' \in 0 .. DisturbanceBound
    BY <1>1, <1>0, QueueAssumption DEF Start, Crash, Exit, Disturb, TypeOK
  <2> QED BY <2>1, ResetStep
<1>2. ASSUME RecoverStaleFails(w) PROVE IInv'
  <2>1. disturbances' \in 0 .. DisturbanceBound
    BY <1>2, QueueAssumption DEF RecoverStaleFails, Disturb, TypeOK
  <2>2. CASE w \in Once
    BY <1>2, <2>1, <2>2, ResetStep DEF RecoverStaleFails
  <2>3. CASE w \notin Once
    <3>1. TypeOK'
      BY <1>2, <2>1, <2>3 DEF RecoverStaleFails, TypeOK, Places
    <3>2. ClaimInHand' /\ ResultRecorded'
      BY <1>2, <2>3 DEF RecoverStaleFails, TypeOK, ClaimInHand, ResultRecorded, Holding
    <3>3. SelectedRows'
      BY <1>2, <2>3 DEF RecoverStaleFails, TypeOK, SelectedRows
    <3> QED BY <1>2, <3>1, <3>2, <3>3, TableKept DEF RecoverStaleFails
  <2> QED BY <2>2, <2>3
<1>3. ASSUME SelectJob(w) PROVE IInv'
  <2>1. PICK j \in First(Selectable(w)) : claim' = [claim EXCEPT ![w] = j]
    BY <1>3 DEF SelectJob
  <2>2. j \in Jobs /\ table[j].state = "ready" /\ table[j].dueIn <= 0 /\ ~Locked(j)
    BY <2>1 DEF First, Selectable
  <2>3. TypeOK'
    BY <1>3, <2>1, <2>2 DEF SelectJob, TypeOK, Places
  <2>4. ClaimInHand'
    BY <1>3, <2>1, <2>2 DEF SelectJob, TypeOK, ClaimInHand, Holding
  <2>5. SelectedRows'
    BY <1>3, <2>1, <2>2 DEF SelectJob, TypeOK, SelectedRows, Locked, LocksOrOneWorker
  <2>6. ResultRecorded'
    BY <1>3, <2>1, <2>2 DEF SelectJob, TypeOK, ResultRecorded, ClaimInHand, Holding
  <2> QED BY <1>3, <2>3, <2>4, <2>5, <2>6, TableKept DEF SelectJob
<1>4. ASSUME Signal(w) PROVE IInv'
  <2>1. TypeOK'
    BY <1>4, QueueAssumption DEF Signal, Disturb, TypeOK, Places, Off
  <2>2. ClaimInHand' /\ SelectedRows'
    BY <1>4 DEF Signal, Disturb, TypeOK, ClaimInHand, SelectedRows, Holding
  <2>3. ResultRecorded' /\ TableInv' /\ NoJobLost'
    BY <1>4, TableKept DEF Signal, Disturb, TypeOK, ResultRecorded
  <2> QED BY <2>1, <2>2, <2>3
<1>5. ASSUME Return(w) PROVE IInv'
  <2>1. TypeOK'
    BY <1>5, QueueAssumption DEF Return, TypeOK, Places, Off
  <2>2. ClaimInHand' /\ SelectedRows'
    BY <1>5 DEF Return, TypeOK, ClaimInHand, SelectedRows, Holding
  <2>3. ResultRecorded' /\ TableInv' /\ NoJobLost'
    BY <1>5, TableKept DEF Return, TypeOK, ResultRecorded
  <2> QED BY <2>1, <2>2, <2>3
<1>6. ASSUME NothingToClaim(w) PROVE IInv'
  <2>1. TypeOK'
    BY <1>6, QueueAssumption DEF NothingToClaim, TypeOK, Places, Off
  <2>2. ClaimInHand' /\ SelectedRows'
    BY <1>6 DEF NothingToClaim, TypeOK, ClaimInHand, SelectedRows, Holding
  <2>3. ResultRecorded' /\ TableInv' /\ NoJobLost'
    BY <1>6, TableKept DEF NothingToClaim, TypeOK, ResultRecorded
  <2> QED BY <2>1, <2>2, <2>3
<1>7. ASSUME Poll(w) PROVE IInv'
  <2>1. TypeOK'
    BY <1>7, QueueAssumption DEF Poll, TypeOK, Places, Off
  <2>2. ClaimInHand' /\ SelectedRows'
    BY <1>7 DEF Poll, TypeOK, ClaimInHand, SelectedRows, Holding
  <2>3. ResultRecorded' /\ TableInv' /\ NoJobLost'
    BY <1>7, TableKept DEF Poll, TypeOK, ResultRecorded
  <2> QED BY <2>1, <2>2, <2>3
<1>8. ASSUME ExecutionReturns(w) PROVE IInv'
  <2>0. claim[w] \in Jobs
    BY <1>8 DEF ExecutionReturns, ClaimInHand
  <2>1. TypeOK'
    BY <1>8, <2>0 DEF ExecutionReturns, TypeOK
  <2>2. ClaimInHand' /\ SelectedRows'
    BY <1>8 DEF ExecutionReturns, TypeOK, ClaimInHand, SelectedRows, Holding
  <2>3. ResultRecorded' /\ TableInv' /\ NoJobLost'
    BY <1>8, TableKept DEF ExecutionReturns, TypeOK, ResultRecorded
  <2> QED BY <2>1, <2>2, <2>3
<1>9. ASSUME HeartbeatFails(w) PROVE IInv'
  <2>1. TypeOK'
    BY <1>9, QueueAssumption DEF HeartbeatFails, Disturb, TypeOK, Places, Off
  <2>2. ClaimInHand' /\ SelectedRows'
    BY <1>9 DEF HeartbeatFails, Disturb, TypeOK, ClaimInHand, SelectedRows, Holding
  <2>3. ResultRecorded' /\ TableInv' /\ NoJobLost'
    BY <1>9, TableKept DEF HeartbeatFails, Disturb, TypeOK, ResultRecorded
  <2> QED BY <2>1, <2>2, <2>3
<1>10. ASSUME StartDrain(w) PROVE IInv'
  <2>1. TypeOK'
    BY <1>10, QueueAssumption DEF StartDrain, TypeOK, Places, Off
  <2>2. ClaimInHand' /\ SelectedRows'
    BY <1>10 DEF StartDrain, TypeOK, ClaimInHand, SelectedRows, Holding
  <2>3. ResultRecorded' /\ TableInv' /\ NoJobLost'
    BY <1>10, TableKept DEF StartDrain, TypeOK, ResultRecorded
  <2> QED BY <2>1, <2>2, <2>3
<1>11. ASSUME ReceiveResult(w) PROVE IInv'
  <2>1. TypeOK'
    BY <1>11, QueueAssumption DEF ReceiveResult, TypeOK, Places, Off
  <2>2. ClaimInHand' /\ SelectedRows'
    BY <1>11 DEF ReceiveResult, TypeOK, ClaimInHand, SelectedRows, Holding
  <2>3. ResultRecorded' /\ TableInv' /\ NoJobLost'
    BY <1>11, TableKept DEF ReceiveResult, TypeOK, ResultRecorded
  <2> QED BY <2>1, <2>2, <2>3
<1>12. ASSUME DrainTimeout(w) PROVE IInv'
  <2>1. TypeOK'
    BY <1>12, QueueAssumption DEF DrainTimeout, TypeOK, Places, Off
  <2>2. ClaimInHand' /\ SelectedRows'
    BY <1>12 DEF DrainTimeout, TypeOK, ClaimInHand, SelectedRows, Holding
  <2>3. ResultRecorded' /\ TableInv' /\ NoJobLost'
    BY <1>12, TableKept DEF DrainTimeout, TypeOK, ResultRecorded
  <2> QED BY <2>1, <2>2, <2>3
<1>13. ASSUME ConcludeFails(w) PROVE IInv'
  <2>1. TypeOK'
    BY <1>13, QueueAssumption DEF ConcludeFails, NextIteration, Disturb, TypeOK, Places, Off
  <2>2. ClaimInHand' /\ SelectedRows'
    BY <1>13 DEF ConcludeFails, NextIteration, Disturb, TypeOK, ClaimInHand, SelectedRows, Holding
  <2>3. ResultRecorded' /\ TableInv' /\ NoJobLost'
    BY <1>13, TableKept DEF ConcludeFails, NextIteration, Disturb, TypeOK, ResultRecorded
  <2> QED BY <2>1, <2>2, <2>3
<1>14. ASSUME ClaimTaken(w) PROVE IInv'
  <2>1. TypeOK'
    BY <1>14, QueueAssumption DEF ClaimTaken, TypeOK, Places, Off
  <2>2. ClaimInHand' /\ SelectedRows'
    BY <1>14 DEF ClaimTaken, TypeOK, ClaimInHand, SelectedRows, Holding
  <2>3. ResultRecorded' /\ TableInv' /\ NoJobLost'
    BY <1>14, TableKept DEF ClaimTaken, TypeOK, ResultRecorded, ClaimInHand, Holding
  <2> QED BY <2>1, <2>2, <2>3
<1> QED BY <1>1, <1>2, <1>3, <1>4, <1>5, <1>6, <1>7, <1>8, <1>9, <1>10, <1>11, <1>12, <1>13,
           <1>14

\* The rows of the other open claim transactions are left alone.
OthersKept(w) ==
    \A v \in Workers \ {w} : pc[v] = "commit" => table'[claim[v]] = table[claim[v]]

\* The worker's actions that write one row: the claim's commit, whether it is
\* reported or not, the heartbeat, and the two conclusions.
LEMMA ClaimStep ==
    ASSUME IInv, NEW w \in Workers, pc[w] = "commit",
           SetRow(claim[w], Claimed(w, table[claim[w]])),
           UNCHANGED <<succeeded, discarded>>
    PROVE  /\ TableInv' /\ NoJobLost'
           /\ LocksOrOneWorker => OthersKept(w)
           /\ table'[claim[w]].state = "running"
<1> DEFINE j == claim[w]
<1>1. j \in Jobs /\ table[j] \in Rows
  BY DEF IInv, ClaimInHand, TypeOK
<1>2. GoodRow(j, Claimed(w, table[j]))
  BY <1>1, GoodClaims DEF IInv, TypeOK
<1>3. /\ TableInv' /\ table'[j] = Claimed(w, table[j])
      /\ \A k \in Jobs \ {j} : table'[k] = table[k]
  BY <1>1, <1>2, SetRowGood DEF IInv
<1>4. table'[j].state = "running"
  BY <1>1, <1>3, ClaimedType DEF IInv, TypeOK
<1>5. NoJobLost'
  BY <1>3, <1>4 DEF IInv, NoJobLost
<1>6. LocksOrOneWorker => OthersKept(w)
  BY <1>1, <1>3 DEF IInv, ClaimInHand, SelectedRows, OthersKept
<1> QED BY <1>3, <1>4, <1>5, <1>6

\* A committed claim is held by its worker alone.
LEMMA CommitClaimStep ==
    ASSUME IInv, NEW w \in Workers, CommitClaim(w)
    PROVE  IInv'
<1> USE DEF CommitClaim, Goto, history
<1>1. /\ claim[w] \in Jobs
      /\ NextAttempt(table[claim[w]]) \in 0 .. AttemptBound
  BY ClaimedType DEF IInv, ClaimInHand, TypeOK
<1>2. /\ TableInv' /\ NoJobLost'
      /\ LocksOrOneWorker => OthersKept(w)
  BY ClaimStep
<1>3. TypeOK'
  BY <1>1, <1>2, QueueAssumption DEF IInv, TypeOK, TableInv, Places, Off
<1>4. ClaimInHand' /\ ResultRecorded'
  BY <1>1 DEF IInv, TypeOK, ClaimInHand, ResultRecorded, Holding
<1>5. SelectedRows'
  BY <1>2 DEF IInv, TypeOK, SelectedRows, OthersKept
<1> QED BY <1>2, <1>3, <1>4, <1>5 DEF IInv

\* An error of the COMMIT leaves the row ready, or running for a worker that does
\* not know of it.
LEMMA ClaimFailsStep ==
    ASSUME IInv, NEW w \in Workers, ClaimFails(w)
    PROVE  IInv'
<1> USE DEF Goto, history
<1>1. /\ TableInv' /\ NoJobLost'
      /\ LocksOrOneWorker => OthersKept(w)
      /\ disturbances' \in 0 .. DisturbanceBound
  <2>1. CASE UNCHANGED table
    <3>1. TableInv' /\ NoJobLost'
      BY <2>1, TableKept DEF ClaimFails
    <3>2. LocksOrOneWorker => OthersKept(w)
      BY <2>1 DEF OthersKept
    <3>3. disturbances' \in 0 .. DisturbanceBound
      BY QueueAssumption DEF ClaimFails, Disturb, IInv, TypeOK
    <3> QED BY <3>1, <3>2, <3>3
  <2>2. CASE pc[w] = "commit" /\ SetRow(claim[w], Claimed(w, table[claim[w]]))
    <3>1. disturbances' \in 0 .. DisturbanceBound
      BY QueueAssumption DEF ClaimFails, Disturb, IInv, TypeOK
    <3> QED BY <2>2, <3>1, ClaimStep DEF ClaimFails
  <2> QED BY <2>1, <2>2 DEF ClaimFails
<1>2. pc' = [pc EXCEPT ![w] = "stopped"] \/ pc' = [pc EXCEPT ![w] = "poll"]
  BY DEF ClaimFails, Reset
<1>3. /\ claim' = [claim EXCEPT ![w] = NoJob]
      /\ attempt' = attempt \/ attempt' = [attempt EXCEPT ![w] = 0]
      /\ exec' = exec \/ exec' = [exec EXCEPT ![w] = "none"]
      /\ beat' = beat \/ beat' = [beat EXCEPT ![w] = Off]
      /\ signalled' = signalled \/ signalled' = [signalled EXCEPT ![w] = FALSE]
      /\ phase' = phase /\ succeeded' = succeeded /\ discarded' = discarded
  BY DEF ClaimFails, Reset
<1>4. exec[w] = "none" /\ beat[w] = Off
  BY DEF ClaimFails, IInv, ClaimInHand, Holding
<1>5. TypeOK'
  <2>1. /\ exec' \in [Workers -> {"none", "running", "ok", "error"}]
        /\ beat' \in [Workers -> Off .. HeartbeatInterval]
    BY <1>3, QueueAssumption DEF IInv, TypeOK, Off
  <2>2. /\ attempt' \in [Workers -> 0 .. AttemptBound]
        /\ signalled' \in [Workers -> BOOLEAN]
    <3>1. 0 \in 0 .. AttemptBound
      BY QueueAssumption
    <3> QED BY <1>3, <3>1 DEF IInv, TypeOK
  <2>3. pc' \in [Workers -> Places] /\ claim' \in [Workers -> Jobs \cup {NoJob}]
    BY <1>2, <1>3 DEF IInv, TypeOK, Places
  <2> QED BY <1>1, <1>3, <2>1, <2>2, <2>3 DEF IInv, TypeOK, TableInv
<1>6. ClaimInHand' /\ ResultRecorded'
  BY <1>2, <1>3, <1>4 DEF IInv, TypeOK, ClaimInHand, ResultRecorded, Holding, Off
<1>7. SelectedRows'
  BY <1>1, <1>2, <1>3 DEF IInv, TypeOK, SelectedRows, OthersKept
<1> QED BY <1>1, <1>5, <1>6, <1>7 DEF IInv

\* A heartbeat renews the claim of its own worker or finds it lost.
LEMMA HeartbeatStep ==
    ASSUME IInv, NEW w \in Workers, Heartbeat(w)
    PROVE  IInv'
<1> USE DEF Heartbeat, history
<1> DEFINE j == claim[w]
<1>1. j \in Jobs /\ table[j] \in Rows /\ pc[w] \in {"execute", "drain"}
  BY DEF IInv, ClaimInHand, TypeOK, Holding, Off
<1>2. /\ TableInv' /\ NoJobLost'
      /\ \A k \in Jobs : table[k].state \in {"ready", "deleted"} => table'[k] = table[k]
  <2>1. CASE UNCHANGED table
    BY <2>1, TableKept
  <2>2. CASE ClaimedBy(table[j], WorkerId[w]) /\ SetRow(j, Stamp(table[j]))
    <3>1. GoodRow(j, Stamp(table[j]))
      BY <1>1, GoodClaims DEF IInv, TableInv, TypeOK
    <3>2. /\ TableInv' /\ table'[j] = Stamp(table[j])
          /\ \A k \in Jobs \ {j} : table'[k] = table[k]
      BY <1>1, <2>2, <3>1, SetRowGood DEF IInv
    <3>3. table[j].state = "running" /\ table'[j].state = "running"
      BY <1>1, <2>2, <3>2, StampType DEF ClaimedBy, IInv, TypeOK, SetRow
    <3> QED BY <3>2, <3>3 DEF IInv, NoJobLost
  <2> QED BY <2>1, <2>2
<1>3. TypeOK'
  BY <1>2, QueueAssumption DEF IInv, TypeOK, TableInv, Off
<1>4. ClaimInHand' /\ ResultRecorded'
  BY <1>1 DEF IInv, TypeOK, ClaimInHand, ResultRecorded, Holding
<1>5. SelectedRows'
  BY <1>2 DEF IInv, ClaimInHand, SelectedRows
<1> QED BY <1>2, <1>3, <1>4, <1>5 DEF IInv

\* An acknowledgement or a failure concludes the claim of its own worker.
LEMMA ConcludeStep ==
    ASSUME IInv, NEW w \in Workers, Acknowledge(w) \/ Fail(w)
    PROVE  IInv'
<1> USE DEF NextIteration, Goto, history
<1> DEFINE j == claim[w]
<1>1. /\ j \in Jobs /\ table[j] \in Rows /\ pc[w] = "conclude" /\ beat[w] = Off
      /\ NextIteration(w) /\ UNCHANGED disturbances
  BY DEF Acknowledge, Fail, IInv, ClaimInHand, TypeOK, Holding
<1>2. /\ TableInv' /\ NoJobLost'
      /\ \A k \in Jobs : table[k].state \in {"ready", "deleted"} => table'[k] = table[k]
  <2>1. CASE UNCHANGED table
    BY <1>1, <2>1, TableKept
  <2>2. ASSUME NEW row, SetRow(j, row), GoodRow(j, row), table[j].state = "running",
               row.state = "deleted" => j \in succeeded
        PROVE  /\ TableInv' /\ NoJobLost'
               /\ \A k \in Jobs : table[k].state \in {"ready", "deleted"} => table'[k] = table[k]
    <3>1. /\ TableInv' /\ table'[j] = row
          /\ \A k \in Jobs \ {j} : table'[k] = table[k]
      BY <1>1, <2>2, SetRowGood DEF IInv
    <3> QED BY <1>1, <2>2, <3>1 DEF IInv, NoJobLost
  <2>3. CASE Acknowledge(w) /\ table' # table
    <3> DEFINE row == [NoRow EXCEPT !.state = "deleted"]
    <3>1. SetRow(j, row) /\ table[j].state = "running" /\ j \in succeeded
      BY <2>3 DEF Acknowledge, ClaimedBy, IInv, ResultRecorded
    <3>2. GoodRow(j, row)
      BY <1>1, GoodRows
    <3> QED BY <2>2, <3>1, <3>2
  <2>4. CASE Fail(w) /\ table' # table
    <3> DEFINE row == FailedOnce(j, table[j])
    <3>1. SetRow(j, row) /\ table[j].state = "running"
      BY <2>4 DEF Fail, ClaimedBy
    <3>2. GoodRow(j, row) /\ row.state # "deleted"
      BY <1>1, GoodRows, FailedOnceType
    <3> QED BY <2>2, <3>1, <3>2
  <2> QED BY <2>1, <2>3, <2>4
<1>3. TypeOK'
  BY <1>1, <1>2, QueueAssumption DEF IInv, TypeOK, TableInv, Places
<1>4. ClaimInHand' /\ ResultRecorded'
  BY <1>1 DEF IInv, TypeOK, ClaimInHand, ResultRecorded, Holding
<1>5. SelectedRows'
  BY <1>1, <1>2 DEF IInv, TypeOK, ClaimInHand, SelectedRows
<1> QED BY <1>2, <1>3, <1>4, <1>5 DEF IInv

\* A statement without an id condition makes some running rows ready again.
LEMMA ReadyAgainStep ==
    ASSUME IInv, NEW chosen,
           table' = [j \in Jobs |-> IF j \in chosen THEN ReadyAgain(table[j]) ELSE table[j]],
           \A j \in chosen : table[j].state = "running",
           UNCHANGED history
    PROVE  /\ TableInv' /\ NoJobLost'
           /\ \A k \in Jobs : table[k].state \in {"ready", "deleted"} => table'[k] = table[k]
<1>1. ASSUME NEW j \in Jobs
      PROVE  /\ GoodRow(j, table'[j]) /\ table'[j] \in Rows
             /\ table'[j].state = "deleted" => table[j].state = "deleted"
             /\ table[j].state \in {"ready", "deleted"} => table'[j] = table[j]
  <2>1. table[j] \in Rows /\ GoodRow(j, table[j])
    BY DEF IInv, TypeOK, TableInv
  <2>2. CASE j \in chosen
    BY <2>1, <2>2, GoodRows, ReadyAgainType
  <2>3. CASE j \notin chosen
    BY <2>1, <2>3
  <2> QED BY <2>2, <2>3
<1>2. TableInv'
  BY <1>1 DEF TableInv, GoodRow
<1> QED BY <1>1, <1>2 DEF IInv, NoJobLost, history

\* Stale recovery and the release of a worker make running rows ready.
LEMMA SweepStep ==
    ASSUME IInv, NEW w \in Workers, RecoverStale(w) \/ Release(w)
    PROVE  IInv'
<1> USE DEF Goto
<1>1. /\ TableInv' /\ NoJobLost'
      /\ \A k \in Jobs : table[k].state \in {"ready", "deleted"} => table'[k] = table[k]
      /\ disturbances' \in 0 .. DisturbanceBound
  <2>1. CASE RecoverStale(w)
    <3> DEFINE chosen == {j \in Jobs : Stale(table[j])}
    <3>1. /\ \A j \in chosen : table[j].state = "running"
          /\ table' = [j \in Jobs |-> IF j \in chosen THEN ReadyAgain(table[j]) ELSE table[j]]
      BY <2>1 DEF RecoverStale, Stale
    <3> HIDE DEF chosen
    <3> QED BY <2>1, <3>1, ReadyAgainStep DEF RecoverStale, IInv, TypeOK
  <2>2. CASE Release(w) /\ UNCHANGED table
    <3>1. disturbances' \in 0 .. DisturbanceBound
      BY <2>2, QueueAssumption DEF Release, Disturb, IInv, TypeOK
    <3> QED BY <2>2, <3>1, TableKept DEF Release, history
  <2>3. CASE Release(w) /\ table' # table
    <3> DEFINE chosen == {j \in Jobs : ClaimedBy(table[j], WorkerId[w])}
    <3>1. /\ \A j \in chosen : table[j].state = "running"
          /\ table' = [j \in Jobs |-> IF j \in chosen THEN ReadyAgain(table[j]) ELSE table[j]]
      BY <2>3 DEF Release, ClaimedBy
    <3> HIDE DEF chosen
    <3>2. UNCHANGED <<disturbances, history>>
      BY <2>3 DEF Release
    <3> QED BY <3>1, <3>2, ReadyAgainStep DEF IInv, TypeOK
  <2> QED BY <2>1, <2>2, <2>3
<1>2. /\ pc' \in [Workers -> Places]
      /\ \/ pc[w] = "recover" /\ pc' = [pc EXCEPT ![w] = "select"]
         \/ pc[w] = "release" /\ pc' = [pc EXCEPT ![w] = "exit"]
      /\ UNCHANGED <<claim, attempt, exec, beat, signalled, phase, history>>
  BY DEF RecoverStale, Release, IInv, TypeOK, Places
<1>3. TypeOK'
  BY <1>1, <1>2 DEF IInv, TypeOK, TableInv, history
<1>4. ClaimInHand' /\ ResultRecorded'
  BY <1>2 DEF IInv, TypeOK, ClaimInHand, ResultRecorded, Holding, history
<1>5. SelectedRows'
  BY <1>1, <1>2 DEF IInv, TypeOK, ClaimInHand, SelectedRows
<1> QED BY <1>1, <1>3, <1>4, <1>5 DEF IInv

\* An enqueue, a manual retry and a discard write the one row they name.
LEMMA OperatorStep ==
    ASSUME IInv, NEW j \in Jobs, Enqueue(j) \/ Retry(j) \/ Discard(j)
    PROVE  IInv'
<1> USE DEF workerVars, history
<1> DEFINE SelectedKept ==
      LocksOrOneWorker =>
        \A w \in Workers : pc[w] = "commit" =>
          table'[claim[w]] = table[claim[w]] \/ table'[claim[w]].state = "deleted"
<1>1. /\ UNCHANGED <<workerVars, phase, succeeded>>
      /\ disturbances' \in 0 .. DisturbanceBound
      /\ discarded \subseteq discarded' /\ discarded' \subseteq Jobs
  <2>1. disturbances \in 0 .. DisturbanceBound /\ discarded \subseteq Jobs
    BY DEF IInv, TypeOK
  <2>2. CASE Enqueue(j)
    BY <2>1, <2>2 DEF Enqueue
  <2>3. CASE Retry(j)
    BY <2>1, <2>3, QueueAssumption DEF Retry, Disturb
  <2>4. CASE Discard(j)
    BY <2>1, <2>4 DEF Discard
  <2> QED BY <2>2, <2>3, <2>4
<1>2. table[j] \in Rows
  BY DEF IInv, TypeOK
<1>3. /\ TableInv' /\ NoJobLost'
      /\ SelectedKept
  <2>1. ASSUME NEW row, SetRow(j, row), GoodRow(j, row),
               row.state = "deleted" => j \in discarded',
               \/ table[j].state \notin {"ready", "deleted"}
               \/ row.state = "deleted" /\ ~Locked(j)
        PROVE  /\ TableInv' /\ NoJobLost'
               /\ SelectedKept
    <3>1. /\ TableInv' /\ table'[j] = row
          /\ \A k \in Jobs \ {j} : table'[k] = table[k]
      BY <2>1, SetRowGood DEF IInv
    <3>2. NoJobLost'
      BY <1>1, <2>1, <3>1 DEF IInv, NoJobLost
    <3>3. ASSUME LocksOrOneWorker, NEW w \in Workers, pc[w] = "commit"
          PROVE  table'[claim[w]] = table[claim[w]] \/ table'[claim[w]].state = "deleted"
      BY <2>1, <3>1, <3>3 DEF IInv, ClaimInHand, SelectedRows
    <3> QED BY <3>1, <3>2, <3>3
  <2>2. CASE Enqueue(j)
    <3>1. PICK delay \in 0 .. DelayBound :
             SetRow(j, [NoRow EXCEPT !.state = "ready", !.dueIn = delay])
      BY <2>2 DEF Enqueue
    <3> DEFINE row == [NoRow EXCEPT !.state = "ready", !.dueIn = delay]
    <3>2. GoodRow(j, row)
      BY <1>2, GoodRows
    <3>3. row.state = "ready" /\ table[j].state = "absent"
      BY <2>2 DEF Enqueue, NoRow
    <3> HIDE DEF row
    <3> QED BY <2>1, <3>1, <3>2, <3>3 DEF row
  <2>3. CASE Retry(j)
    <3> DEFINE again == ReadyAgain(table[j])
               row == [again EXCEPT !.attempts = 0, !.dueIn = 0]
    <3>1. GoodRow(j, row)
      BY <1>2, GoodRetry
    <3>2. row.state = "ready"
      BY <1>2, ReadyAgainType DEF Rows
    <3>3. SetRow(j, row) /\ table[j].state = "failed"
      BY <2>3 DEF Retry
    <3> HIDE DEF row
    <3> QED BY <2>1, <3>1, <3>2, <3>3
  <2>4. CASE Discard(j)
    <3> DEFINE row == [NoRow EXCEPT !.state = "deleted"]
    <3>1. GoodRow(j, row)
      BY <1>2, GoodRows
    <3>2. SetRow(j, row) /\ ~Locked(j) /\ j \in discarded' /\ row.state = "deleted"
      BY <2>4 DEF Discard, NoRow
    <3> HIDE DEF row
    <3> QED BY <2>1, <3>1, <3>2
  <2> QED BY <2>2, <2>3, <2>4
<1>4. TypeOK'
  BY <1>1, <1>3 DEF IInv, TypeOK, TableInv
<1>5. ClaimInHand' /\ ResultRecorded'
  BY <1>1 DEF IInv, ClaimInHand, ResultRecorded, Holding
<1>6. SelectedRows'
  BY <1>1, <1>3 DEF IInv, SelectedRows
<1> QED BY <1>3, <1>4, <1>5, <1>6 DEF IInv

\* Time moves on for all rows and workers at once.
LEMMA TickStep ==
    ASSUME IInv, Tick
    PROVE  IInv'
<1>1. UNCHANGED <<pc, claim, attempt, exec, signalled, disturbances, succeeded, discarded>>
  BY DEF Tick, history
<1>2. ASSUME NEW j \in Jobs
      PROVE  /\ GoodRow(j, table'[j]) /\ table'[j].state = table[j].state
             /\ table'[j].dueIn <= table[j].dueIn
  <2>1. GoodRow(j, table[j])
    BY DEF IInv, TableInv
  <2>2. CASE table[j].state \in {"absent", "deleted"}
    <3>1. table'[j] = table[j]
      BY <2>2 DEF Tick
    <3>2. table[j].dueIn \in Int
      BY <2>1, QueueAssumption DEF GoodRow, Rows
    <3> QED BY <2>1, <3>1, <3>2
  <2>3. CASE table[j].state \notin {"absent", "deleted"}
    <3> DEFINE aged(row) ==
          [row EXCEPT !.dueIn = IF @ > -OverdueBound THEN @ - 1 ELSE @,
                      !.claimAge = IF row.state = "running" /\ @ < AgeBound
                                   THEN @ + 1 ELSE @]
    <3>1. table'[j] = aged(table[j])
      BY <2>3 DEF Tick
    <3>2. /\ GoodRow(j, aged(table[j])) /\ aged(table[j]).state = table[j].state
          /\ aged(table[j]).dueIn <= table[j].dueIn
      BY <2>1, GoodTick
    <3> QED BY <3>1, <3>2
  <2> QED BY <2>2, <2>3
<1>3. TableInv'
  BY <1>2 DEF Tick, TableInv, GoodRow
<1>4. ASSUME NEW w \in Workers
      PROVE  beat'[w] \in Off .. HeartbeatInterval /\ (beat'[w] # Off => beat[w] # Off)
  <2>1. beat[w] \in -1 .. HeartbeatInterval
    BY DEF IInv, TypeOK, Off
  <2>2. beat'[w] = IF beat[w] > 0 THEN beat[w] - 1 ELSE beat[w]
    BY DEF Tick
  <2> QED BY <2>1, <2>2, QueueAssumption DEF Off
<1>5. beat' \in [Workers -> Off .. HeartbeatInterval] /\ phase' \in 0 .. StampPeriod - 1
  <2>1. phase \in 0 .. StampPeriod - 1
    BY DEF IInv, TypeOK
  <2>2. phase' = IF phase + 1 = StampPeriod THEN 0 ELSE phase + 1
    BY DEF Tick
  <2>3. phase' \in 0 .. StampPeriod - 1
    BY <2>1, <2>2, QueueAssumption
  <2>4. beat' = [w \in Workers |-> IF beat[w] > 0 THEN beat[w] - 1 ELSE beat[w]]
    BY DEF Tick
  <2> QED BY <1>4, <2>3, <2>4
<1>6. TypeOK'
  BY <1>1, <1>3, <1>5 DEF IInv, TypeOK, TableInv
<1>7. ClaimInHand' /\ ResultRecorded'
  BY <1>1, <1>4 DEF IInv, ClaimInHand, ResultRecorded, Holding
<1>8. SelectedRows'
  <2> SUFFICES ASSUME LocksOrOneWorker, NEW w \in Workers, pc[w] = "commit"
               PROVE  /\ \/ table'[claim[w]].state = "ready" /\ table'[claim[w]].dueIn <= 0
                         \/ table'[claim[w]].state = "deleted"
                      /\ \A v \in Workers : pc[v] = "commit" /\ claim[v] = claim[w] => v = w
    BY <1>1 DEF SelectedRows
  <2> DEFINE k == claim[w]
  <2>1. /\ k \in Jobs
        /\ \/ table[k].state = "ready" /\ table[k].dueIn <= 0
           \/ table[k].state = "deleted"
        /\ \A v \in Workers : pc[v] = "commit" /\ claim[v] = claim[w] => v = w
    BY DEF IInv, ClaimInHand, SelectedRows
  <2>2. table[k] \in Rows /\ table'[k] \in Rows
    BY <1>2, <2>1 DEF IInv, TypeOK, GoodRow
  <2>3. table[k].dueIn \in Int /\ table'[k].dueIn \in Int
    BY <2>2, QueueAssumption DEF Rows
  <2> QED BY <1>2, <2>1, <2>3
<1>9. NoJobLost'
  BY <1>1, <1>2 DEF IInv, NoJobLost
<1> QED BY <1>3, <1>6, <1>7, <1>8, <1>9 DEF IInv

-----------------------------------------------------------------------------
(* The theorems *)

\* The invariant holds in every reachable state.
THEOREM InductiveInvariant == Spec => []IInv
<1>1. Init => IInv
  BY InitIInv
<1>2. IInv /\ [Next]_vars => IInv'
  <2> SUFFICES ASSUME IInv, [Next]_vars PROVE IInv'
    OBVIOUS
  <2>1. ASSUME NEW j \in Jobs, Enqueue(j) \/ Retry(j) \/ Discard(j) PROVE IInv'
    BY <2>1, OperatorStep
  <2>2. ASSUME NEW w \in Workers, WorkerStep(w) PROVE IInv'
    BY <2>2, WorkerStepKeepsTable, SweepStep, CommitClaimStep, ClaimFailsStep,
       ConcludeStep DEF WorkerStep
  <2>3. ASSUME NEW w \in Workers, WorkerFault(w) PROVE IInv'
    BY <2>3, WorkerStepKeepsTable DEF WorkerFault
  <2>4. ASSUME NEW w \in Workers, Start(w) \/ ExecutionReturns(w) \/ Heartbeat(w)
        PROVE IInv'
    BY <2>4, WorkerStepKeepsTable, HeartbeatStep
  <2>5. CASE Tick
    BY <2>5, TickStep
  <2>6. CASE UNCHANGED vars
    <3>1. UNCHANGED <<table, pc, claim, attempt, exec, beat, signalled, phase,
                      disturbances, succeeded, discarded>>
      BY <2>6 DEF vars
    <3>2. TypeOK' /\ TableInv' /\ NoJobLost'
      BY <3>1, TableKept DEF IInv, TypeOK
    <3>3. ClaimInHand' /\ SelectedRows' /\ ResultRecorded'
      BY <3>1 DEF IInv, ClaimInHand, SelectedRows, ResultRecorded, Holding
    <3> QED BY <3>2, <3>3 DEF IInv
  <2> QED BY <2>1, <2>2, <2>3, <2>4, <2>5, <2>6 DEF Next
<1> QED BY <1>1, <1>2, PTL DEF Spec

\* Every variable stays within its type: no interleaving of statements, crashes
\* and faults leaves the table or a worker in an undefined state.
THEOREM TypeCorrect == Spec => []TypeOK
<1>1. IInv => TypeOK
  BY DEF IInv
<1> QED BY <1>1, InductiveInvariant, PTL

\* Delivery is at least once: only an execution that returned without error, or
\* trb jobs discard, removes a job, however claims are lost and retried.
THEOREM AtLeastOnce == Spec => []NoJobLost
<1>1. IInv => NoJobLost
  BY DEF IInv
<1> QED BY <1>1, InductiveInvariant, PTL

\* claimed_by is set exactly on running rows, and a failed job is exhausted.
THEOREM ConsistentTable == Spec => []ClaimConsistent
<1>1. IInv => ClaimConsistent
  BY DEF IInv, TableInv, GoodRow, ClaimConsistent
<1> QED BY <1>1, InductiveInvariant, PTL

-----------------------------------------------------------------------------
(* The fence, when no two worker processes have the same id *)

DistinctIds == \A v, w \in Workers : WorkerId[v] = WorkerId[w] => v = w

\* A step can only change which attempt a running row is at, or who claims it,
\* by claiming it anew.
LEMMA FenceKept ==
    ASSUME IInv, Fenced, [Next]_vars, DistinctIds
    PROVE  Fenced'
<1> SUFFICES ASSUME NEW w \in Workers, Holding(w)', ClaimedBy(table[claim[w]], WorkerId[w])'
             PROVE  table'[claim'[w]].attempts = attempt'[w]
  BY DEF Fenced
<1> DEFINE j == claim[w]
<1>1. CASE CommitClaim(w)
  <2>1. /\ j \in Jobs /\ table[j] \in Rows /\ phase \in 0 .. StampPeriod - 1
        /\ claim' = claim
        /\ table' = [table EXCEPT ![j] = Claimed(w, table[j])]
        /\ attempt' = [attempt EXCEPT ![w] = NextAttempt(table[j])]
    BY <1>1 DEF CommitClaim, SetRow, IInv, ClaimInHand, TypeOK
  <2>2. table'[j] = Claimed(w, table[j]) /\ attempt'[w] = NextAttempt(table[j])
    BY <2>1 DEF IInv, TypeOK
  <2> QED BY <2>1, <2>2, ClaimedType
<1>2. CASE ~CommitClaim(w)
  <2>1. Holding(w) /\ claim'[w] = claim[w] /\ attempt'[w] = attempt[w]
    <3> USE DEF IInv, TypeOK, Holding, Goto, Reset, NextIteration
    <3>1. CASE UNCHANGED <<pc, claim, attempt>>
      BY <3>1
    <3>2. CASE Tick \/ UNCHANGED vars \/ \E k \in Jobs : Enqueue(k) \/ Retry(k) \/ Discard(k)
      BY <3>1, <3>2 DEF Tick, vars, Enqueue, Retry, Discard, workerVars
    <3>3. ASSUME NEW v \in Workers, Start(v) \/ ExecutionReturns(v) \/ Heartbeat(v)
          PROVE  Holding(w) /\ claim'[w] = claim[w] /\ attempt'[w] = attempt[w]
      BY <3>3 DEF Start, ExecutionReturns, Heartbeat
    <3>4. ASSUME NEW v \in Workers, WorkerFault(v)
          PROVE  Holding(w) /\ claim'[w] = claim[w] /\ attempt'[w] = attempt[w]
      BY <3>4 DEF WorkerFault, Crash, Signal, RecoverStaleFails, HeartbeatFails, ConcludeFails
    <3>5. ASSUME NEW v \in Workers, WorkerStep(v)
          PROVE  Holding(w) /\ claim'[w] = claim[w] /\ attempt'[w] = attempt[w]
      <4>1. CASE \/ Return(v) \/ RecoverStale(v) \/ SelectJob(v)
                \/ NothingToClaim(v) \/ ClaimTaken(v) \/ Poll(v)
        BY <4>1 DEF Return, RecoverStale, SelectJob, NothingToClaim, ClaimTaken, Poll
      <4>2. CASE ClaimFails(v)
        BY <4>2 DEF ClaimFails
      <4>3. CASE CommitClaim(v)
        BY <1>2, <4>3 DEF CommitClaim
      <4>4. CASE StartDrain(v) \/ ReceiveResult(v) \/ DrainTimeout(v) \/ Release(v) \/ Exit(v)
        BY <4>4 DEF StartDrain, ReceiveResult, DrainTimeout, Release, Exit
      <4>5. CASE Acknowledge(v) \/ Fail(v)
        BY <4>5 DEF Acknowledge, Fail
      <4> QED BY <3>5, <4>1, <4>2, <4>3, <4>4, <4>5 DEF WorkerStep
    <3> QED BY <3>2, <3>3, <3>4, <3>5 DEF Next
  <2>2. j \in Jobs /\ table[j] \in Rows /\ phase \in 0 .. StampPeriod - 1
    BY <2>1 DEF IInv, TypeOK, ClaimInHand
  <2>3. \/ table'[j].state = table[j].state /\ table'[j].claimedBy = table[j].claimedBy
           /\ table'[j].attempts = table[j].attempts
        \/ table'[j].state # "running"
        \/ \E v \in Workers \ {w} : table'[j].claimedBy = WorkerId[v]
    <3> DEFINE Goal == \/ table'[j].state = table[j].state /\ table'[j].claimedBy = table[j].claimedBy
                          /\ table'[j].attempts = table[j].attempts
                       \/ table'[j].state # "running"
                       \/ \E v \in Workers \ {w} : table'[j].claimedBy = WorkerId[v]
    <3>0. ASSUME UNCHANGED table PROVE Goal
      BY <3>0
    <3>1. ASSUME NEW k \in Jobs, NEW row, SetRow(k, row), row.state # "running" PROVE Goal
      BY <2>2, <3>1 DEF SetRow, IInv, TypeOK
    <3>2. ASSUME NEW k \in Jobs, Enqueue(k) \/ Retry(k) \/ Discard(k) PROVE Goal
      <4>1. NoRow \in Rows /\ ReadyAgain(table[k]) \in Rows
        BY ReadyAgainType, QueueAssumption DEF NoRow, Rows, IInv, TypeOK
      <4>2. /\ \A delay : [NoRow EXCEPT !.state = "ready", !.dueIn = delay].state # "running"
            /\ [NoRow EXCEPT !.state = "deleted"].state # "running"
            /\ [ReadyAgain(table[k]) EXCEPT !.attempts = 0, !.dueIn = 0].state # "running"
        BY <4>1, ReadyAgainType DEF Rows, IInv, TypeOK, NoRow
      <4> QED BY <3>1, <3>2, <4>2 DEF Enqueue, Retry, Discard
    <3>3. ASSUME NEW v \in Workers, Acknowledge(v) \/ Fail(v) PROVE Goal
      <4>1. claim[v] \in Jobs /\ table[claim[v]] \in Rows
        BY <3>3 DEF Acknowledge, Fail, IInv, ClaimInHand, TypeOK, Holding
      <4>2. /\ [NoRow EXCEPT !.state = "deleted"].state # "running"
            /\ FailedOnce(claim[v], table[claim[v]]).state # "running"
        BY <4>1, FailedOnceType DEF NoRow
      <4> QED BY <3>0, <3>1, <3>3, <4>1, <4>2 DEF Acknowledge, Fail
    <3>4. ASSUME NEW v \in Workers, RecoverStale(v) \/ Release(v) PROVE Goal
      BY <2>2, <3>4, ReadyAgainType DEF RecoverStale, Release
    <3>5. ASSUME NEW v \in Workers, CommitClaim(v) \/ ClaimFails(v) PROVE Goal
      <4>1. v # w
        BY <1>2, <2>1, <3>5 DEF Holding, ClaimFails
      <4>2. UNCHANGED table \/ table' = [table EXCEPT ![claim[v]] = Claimed(v, table[claim[v]])]
        BY <3>5 DEF CommitClaim, ClaimFails, SetRow
      <4>3. table' = [table EXCEPT ![claim[v]] = Claimed(v, table[claim[v]])] =>
               table'[j] = table[j] \/ table'[j] = Claimed(v, table[j])
        BY <2>2 DEF IInv, TypeOK
      <4> QED BY <2>2, <4>1, <4>2, <4>3, ClaimedType
    <3>6. ASSUME NEW v \in Workers, Heartbeat(v) PROVE Goal
      <4>1. UNCHANGED table \/ table' = [table EXCEPT ![claim[v]] = Stamp(table[claim[v]])]
        BY <3>6 DEF Heartbeat, SetRow
      <4>2. table'[j] = table[j] \/ table'[j] = Stamp(table[j])
        BY <2>2, <4>1 DEF IInv, TypeOK
      <4> QED BY <2>2, <4>2, StampType
    <3>7. ASSUME Tick PROVE Goal
      BY <2>2, <3>7 DEF Tick, Rows
    <3>8. ASSUME NEW v \in Workers, WorkerStep(v) \/ WorkerFault(v) \/ Start(v) \/ ExecutionReturns(v)
          PROVE  Goal
      BY <3>0, <3>3, <3>4, <3>5, <3>8
         DEF WorkerStep, WorkerFault, Start, ExecutionReturns, Return, SelectJob,
             NothingToClaim, ClaimTaken, Poll, StartDrain, ReceiveResult, DrainTimeout, Exit,
             Crash, Signal, RecoverStaleFails, HeartbeatFails, ConcludeFails
    <3> HIDE DEF Goal
    <3>9. ASSUME UNCHANGED vars PROVE Goal
      BY <3>9 DEF vars, Goal
    <3>10. Goal
      <4>1. CASE Next
        BY <3>2, <3>6, <3>7, <3>8, <4>1 DEF Next
      <4> QED BY <3>9, <4>1
    <3> QED BY <3>10 DEF Goal
  <2> QED BY <2>1, <2>2, <2>3 DEF Fenced, ClaimedBy, DistinctIds, IInv, TypeOK, Rows
<1> QED BY <1>1, <1>2

\* With distinct PIDs, the condition on claimed_by is a fence: a worker whose
\* claim was recovered and taken again by another can no longer renew,
\* acknowledge or fail the job.
THEOREM FenceHolds == DistinctIds /\ Spec => []Fenced
<1> SUFFICES ASSUME DistinctIds PROVE Spec => []Fenced
  OBVIOUS
<1>1. Init => Fenced
  BY DEF Init, Fenced, Holding
<1>2. IInv /\ Fenced /\ [Next]_vars => Fenced'
  BY FenceKept
<1> QED BY <1>1, <1>2, InductiveInvariant, PTL DEF Spec

\* What one step does to a row that a worker holds.
LEMMA HeldRow ==
    ASSUME IInv, [Next]_vars, DistinctIds, NEW w \in Workers,
           Holding(w), ClaimedBy(table[claim[w]], WorkerId[w])
    PROVE  \/ ClaimedBy(table'[claim[w]], WorkerId[w])
           \/ pc'[w] # pc[w]
           \/ Stale(table[claim[w]]) /\ \E v \in Workers : RecoverStale(v)
<1> DEFINE j == claim[w]
           Stays == ClaimedBy(table'[j], WorkerId[w])
<1>1. /\ j \in Jobs /\ table[j] \in Rows /\ table[j].state = "running"
      /\ phase \in 0 .. StampPeriod - 1
      /\ table[j].claimedBy = WorkerId[w] /\ WorkerId[w] \in WorkerIds
  BY QueueAssumption DEF IInv, ClaimInHand, TypeOK, ClaimedBy
<1>2. table'[j] = table[j] => Stays
  OBVIOUS
<1>3. ASSUME NEW k \in Jobs, NEW row, SetRow(k, row), k # j PROVE Stays
  BY <1>1, <1>2, <1>3 DEF SetRow, IInv, TypeOK
<1>4. ASSUME NEW k \in Jobs, Enqueue(k) \/ Retry(k) \/ Discard(k) PROVE Stays
  BY <1>1, <1>3, <1>4 DEF Enqueue, Retry, Discard
<1>5. ASSUME NEW v \in Workers, CommitClaim(v) \/ ClaimFails(v) PROVE Stays
  <2>1. CASE UNCHANGED table
    BY <1>2, <2>1
  <2>2. CASE ~UNCHANGED table
    <3>1. /\ pc[v] = "commit" /\ StillReady(table[claim[v]])
          /\ SetRow(claim[v], Claimed(v, table[claim[v]]))
      BY <1>5, <2>2 DEF CommitClaim, ClaimFails
    <3>2. claim[v] \in Jobs /\ claim[v] # j
      BY <1>1, <3>1 DEF StillReady, IInv, ClaimInHand
    <3> QED BY <1>3, <3>1, <3>2
  <2> QED BY <2>1, <2>2
<1>6. ASSUME NEW v \in Workers, Acknowledge(v) \/ Fail(v) PROVE Stays \/ pc'[w] # pc[w]
  <2>1. /\ claim[v] \in Jobs /\ pc[v] = "conclude" /\ pc'[v] # pc[v]
        /\ \/ UNCHANGED table
           \/ /\ ClaimedBy(table[claim[v]], WorkerId[v])
              /\ \E row : SetRow(claim[v], row)
    BY <1>6 DEF Acknowledge, Fail, NextIteration, Goto, IInv, ClaimInHand, TypeOK, Holding
  <2>2. CASE claim[v] = j /\ ClaimedBy(table[claim[v]], WorkerId[v])
    <3>1. v = w
      BY <1>1, <2>2 DEF ClaimedBy, DistinctIds
    <3> QED BY <2>1, <3>1
  <2>3. CASE claim[v] # j \/ UNCHANGED table
    BY <1>2, <1>3, <2>1, <2>3
  <2> QED BY <2>1, <2>2, <2>3
<1>7. ASSUME NEW v \in Workers, Release(v) PROVE Stays
  <2>1. ~ClaimedBy(table[j], WorkerId[v])
    BY <1>1, <1>7 DEF Release, ClaimedBy, DistinctIds, Holding
  <2>2. table'[j] = table[j]
    BY <1>1, <1>7, <2>1 DEF Release
  <2> QED BY <1>2, <2>2
<1>8. ASSUME NEW v \in Workers, RecoverStale(v) PROVE Stays \/ Stale(table[j])
  BY <1>1, <1>2, <1>8 DEF RecoverStale
<1>9. ASSUME NEW v \in Workers, Heartbeat(v) PROVE Stays
  <2>1. UNCHANGED table \/ table' = [table EXCEPT ![claim[v]] = Stamp(table[claim[v]])]
    BY <1>9 DEF Heartbeat, SetRow
  <2>2. table'[j] = table[j] \/ table'[j] = Stamp(table[j])
    BY <1>1, <2>1 DEF IInv, TypeOK
  <2> QED BY <1>1, <1>2, <2>2, StampType DEF ClaimedBy
<1>10. ASSUME Tick PROVE Stays
  BY <1>1, <1>10 DEF Tick, Rows, ClaimedBy
<1>11. ASSUME NEW v \in Workers,
              WorkerStep(v) \/ WorkerFault(v) \/ Start(v) \/ ExecutionReturns(v)
       PROVE  \/ Stays \/ pc'[w] # pc[w]
              \/ Stale(table[j]) /\ \E u \in Workers : RecoverStale(u)
  <2>1. CASE \/ RecoverStale(v) \/ Release(v) \/ CommitClaim(v) \/ ClaimFails(v)
             \/ Acknowledge(v) \/ Fail(v)
    BY <1>5, <1>6, <1>7, <1>8, <2>1
  <2>2. CASE \/ Return(v) \/ SelectJob(v) \/ NothingToClaim(v) \/ ClaimTaken(v) \/ Poll(v)
             \/ StartDrain(v) \/ ReceiveResult(v) \/ DrainTimeout(v) \/ Exit(v)
    BY <1>2, <2>2 DEF Return, SelectJob, NothingToClaim, ClaimTaken, Poll, StartDrain,
                      ReceiveResult, DrainTimeout, Exit
  <2>3. CASE WorkerFault(v) \/ Start(v) \/ ExecutionReturns(v)
    BY <1>2, <2>3 DEF WorkerFault, Start, ExecutionReturns, Crash, Signal, RecoverStaleFails,
                      HeartbeatFails, ConcludeFails
  <2> QED BY <1>11, <2>1, <2>2, <2>3 DEF WorkerStep
<1>12. CASE UNCHANGED vars
  BY <1>2, <1>12 DEF vars
<1> HIDE DEF Stays, j
<1>13. CASE Next
  BY <1>4, <1>9, <1>10, <1>11, <1>13 DEF Next, Stays, j
<1> QED BY <1>12, <1>13 DEF Stays, j

\* With distinct PIDs, a claim ends by its worker's own hand or by a recovery
\* that finds it stale, also where a claim's SELECT locks no row: the condition
\* on the state in the UPDATE suffices for that.
THEOREM ClaimsStand == DistinctIds => (Spec => ClaimStands)
<1> SUFFICES ASSUME DistinctIds PROVE Spec => ClaimStands
  OBVIOUS
<1>1. IInv /\ [Next]_vars =>
        [\A w \in Workers :
          LET held == table[claim[w]] IN
          Holding(w) /\ ClaimedBy(held, WorkerId[w]) =>
              \/ ClaimedBy(table'[claim[w]], WorkerId[w])
              \/ pc'[w] # pc[w]
              \/ Stale(held) /\ \E v \in Workers : RecoverStale(v)]_vars
  BY HeldRow
<1> QED BY <1>1, InductiveInvariant, PTL DEF Spec, ClaimStands

-----------------------------------------------------------------------------
(* The lease: what recovery reads of a claim's age *)

\* A stamp is of now.
LEMMA FreshStamps ==
    ASSUME NEW row \in Rows, NEW w \in Workers, phase \in 0 .. StampPeriod - 1
    PROVE  /\ Stamp(row).claimAge = 0 /\ Stamp(row).claimSkew = phase
           /\ Claimed(w, row).claimAge = 0 /\ Claimed(w, row).claimSkew = phase
<1>1. ASSUME NEW r \in Rows PROVE Stamp(r).claimAge = 0 /\ Stamp(r).claimSkew = phase
  BY DEF Stamp, Rows
<1> DEFINE moved == [row EXCEPT !.state = "running"]
           counted == [moved EXCEPT !.attempts = NextAttempt(row)]
           taken == [counted EXCEPT !.claimedBy = WorkerId[w]]
<1>2. NextAttempt(row) \in 0 .. AttemptBound
  BY QueueAssumption DEF NextAttempt, Rows
<1>3. moved \in Rows
  BY DEF Rows
<1>6. Claimed(w, row) = Stamp(taken)
  BY DEF Claimed
<1> HIDE DEF moved
<1>4. counted \in Rows
  BY <1>2, <1>3 DEF Rows
<1> HIDE DEF counted
<1>5. taken \in Rows
  BY <1>4, QueueAssumption DEF Rows
<1> HIDE DEF taken
<1> QED BY <1>1, <1>5, <1>6

\* Only a tick lets a claim grow older; every other step leaves it alone, ends
\* it, or stamps it.
LEMMA AgingStep ==
    ASSUME NEW j \in Jobs, IInv, [Next]_vars
    PROVE  \/ Tick
           \/ /\ phase' = phase
              /\ \/ table'[j].state # "running"
                 \/ /\ table'[j].state = table[j].state
                    /\ table'[j].claimedBy = table[j].claimedBy
                    /\ table'[j].claimAge = table[j].claimAge
                    /\ table'[j].claimSkew = table[j].claimSkew
                 \/ table'[j].claimAge = 0 /\ table'[j].claimSkew = phase
<1> DEFINE Goal == \/ table'[j].state # "running"
                   \/ /\ table'[j].state = table[j].state
                      /\ table'[j].claimedBy = table[j].claimedBy
                      /\ table'[j].claimAge = table[j].claimAge
                      /\ table'[j].claimSkew = table[j].claimSkew
                   \/ table'[j].claimAge = 0 /\ table'[j].claimSkew = phase
<1>0. /\ table[j] \in Rows /\ phase \in 0 .. StampPeriod - 1
      /\ \A w \in Workers : Holding(w) \/ pc[w] = "commit" => claim[w] \in Jobs
      /\ \A k \in Jobs : table[k] \in Rows
  BY DEF IInv, TypeOK, ClaimInHand
<1>1. ASSUME UNCHANGED table PROVE Goal
  BY <1>1
<1>2. ASSUME NEW k \in Jobs, NEW row, SetRow(k, row),
             row.state # "running" \/ (row.claimAge = 0 /\ row.claimSkew = phase)
      PROVE  Goal
  BY <1>0, <1>2 DEF SetRow, IInv, TypeOK
<1>3. ASSUME NEW k \in Jobs, Enqueue(k) \/ Retry(k) \/ Discard(k) PROVE phase' = phase /\ Goal
  <2>1. NoRow \in Rows /\ ReadyAgain(table[k]) \in Rows
    BY <1>0, ReadyAgainType, QueueAssumption DEF NoRow, Rows
  <2>2. /\ \A delay : [NoRow EXCEPT !.state = "ready", !.dueIn = delay].state # "running"
        /\ [NoRow EXCEPT !.state = "deleted"].state # "running"
        /\ [ReadyAgain(table[k]) EXCEPT !.attempts = 0, !.dueIn = 0].state # "running"
    BY <1>0, <2>1, ReadyAgainType DEF Rows, NoRow
  <2> QED BY <1>2, <1>3, <2>2 DEF Enqueue, Retry, Discard
<1>4. ASSUME NEW v \in Workers, Acknowledge(v) \/ Fail(v) PROVE phase' = phase /\ Goal
  <2>1. claim[v] \in Jobs /\ table[claim[v]] \in Rows
    BY <1>0, <1>4 DEF Acknowledge, Fail, Holding
  <2>2. /\ [NoRow EXCEPT !.state = "deleted"].state # "running"
        /\ FailedOnce(claim[v], table[claim[v]]).state # "running"
    BY <2>1, FailedOnceType DEF NoRow
  <2> QED BY <1>1, <1>2, <1>4, <2>1, <2>2 DEF Acknowledge, Fail, NextIteration
<1>5. ASSUME NEW v \in Workers, RecoverStale(v) \/ Release(v) PROVE phase' = phase /\ Goal
  <2>1. phase' = phase
    BY <1>5 DEF RecoverStale, Release
  <2>2. table'[j] = table[j] \/ table'[j] = ReadyAgain(table[j])
    BY <1>5 DEF RecoverStale, Release
  <2> QED BY <1>0, <2>1, <2>2, ReadyAgainType
<1>6. ASSUME NEW v \in Workers, CommitClaim(v) \/ ClaimFails(v) PROVE phase' = phase /\ Goal
  <2>1. phase' = phase
    BY <1>6 DEF CommitClaim, ClaimFails
  <2>2. CASE UNCHANGED table
    BY <1>1, <2>1, <2>2
  <2>3. CASE ~UNCHANGED table
    <3>1. pc[v] = "commit" /\ SetRow(claim[v], Claimed(v, table[claim[v]]))
      BY <1>6, <2>3 DEF CommitClaim, ClaimFails
    <3>2. claim[v] \in Jobs /\ table[claim[v]] \in Rows
      BY <1>0, <3>1
    <3> QED BY <1>0, <1>2, <2>1, <3>1, <3>2, FreshStamps
  <2> QED BY <2>2, <2>3
<1>7. ASSUME NEW v \in Workers, Heartbeat(v) PROVE phase' = phase /\ Goal
  <2>1. claim[v] \in Jobs /\ phase' = phase
    BY <1>7 DEF Heartbeat, IInv, ClaimInHand, Off, Holding
  <2>2. UNCHANGED table \/ SetRow(claim[v], Stamp(table[claim[v]]))
    BY <1>7 DEF Heartbeat
  <2> QED BY <1>0, <1>1, <1>2, <2>1, <2>2, FreshStamps
<1>8. ASSUME NEW v \in Workers, WorkerStep(v) \/ WorkerFault(v) \/ Start(v) \/ ExecutionReturns(v)
      PROVE  phase' = phase /\ Goal
  <2> USE DEF Goto
  <2>1. CASE RecoverStale(v) \/ Release(v) \/ CommitClaim(v) \/ ClaimFails(v) \/ Acknowledge(v) \/ Fail(v)
    BY <1>4, <1>5, <1>6, <2>1
  <2>2. CASE \/ Return(v) \/ SelectJob(v) \/ NothingToClaim(v) \/ ClaimTaken(v) \/ Poll(v)
             \/ StartDrain(v) \/ ReceiveResult(v) \/ DrainTimeout(v) \/ Exit(v)
    BY <1>1, <2>2 DEF Return, SelectJob, NothingToClaim, ClaimTaken, Poll, StartDrain, ReceiveResult,
                      DrainTimeout, Exit
  <2>3. CASE WorkerFault(v)
    BY <1>1, <2>3 DEF WorkerFault, Crash, Signal, RecoverStaleFails, HeartbeatFails,
                      ConcludeFails, NextIteration
  <2>4. CASE Start(v) \/ ExecutionReturns(v)
    BY <1>1, <2>4 DEF Start, ExecutionReturns
  <2> QED BY <1>8, <2>1, <2>2, <2>3, <2>4 DEF WorkerStep
<1>9. ASSUME UNCHANGED vars PROVE phase' = phase /\ Goal
  BY <1>1, <1>9 DEF vars
<1>10. Tick \/ (phase' = phase /\ Goal)
  <2>1. CASE Next
    BY <1>3, <1>7, <1>8, <2>1 DEF Next
  <2> QED BY <1>9, <2>1
<1> QED BY <1>10

\* The whole periods between two stamps: the age of a claim and its fraction of
\* a second add up to the fraction of now, up to whole seconds.
InStep ==
    \A j \in Jobs : table[j].state = "running" /\ table[j].claimAge < AgeBound =>
        \E n \in Nat : table[j].claimAge + table[j].claimSkew = phase + n * StampPeriod

\* What a tick makes of one running row.
LEMMA TickAges ==
    ASSUME IInv, Tick, NEW j \in Jobs, table'[j].state = "running"
    PROVE  /\ table[j].state = "running" /\ table'[j].claimedBy = table[j].claimedBy
           /\ table'[j].claimSkew = table[j].claimSkew
           /\ table'[j].claimAge = IF table[j].claimAge < AgeBound THEN table[j].claimAge + 1
                                                                   ELSE table[j].claimAge
<1>1. table[j] \in Rows
  BY DEF IInv, TypeOK
<1>2. CASE table[j].state \in {"absent", "deleted"}
  BY <1>2 DEF Tick
<1>3. CASE table[j].state \notin {"absent", "deleted"}
  <2>1. table'[j] = [table[j] EXCEPT
                  !.dueIn = IF @ > -OverdueBound THEN @ - 1 ELSE @,
                  !.claimAge = IF table[j].state = "running" /\ @ < AgeBound
                               THEN @ + 1 ELSE @]
    BY <1>3 DEF Tick
  <2> QED BY <1>1, <2>1 DEF Rows
<1> QED BY <1>2, <1>3

\* Stamps are taken at a phase, and the phase turns with the clock.
LEMMA InStepKept ==
    ASSUME IInv, InStep, [Next]_vars
    PROVE  InStep'
<1> SUFFICES ASSUME NEW j \in Jobs, table'[j].state = "running", table'[j].claimAge < AgeBound
             PROVE  \E n \in Nat : table'[j].claimAge + table'[j].claimSkew
                                      = phase' + n * StampPeriod
  BY DEF InStep
<1>1. /\ table[j] \in Rows /\ phase \in 0 .. StampPeriod - 1
      /\ StampPeriod \in Nat \ {0} /\ AgeBound \in Nat
  BY QueueAssumption DEF IInv, TypeOK
<1>2. table[j].claimAge \in Nat /\ table[j].claimSkew \in Nat /\ phase \in Nat
  BY <1>1 DEF Rows
<1>3. CASE Tick
  <2>1. /\ table[j].state = "running"
        /\ table'[j].claimSkew = table[j].claimSkew
        /\ table[j].claimAge < AgeBound /\ table'[j].claimAge = table[j].claimAge + 1
    BY <1>1, <1>2, <1>3, TickAges
  <2>2. PICK n \in Nat : table[j].claimAge + table[j].claimSkew = phase + n * StampPeriod
    BY <2>1 DEF InStep
  <2>3. phase' = IF phase + 1 = StampPeriod THEN 0 ELSE phase + 1
    BY <1>3 DEF Tick
  <2>4. (n + 1) * StampPeriod = n * StampPeriod + StampPeriod /\ n * StampPeriod \in Nat
    BY <1>1
  <2>5. CASE phase + 1 = StampPeriod
    <3> DEFINE before == n * StampPeriod
               after == (n + 1) * StampPeriod
    <3> HIDE DEF before, after
    <3>1. table'[j].claimAge + table'[j].claimSkew = phase' + after
      <4>1. before \in Nat /\ after = before + StampPeriod
        BY <2>4 DEF before, after
      <4>2. table[j].claimAge + table[j].claimSkew = phase + before
        BY <2>2 DEF before
      <4>3. phase' = 0 /\ phase = StampPeriod - 1
        BY <1>1, <1>2, <2>3, <2>5
      <4>4. table[j].claimAge + 1 + table[j].claimSkew = 0 + before + StampPeriod
        BY <1>1, <1>2, <4>1, <4>2, <4>3
      <4>5. before + StampPeriod = after
        BY <4>1
      <4> QED BY <1>1, <1>2, <2>1, <4>1, <4>3, <4>4, <4>5
    <3> QED BY <3>1 DEF after
  <2>6. CASE phase + 1 # StampPeriod
    <3>1. table'[j].claimAge + table'[j].claimSkew = phase' + n * StampPeriod
      BY <1>2, <2>1, <2>2, <2>3, <2>4, <2>6
    <3> QED BY <3>1
  <2> QED BY <2>5, <2>6
<1>4. CASE ~Tick
  <2>1. CASE table'[j].claimAge = 0 /\ table'[j].claimSkew = phase /\ phase' = phase
    <3>1. table'[j].claimAge + table'[j].claimSkew = phase' + 0 * StampPeriod
      BY <1>1, <1>2, <2>1
    <3> QED BY <3>1
  <2>2. CASE ~(table'[j].claimAge = 0 /\ table'[j].claimSkew = phase /\ phase' = phase)
    <3>1. /\ phase' = phase /\ table[j].state = "running"
          /\ table'[j].claimAge = table[j].claimAge /\ table'[j].claimSkew = table[j].claimSkew
      <4>1. \/ Tick
            \/ /\ phase' = phase
               /\ \/ table'[j].state # "running"
                  \/ /\ table'[j].state = table[j].state
                     /\ table'[j].claimedBy = table[j].claimedBy
                     /\ table'[j].claimAge = table[j].claimAge
                     /\ table'[j].claimSkew = table[j].claimSkew
                  \/ table'[j].claimAge = 0 /\ table'[j].claimSkew = phase
        BY AgingStep
      <4> QED BY <1>4, <2>2, <4>1
    <3> QED BY <3>1 DEF InStep
  <2> QED BY <2>1, <2>2
<1> QED BY <1>3, <1>4

\* The cutoff is rounded like the stamps, to a period that divides the lease.
Comparable ==
    /\ CutoffRounded \/ StampPeriod = 1
    /\ \E m \in Nat : Lease = m * StampPeriod

\* Whole numbers of periods differ by a period at least.
LEMMA WholePeriods ==
    ASSUME NEW m \in Nat, NEW n \in Nat, NEW p \in Nat \ {0}, n * p > m * p
    PROVE  n * p >= m * p + p
<1>1. n > m
  <2>1. ASSUME n <= m PROVE FALSE
    <3>1. PICK d \in Nat : m = n + d
      BY <2>1
    <3>2. m * p = n * p + d * p /\ d * p \in Nat /\ n * p \in Nat
      BY <3>1
    <3> QED BY <3>2
  <2> QED BY <2>1
<1>2. PICK d \in Nat : n = m + 1 + d
  BY <1>1
<1>3. n * p = m * p + p + d * p /\ d * p \in Nat
  BY <1>2
<1> QED BY <1>3

\* A claim is only recovered as stale when its holder has been silent for longer
\* than the lease, if the cutoff goes through the same rounding as the stamps.
THEOREM LeaseIsHonoured == Comparable => (Spec => LeaseHonoured)
<1> SUFFICES ASSUME Comparable PROVE Spec => LeaseHonoured
  OBVIOUS
<1>1. Init => InStep
  BY DEF Init, InStep, NoRow
<1>2. IInv /\ InStep /\ [Next]_vars => InStep'
  BY InStepKept
<1>3. IInv /\ InStep =>
        [\A w \in Workers, j \in Jobs :
            RecoverStale(w) /\ table[j].state = "running" /\ table'[j].state = "ready"
                => table[j].claimAge > Lease]_vars
  <2> SUFFICES ASSUME IInv, InStep, NEW w \in Workers, NEW j \in Jobs, RecoverStale(w),
                      table[j].state = "running", table'[j].state = "ready"
               PROVE  table[j].claimAge > Lease
    OBVIOUS
  <2>1. /\ table[j] \in Rows /\ phase \in 0 .. StampPeriod - 1
        /\ StampPeriod \in Nat \ {0} /\ AgeBound \in Nat /\ AgeBound > Lease + StampPeriod
        /\ Lease \in Nat
    BY QueueAssumption DEF IInv, TypeOK
  <2>2. /\ table[j].claimAge \in 0 .. AgeBound /\ table[j].claimSkew \in 0 .. StampPeriod - 1
        /\ phase \in Nat
    BY <2>1 DEF Rows
  <2>3. Stale(table[j])
    BY DEF RecoverStale
  <2>4. table[j].claimAge + table[j].claimSkew > Lease + phase
    BY <2>1, <2>2, <2>3 DEF Stale, Comparable
  <2>5. CASE table[j].claimAge = AgeBound
    BY <2>1, <2>5
  <2>6. CASE table[j].claimAge < AgeBound
    <3>1. PICK n \in Nat : table[j].claimAge + table[j].claimSkew = phase + n * StampPeriod
      BY <2>6 DEF InStep
    <3>2. PICK m \in Nat : Lease = m * StampPeriod
      BY DEF Comparable
    <3>3. n * StampPeriod \in Nat /\ m * StampPeriod \in Nat
      BY <2>1
    <3>4. n * StampPeriod > m * StampPeriod
      BY <2>1, <2>2, <2>4, <3>1, <3>2, <3>3
    <3>5. n * StampPeriod >= Lease + StampPeriod
      BY <2>1, <3>2, <3>4, WholePeriods
    <3> QED BY <2>1, <2>2, <3>1, <3>3, <3>5
  <2> QED BY <2>1, <2>2, <2>5, <2>6
<1> QED BY <1>1, <1>2, <1>3, InductiveInvariant, PTL DEF Spec, LeaseHonoured

\* The owner of a heartbeat has renewed its claim lately enough: the age of the
\* claim and the time to the next heartbeat stay within one interval.
Renewed ==
    \A w \in Workers :
        beat[w] # Off /\ ClaimedBy(table[claim[w]], WorkerId[w])
            => table[claim[w]].claimAge + beat[w] <= HeartbeatInterval

\* A heartbeat only starts over with a claim that was stamped just now.
LEMMA BeatStep ==
    ASSUME NEW w \in Workers, IInv, [Next]_vars, beat'[w] # Off
    PROVE  \/ Tick
           \/ beat'[w] = beat[w] /\ claim'[w] = claim[w]
           \/ claim'[w] \in Jobs /\ table'[claim'[w]].claimAge = 0
<1> DEFINE Goal == \/ beat'[w] = beat[w] /\ claim'[w] = claim[w]
                   \/ claim'[w] \in Jobs /\ table'[claim'[w]].claimAge = 0
<1>0. /\ phase \in 0 .. StampPeriod - 1 /\ table \in [Jobs -> Rows]
      /\ beat \in [Workers -> Off .. HeartbeatInterval]
      /\ claim \in [Workers -> Jobs \cup {NoJob}]
      /\ \A v \in Workers : beat[v] # Off => claim[v] \in Jobs /\ pc[v] \in {"execute", "drain"}
      /\ \A v \in Workers : pc[v] = "commit" => claim[v] \in Jobs
  BY DEF IInv, TypeOK, ClaimInHand, Holding
<1>1. ASSUME beat' = beat, claim' = claim PROVE Goal
  BY <1>1
<1>2. ASSUME NEW v \in Workers, Reset(v, "stopped") \/ Reset(v, "recover") PROVE Goal
  <2>1. /\ beat' = [beat EXCEPT ![v] = Off] /\ claim' = [claim EXCEPT ![v] = NoJob]
    BY <1>2 DEF Reset
  <2> QED BY <1>0, <2>1
<1>3. ASSUME NEW v \in Workers, CommitClaim(v) PROVE Goal
  <2>1. /\ pc[v] = "commit" /\ claim' = claim /\ SetRow(claim[v], Claimed(v, table[claim[v]]))
        /\ \E left : beat' = [beat EXCEPT ![v] = left]
    BY <1>3 DEF CommitClaim
  <2>2. claim[v] \in Jobs /\ table[claim[v]] \in Rows
    BY <1>0, <2>1
  <2>3. table'[claim[v]] = Claimed(v, table[claim[v]])
    BY <1>0, <2>1, <2>2 DEF SetRow
  <2>4. table'[claim[v]].claimAge = 0
    BY <1>0, <2>2, <2>3, FreshStamps
  <2> QED BY <1>0, <2>1, <2>2, <2>4
<1>4. ASSUME NEW v \in Workers, Heartbeat(v) PROVE Goal
  <2>1. claim[v] \in Jobs /\ claim' = claim
    BY <1>0, <1>4 DEF Heartbeat, Off
  <2>2. CASE ClaimedBy(table[claim[v]], WorkerId[v])
    <3>1. /\ table' = [table EXCEPT ![claim[v]] = Stamp(table[claim[v]])]
          /\ beat' = [beat EXCEPT ![v] = HeartbeatInterval]
      BY <1>4, <2>2 DEF Heartbeat, SetRow
    <3>2. table'[claim[v]].claimAge = 0
      BY <1>0, <2>1, <3>1, FreshStamps
    <3> QED BY <1>0, <2>1, <3>1, <3>2
  <2>3. CASE ~ClaimedBy(table[claim[v]], WorkerId[v])
    <3>1. beat' = [beat EXCEPT ![v] = Off]
      BY <1>4, <2>3 DEF Heartbeat
    <3> QED BY <1>0, <2>1, <3>1
  <2> QED BY <2>2, <2>3
<1>5. ASSUME NEW v \in Workers, \/ HeartbeatFails(v) \/ ReceiveResult(v) \/ DrainTimeout(v)
      PROVE  Goal
  <2>1. claim' = claim /\ beat' = [beat EXCEPT ![v] = Off]
    BY <1>5 DEF HeartbeatFails, ReceiveResult, DrainTimeout
  <2> QED BY <1>0, <2>1
<1>6. ASSUME NEW v \in Workers,
             \/ SelectJob(v) \/ ClaimTaken(v) \/ ClaimFails(v)
             \/ Acknowledge(v) \/ Fail(v) \/ ConcludeFails(v)
      PROVE  Goal
  <2>1. CASE ClaimFails(v) /\ v \in Once
    BY <1>2, <2>1 DEF ClaimFails
  <2>2. CASE ~(ClaimFails(v) /\ v \in Once)
    <3>1. beat' = beat /\ pc[v] \in {"select", "commit", "conclude"}
      BY <1>6, <2>2 DEF SelectJob, ClaimTaken, ClaimFails, Acknowledge, Fail, ConcludeFails,
                        NextIteration
    <3>2. beat[w] # Off /\ v # w
      BY <1>0, <3>1
    <3>3. claim' = claim \/ \E j : claim' = [claim EXCEPT ![v] = j]
      BY <1>6, <2>2 DEF SelectJob, ClaimTaken, ClaimFails, Acknowledge, Fail, ConcludeFails,
                        NextIteration
    <3>4. claim'[w] = claim[w]
      BY <1>0, <3>2, <3>3
    <3> QED BY <3>1, <3>4
  <2> QED BY <2>1, <2>2
<1>7. ASSUME NEW v \in Workers, Start(v) \/ Crash(v) \/ Exit(v) \/ RecoverStaleFails(v)
      PROVE  Goal
  BY <1>1, <1>2, <1>7 DEF Start, Crash, Exit, RecoverStaleFails
<1>8. ASSUME NEW v \in Workers,
             \/ Return(v) \/ RecoverStale(v) \/ NothingToClaim(v) \/ Poll(v) \/ StartDrain(v)
             \/ Release(v) \/ Signal(v) \/ ExecutionReturns(v)
      PROVE  Goal
  BY <1>1, <1>8 DEF Return, RecoverStale, NothingToClaim, Poll, StartDrain, Release, Signal,
                    ExecutionReturns
<1>9. ASSUME NEW j \in Jobs, Enqueue(j) \/ Retry(j) \/ Discard(j) PROVE Goal
  BY <1>1, <1>9 DEF Enqueue, Retry, Discard, workerVars
<1>10. ASSUME UNCHANGED vars PROVE Goal
  BY <1>1, <1>10 DEF vars
<1> HIDE DEF Goal
<1>11. ASSUME NEW v \in Workers, WorkerStep(v) \/ WorkerFault(v) PROVE Goal
  BY <1>3, <1>5, <1>6, <1>7, <1>8, <1>11 DEF WorkerStep, WorkerFault
<1>12. Tick \/ Goal
  <2>1. CASE Next
    BY <1>4, <1>7, <1>8, <1>9, <1>11, <2>1 DEF Next
  <2> QED BY <1>10, <2>1
<1> QED BY <1>12 DEF Goal

\* The clock waits for heartbeats that are due, so it never gets ahead of them.
LEMMA RenewedKept ==
    ASSUME IInv, IInv', Renewed, [Next]_vars, Timely
    PROVE  Renewed'
<1> SUFFICES ASSUME NEW w \in Workers, beat'[w] # Off,
                    ClaimedBy(table'[claim'[w]], WorkerId[w])
             PROVE  table'[claim'[w]].claimAge + beat'[w] <= HeartbeatInterval
  BY DEF Renewed, ClaimedBy
<1> DEFINE j == claim'[w]
<1>1. /\ j \in Jobs /\ table'[j] \in Rows /\ table'[j].state = "running"
      /\ table'[j].claimedBy = WorkerId[w]
      /\ beat'[w] \in -1 .. HeartbeatInterval /\ HeartbeatInterval \in Nat
  BY QueueAssumption DEF IInv, TypeOK, ClaimInHand, Holding, ClaimedBy, Off
<1>2. table[j] \in Rows /\ beat[w] \in -1 .. HeartbeatInterval
  BY <1>1 DEF IInv, TypeOK, Off
<1>3. /\ table[j].claimAge \in Nat /\ table'[j].claimAge \in Nat /\ AgeBound \in Nat
      /\ table[j].claimAge <= AgeBound
  BY <1>1, <1>2, QueueAssumption DEF Rows
<1>4. CASE Tick
  <2>1. /\ claim' = claim /\ (Timely => beat[w] # 0)
        /\ beat'[w] = IF beat[w] > 0 THEN beat[w] - 1 ELSE beat[w]
    BY <1>4 DEF Tick, Off
  <2>2. beat[w] > 0 /\ beat'[w] = beat[w] - 1
    BY <1>2, <2>1 DEF Off
  <2>3. /\ table[j].state = "running" /\ table[j].claimedBy = WorkerId[w]
        /\ table'[j].claimAge <= table[j].claimAge + 1
    BY <1>1, <1>3, <1>4, TickAges
  <2>4. table[j].claimAge + beat[w] <= HeartbeatInterval
    BY <1>2, <2>1, <2>2, <2>3 DEF Renewed, ClaimedBy, Off
  <2> QED BY <1>1, <1>2, <1>3, <2>2, <2>3, <2>4
<1>5. CASE table'[j].claimAge = 0
  BY <1>1, <1>5
<1>6. CASE ~Tick /\ table'[j].claimAge # 0
  <2>1. beat'[w] = beat[w] /\ claim'[w] = claim[w]
    BY <1>6, BeatStep
  <2>2. \/ Tick
        \/ /\ phase' = phase
           /\ \/ table'[j].state # "running"
              \/ /\ table'[j].state = table[j].state
                 /\ table'[j].claimedBy = table[j].claimedBy
                 /\ table'[j].claimAge = table[j].claimAge
                 /\ table'[j].claimSkew = table[j].claimSkew
              \/ table'[j].claimAge = 0 /\ table'[j].claimSkew = phase
    BY <1>1, AgingStep
  <2>3. /\ table[j].state = "running" /\ table[j].claimedBy = WorkerId[w]
        /\ table'[j].claimAge = table[j].claimAge
    BY <1>1, <1>6, <2>2
  <2> QED BY <2>1, <2>3 DEF Renewed, ClaimedBy
<1> QED BY <1>4, <1>5, <1>6

\* Heartbeats are sent, on time, and often enough for the lease and the rounding.
Prompt == Heartbeats /\ Timely /\ HeartbeatInterval + StampPeriod <= Lease + 1

\* A claim whose holder is executing with its heartbeat on time is not taken
\* away by anybody's stale recovery, whether or not worker ids are distinct.
THEOREM ActiveClaimsStay == Prompt => (Spec => ActiveClaimKept)
<1> SUFFICES ASSUME Prompt PROVE Spec => ActiveClaimKept
  OBVIOUS
<1>1. Init => Renewed
  BY DEF Init, Renewed
<1>2. IInv /\ IInv' /\ Renewed /\ [Next]_vars => Renewed'
  BY RenewedKept DEF Prompt
<1>3. IInv /\ Renewed =>
        [\A v, w \in Workers :
          RecoverStale(v) /\ pc[w] \in {"execute", "drain"}
              /\ (Heartbeats => beat[w] # Off)
              /\ ClaimedBy(table[claim[w]], WorkerId[w])
              => table'[claim[w]].state = "running"]_vars
  <2> SUFFICES ASSUME IInv, Renewed, NEW v \in Workers, NEW w \in Workers, RecoverStale(v),
                      pc[w] \in {"execute", "drain"}, Heartbeats => beat[w] # Off,
                      ClaimedBy(table[claim[w]], WorkerId[w])
               PROVE  table'[claim[w]].state = "running"
    OBVIOUS
  <2> DEFINE j == claim[w]
  <2>1. /\ j \in Jobs /\ table[j] \in Rows /\ phase \in 0 .. StampPeriod - 1
        /\ table[j].state = "running"
        /\ beat[w] # Off /\ beat[w] \in -1 .. HeartbeatInterval
        /\ StampPeriod \in Nat /\ Lease \in Nat /\ HeartbeatInterval \in Nat
    BY QueueAssumption DEF IInv, TypeOK, ClaimInHand, Holding, ClaimedBy, Prompt, Off
  <2>2. /\ table[j].claimAge \in Nat /\ table[j].claimSkew \in 0 .. StampPeriod - 1
    BY <2>1, QueueAssumption DEF Rows
  <2>3. table[j].claimAge + beat[w] <= HeartbeatInterval
    BY <2>1 DEF Renewed
  <2>4. table[j].claimAge + table[j].claimSkew <= Lease
    BY <2>1, <2>2, <2>3 DEF Off, Prompt
  <2>5. ~Stale(table[j])
    BY <2>1, <2>2, <2>4 DEF Stale
  <2>6. table'[j] = table[j]
    BY <2>1, <2>5 DEF RecoverStale
  <2> QED BY <2>1, <2>6
<1> QED BY <1>1, <1>2, <1>3, InductiveInvariant, PTL DEF Spec, ActiveClaimKept
-----------------------------------------------------------------------------
(* The generated SQL implements sqlstore.Record: every step of the queue   *)
(* moves each row by one method of its Record, or leaves it alone.         *)

\* What a step may do to row j.
RowStep(j) == RecordOf(j)!Next \/ UNCHANGED table[j]

\* Writing one row is a step of that row's record and of no other.
LEMMA OneRow ==
    ASSUME TypeOK, NEW k \in Jobs, NEW row, SetRow(k, row),
           table'[k] = row => RowStep(k)
    PROVE  \A j \in Jobs : RowStep(j)
<1>1. ASSUME NEW j \in Jobs PROVE RowStep(j)
  <2>1. table'[k] = row /\ (j # k => table'[j] = table[j])
    BY DEF TypeOK, SetRow
  <2>2. CASE j = k
    BY <2>1, <2>2
  <2>3. CASE j # k
    BY <2>1, <2>3 DEF RowStep
  <2> QED BY <2>2, <2>3
<1> QED BY <1>1

\* ReadyAgain is Record.Release.
LEMMA ReadyAgainIsRelease ==
    ASSUME NEW j \in Jobs, table[j].state = "running", table'[j] = ReadyAgain(table[j])
    PROVE  RowStep(j)
<1>1. RecordOf(j)!Release
  BY DEF ReadyAgain, ClearClaim, RecordOf!Release, RecordOf!Unclaimed
<1> QED BY <1>1 DEF RowStep, RecordOf!Next

\* An enqueue, a manual retry and a discard are steps of the record they name.
LEMMA OperatorRefines ==
    ASSUME TypeOK, NEW k \in Jobs, Enqueue(k) \/ Retry(k) \/ Discard(k)
    PROVE  \A j \in Jobs : RowStep(j)
<1>1. CASE Enqueue(k)
  <2>1. PICK delay \in 0 .. DelayBound :
           SetRow(k, [NoRow EXCEPT !.state = "ready", !.dueIn = delay])
    BY <1>1 DEF Enqueue
  <2>2. ASSUME table'[k] = [NoRow EXCEPT !.state = "ready", !.dueIn = delay]
        PROVE  RowStep(k)
    <3>1. RecordOf(k)!NewRecord
      BY <1>1, <2>2 DEF Enqueue, NoRow, RecordOf!NewRecord, RecordOf!Absent
    <3> QED BY <3>1 DEF RowStep, RecordOf!Next
  <2> QED BY <2>1, <2>2, OneRow
<1>2. CASE Retry(k)
  <2>1. ASSUME table'[k] = [ReadyAgain(table[k]) EXCEPT !.attempts = 0, !.dueIn = 0]
        PROVE  RowStep(k)
    <3>1. RecordOf(k)!Retry
      BY <1>2, <2>1 DEF Retry, ReadyAgain, ClearClaim, RecordOf!Retry, RecordOf!Unclaimed
    <3> QED BY <3>1 DEF RowStep, RecordOf!Next
  <2> QED BY <1>2, <2>1, OneRow DEF Retry
<1>3. CASE Discard(k)
  <2>1. ASSUME table'[k] = [NoRow EXCEPT !.state = "deleted"]
        PROVE  RowStep(k)
    <3>1. RecordOf(k)!Discard
      BY <1>3, <2>1 DEF Discard, NoRow, RecordOf!Discard, RecordOf!Deleted, RecordOf!Absent
    <3> QED BY <3>1 DEF RowStep, RecordOf!Next
  <2> QED BY <1>3, <2>1, OneRow DEF Discard
<1> QED BY <1>1, <1>2, <1>3

\* Writing a row is a step of its record, whatever k the caller's LET names.
LEMMA RowWritten ==
    ASSUME TypeOK, NEW k \in Jobs, NEW row, SetRow(k, row)
    PROVE  table'[k] = row
BY DEF TypeOK, SetRow

\* A claim, once its transaction commits, is Record.Claim.
LEMMA ClaimRefines ==
    ASSUME LocksOrOneWorker, IInv, NEW w \in Workers, pc[w] = "commit",
           StillReady(table[claim[w]]),
           SetRow(claim[w], Claimed(w, table[claim[w]]))
    PROVE  \A j \in Jobs : RowStep(j)
<1>0. PICK k \in Jobs : k = claim[w]
  BY DEF IInv, ClaimInHand
<1>1. /\ table[k].state = "ready" /\ table[k].dueIn <= 0
      /\ phase \in 0 .. StampPeriod - 1 /\ WorkerId[w] \in WorkerIds
  BY <1>0, QueueAssumption DEF IInv, SelectedRows, StillReady, TypeOK
<1>2. TypeOK /\ SetRow(k, Claimed(w, table[k]))
  BY <1>0 DEF IInv
<1>3. table'[k] = Claimed(w, table[k])
  BY <1>2, RowWritten
<1>4. Claimed(w, table[k])
        = [table[k] EXCEPT !.state = "running",
                           !.attempts = RecordOf(k)!CountAttempt(@),
                           !.claimedBy = WorkerId[w],
                           !.claimAge = 0,
                           !.claimSkew = phase]
  BY DEF Claimed, Stamp, NextAttempt, RecordOf!CountAttempt
<1>5. RecordOf(k)!Claim(WorkerId[w])
  BY <1>1, <1>3, <1>4 DEF RecordOf!Claim
<1>6. RowStep(k)
  BY <1>1, <1>5 DEF RowStep, RecordOf!Next
<1> QED BY <1>2, <1>6, OneRow

\* The statements fenced with claimed_by are Record's methods of the claimant.
LEMMA HolderRefines ==
    ASSUME IInv, NEW w \in Workers, Heartbeat(w) \/ Acknowledge(w) \/ Fail(w)
    PROVE  \A j \in Jobs : RowStep(j)
<1>0. PICK k \in Jobs : k = claim[w]
  BY DEF Heartbeat, Acknowledge, Fail, IInv, ClaimInHand, TypeOK, Holding, Off
<1>1. /\ TypeOK /\ table[k] \in Rows /\ WorkerId[w] \in WorkerIds
      /\ phase \in 0 .. StampPeriod - 1
  BY <1>0, QueueAssumption DEF IInv, TypeOK
<1>2. CASE UNCHANGED table
  BY <1>2 DEF RowStep
<1>3. CASE Heartbeat(w) /\ table' # table
  <2>1. ClaimedBy(table[k], WorkerId[w]) /\ SetRow(k, Stamp(table[k]))
    BY <1>0, <1>3 DEF Heartbeat
  <2>2. table'[k] = Stamp(table[k])
    BY <1>1, <2>1, RowWritten
  <2>3. RecordOf(k)!Renew(WorkerId[w])
    BY <1>1, <2>1, <2>2 DEF ClaimedBy, Stamp, RecordOf!Renew
  <2>4. RowStep(k)
    BY <1>1, <2>3 DEF RowStep, RecordOf!Next
  <2> QED BY <1>1, <2>1, <2>4, OneRow
<1>4. CASE Acknowledge(w) /\ table' # table
  <2>1. /\ ClaimedBy(table[k], WorkerId[w])
        /\ SetRow(k, [NoRow EXCEPT !.state = "deleted"])
    BY <1>0, <1>4 DEF Acknowledge
  <2>2. table'[k] = [NoRow EXCEPT !.state = "deleted"]
    BY <1>1, <2>1, RowWritten
  <2>3. table'[k] = RecordOf(k)!Deleted
    BY <2>2 DEF NoRow, RecordOf!Deleted, RecordOf!Absent
  <2>4. RecordOf(k)!Acknowledge(WorkerId[w])
    BY <2>1, <2>3 DEF ClaimedBy, RecordOf!Acknowledge
  <2>5. RowStep(k)
    BY <1>1, <2>4 DEF RowStep, RecordOf!Next
  <2> QED BY <1>1, <2>1, <2>5, OneRow
<1>5. CASE Fail(w) /\ table' # table
  <2>1. /\ ClaimedBy(table[k], WorkerId[w])
        /\ SetRow(k, FailedOnce(k, table[k]))
    BY <1>0, <1>5 DEF Fail
  <2>2. table'[k] = FailedOnce(k, table[k])
    BY <1>1, <2>1, RowWritten
  <2>3. RetryIn(table[k]) \in 0 .. DelayBound
    BY <1>1, QueueAssumption DEF RetryIn, Rows
  <2>4. FailedOnce(k, table[k])
          = [RecordOf(k)!Unclaimed(table[k]) EXCEPT
               !.state = IF table[k].attempts >= MaximumAttempts[k] THEN "failed" ELSE "ready",
               !.dueIn = RetryIn(table[k])]
    BY DEF FailedOnce, ClearClaim, RecordOf!Unclaimed
  <2>5. RecordOf(k)!Fail(WorkerId[w])
    BY <2>1, <2>2, <2>3, <2>4 DEF ClaimedBy, RecordOf!Fail
  <2>6. RowStep(k)
    BY <1>1, <2>5 DEF RowStep, RecordOf!Next
  <2> QED BY <1>1, <2>1, <2>6, OneRow
<1> QED BY <1>2, <1>3, <1>4, <1>5

\* A recovery or a release of many rows is, for each of them, Record.Release.
LEMMA SweepRefines ==
    ASSUME TypeOK, NEW w \in Workers, RecoverStale(w) \/ Release(w)
    PROVE  \A j \in Jobs : RowStep(j)
<1>1. ASSUME NEW j \in Jobs PROVE RowStep(j)
  <2>1. \/ table'[j] = table[j]
        \/ table[j].state = "running" /\ table'[j] = ReadyAgain(table[j])
    BY DEF RecoverStale, Release, Stale, ClaimedBy
  <2> QED BY <2>1, ReadyAgainIsRelease DEF RowStep
<1> QED BY <1>1

\* Time is no step of a record: its durations shift, its fields stay.
LEMMA TickRefines ==
    ASSUME TypeOK, Tick
    PROVE  \A j \in Jobs : RowStep(j)
<1>1. ASSUME NEW j \in Jobs PROVE RowStep(j)
  <2>1. CASE table[j].state \in {"absent", "deleted"}
    BY <2>1 DEF Tick, RowStep
  <2>2. CASE table[j].state \notin {"absent", "deleted"}
    <3>1. table[j].state \in {"ready", "running", "failed"}
      BY <2>2 DEF TypeOK, Rows
    <3>2. RecordOf(j)!Age
      BY <2>2, <3>1 DEF Tick, RecordOf!Age
    <3> QED BY <3>2 DEF RowStep, RecordOf!Next
  <2> QED BY <2>1, <2>2
<1> QED BY <1>1

\* The queue refines the life of a Record, row by row: no statement of any
\* worker, at any interleaving, moves a job in a way its Record has no method
\* for (a claim of a failed job, an acknowledgement of a ready one, ...).  Two
\* workers without row locks are left out: a job that one of them selected can be
\* claimed, failed and put off by the other, and is then claimed before it is due.
THEOREM QueueRefinesRecords == LocksOrOneWorker => (Spec => RowsAreRecords)
<1> SUFFICES ASSUME LocksOrOneWorker PROVE Spec => RowsAreRecords
  OBVIOUS
<1>1. Init => \A j \in Jobs : RecordOf(j)!Init
  BY DEF Init, NoRow, RecordOf!Init, RecordOf!Absent
<1>2. IInv /\ [Next]_vars => [\A j \in Jobs : RowStep(j)]_table
  <2> SUFFICES ASSUME IInv, Next PROVE (\A j \in Jobs : RowStep(j)) \/ UNCHANGED table
    BY DEF vars
  <2>0. TypeOK
    BY DEF IInv
  <2>1. ASSUME NEW k \in Jobs, Enqueue(k) \/ Retry(k) \/ Discard(k)
        PROVE  \A j \in Jobs : RowStep(j)
    BY <2>0, <2>1, OperatorRefines
  <2>2. ASSUME NEW w \in Workers, WorkerStep(w)
        PROVE  (\A j \in Jobs : RowStep(j)) \/ UNCHANGED table
    <3>1. CASE RecoverStale(w) \/ Release(w)
      BY <2>0, <3>1, SweepRefines
    <3>2. CASE CommitClaim(w)
      BY <3>2, ClaimRefines DEF CommitClaim
    <3>3. CASE ClaimFails(w)
      BY <3>3, ClaimRefines DEF ClaimFails
    <3>4. CASE Acknowledge(w) \/ Fail(w)
      BY <3>4, HolderRefines
    <3>5. CASE \/ Return(w) \/ SelectJob(w) \/ NothingToClaim(w) \/ ClaimTaken(w) \/ Poll(w)
               \/ StartDrain(w) \/ ReceiveResult(w) \/ DrainTimeout(w) \/ Exit(w)
      BY <3>5 DEF Return, SelectJob, NothingToClaim, ClaimTaken, Poll, StartDrain, ReceiveResult,
                  DrainTimeout, Exit
    <3> QED BY <2>2, <3>1, <3>2, <3>3, <3>4, <3>5 DEF WorkerStep
  <2>3. ASSUME NEW w \in Workers, WorkerFault(w) \/ Start(w) \/ ExecutionReturns(w)
        PROVE  UNCHANGED table
    BY <2>3 DEF WorkerFault, Start, ExecutionReturns, Crash, Signal, RecoverStaleFails,
                HeartbeatFails, ConcludeFails
  <2>4. ASSUME NEW w \in Workers, Heartbeat(w)
        PROVE  \A j \in Jobs : RowStep(j)
    BY <2>4, HolderRefines
  <2>5. CASE Tick
    BY <2>0, <2>5, TickRefines
  <2> QED BY <2>1, <2>2, <2>3, <2>4, <2>5 DEF Next
<1> QED BY <1>1, <1>2, InductiveInvariant, PTL DEF Spec, RowsAreRecords, RowStep
=============================================================================
