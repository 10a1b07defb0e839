----------------------------- MODULE MCJobQueue -----------------------------
(* Small instances of the job queue for TLC. *)
EXTENDS JobQueueProperties, TLC

CONSTANTS j1, j2, w1, w2, A, B

\* Processes of one host: every PID is its own.
OwnIds == w1 :> A @@ w2 :> B
\* Two containers, whose main processes have the same PID.
SharedIds == w1 :> A @@ w2 :> A

\* The two workers, each with its id, are interchangeable in safety properties.
Interchangeable ==
    {p \in Permutations({w1, w2, A, B}) : {p[w1], p[w2]} = {w1, w2} /\ p[A] = OwnIds[p[w1]]}

MixedAttempts == j1 :> 2 @@ j2 :> 1
TwoAttempts == [j \in Jobs |-> 2]
Ranked == j1 :> 1 @@ j2 :> 0
OnePriority == [j \in Jobs |-> 0]
OneQueue == [j \in Jobs |-> "default"]
ServeAll == [w \in Workers |-> {"default"}]
=============================================================================
