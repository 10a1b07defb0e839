----------------------------- MODULE MCRunCommand -----------------------------
(* Small instances of trb run for TLC: without --keep-generated, and without a *)
(* process that stalls, which the runs of the workspaces alone look at.        *)
EXTENDS RunCommandProperties

PlainInit == CommandInit /\ prompt /\ keep = [w \in Workspaces |-> FALSE]

PlainSpec == PlainInit /\ [][CommandNext]_commandVars
PlainFairSpec == PlainSpec /\ CommandFairness
=============================================================================
