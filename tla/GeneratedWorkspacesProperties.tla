-------------------- MODULE GeneratedWorkspacesProperties --------------------
(***************************************************************************)
(* What the documentation of generated workspaces promises                 *)
(* (docs/cli.md, "Running programs").                                      *)
(***************************************************************************)
EXTENDS GeneratedWorkspaces

\* Every variable stays within its type.
TypeOK ==
    /\ keep \in [Workspaces -> BOOLEAN]
    /\ prompt \in BOOLEAN
    /\ owner \in [Workspaces -> Ended \cup
          {"made", "opened", "leased", "marking", "marked", "running", "closing", "removing",
           "emptied", "keeping", "retaining", "retained", "released"}]
    /\ place \in [Workspaces -> {"none", "run", "generated"}]
    /\ source \in [Workspaces -> {"none", "whole", "lost"}]
    /\ marker \in [Workspaces -> {"none", "empty", "active", "retained"}]
    /\ lock \in [Workspaces -> BOOLEAN]
    /\ holder \in [Workspaces -> Holders]
    /\ young \in [Workspaces -> BOOLEAN]
    /\ touched \in [Workspaces -> BOOLEAN]
    /\ at \in [Reapers -> {"idle", "reading", "unknown", "known", "opened", "locked",
                           "removing", "inside", "emptied", "dead"}]
    /\ of \in [Reapers -> Workspaces]

\* "A lease protects every active project workspace": no reaper disturbs a
\* workspace whose process has not come to its end, as long as none stalls.
LeaseProtects ==
    prompt => \A w \in Workspaces :
        /\ owner[w] \in Active =>
              place[w] = "run" /\ marker[w] = "active" /\ lock[w]
        /\ owner[w] = "running" => source[w] = "whole"

\* A run that ends by itself leaves nothing below .trb/run, whoever else removes
\* the same directory meanwhile.
NothingLeft == \A w \in Workspaces : owner[w] = "closed" => place[w] = "none"

\* "--keep-generated moves the completed target tree to .trb/generated instead
\* of deleting it": nothing that was written there has been removed.
KeptWhole == \A w \in Workspaces : place[w] = "generated" => source[w] # "lost"

-----------------------------------------------------------------------------
\* Runs go on: each reaper that is not killed takes its steps, and time passes.
FairSpec ==
    /\ Spec
    /\ \A r \in Reapers : WF_vars(Reap(r) /\ UNCHANGED settings)
    /\ \A w \in Workspaces : SF_vars(Age(w) /\ UNCHANGED settings)

\* "the next run removes abandoned project workspaces left by a forced process
\* or system shutdown", unless --keep-generated was used (README, "Divergences").
AbandonedReaped ==
    \A w \in Workspaces : owner[w] = "killed" /\ ~keep[w] ~> place[w] # "run"

\* The same whatever the command was run with, which does not hold: one that is
\* killed between the retained marker and the move is never looked at again.
KilledReaped == \A w \in Workspaces : owner[w] = "killed" ~> place[w] # "run"
=============================================================================
