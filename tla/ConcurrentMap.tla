---------------------------- MODULE ConcurrentMap ----------------------------
(****************************************************************************)
(* Array#concurrent_map as the three generators emit it and the REPL runs   *)
(* it: a call hands the elements of an array to a bounded set of workers,   *)
(* which take a permit of the task group before they evaluate the block.    *)
(* The outermost call makes the group. A call made by an element's block    *)
(* joins it, and gives the element's permit back while it runs.             *)
(*                                                                          *)
(* The calls one outermost call can lead to form a tree, given by Nested.   *)
(* `backend` is one of "go", "ruby", "typescript" and "repl", and never     *)
(* changes.                                                                 *)
(****************************************************************************)
EXTENDS Integers, FiniteSets

CONSTANTS
    Backends,      \* the backends to consider
    Calls,         \* the call sites, each reached at most once
    Root,          \* the outermost call
    NoCall,
    Length,        \* Length[c]: how many elements the array of c has
    Limit,         \* Limit[c]: the explicit limit of c, which is positive, or NoLimit
    DefaultLimit,  \* 8 in the code
    Nested,        \* Nested[e]: the call the block makes for element e, or NoCall
    InFunction     \* the calls which a function makes that the block calls

Elements == UNION {{c} \X (1..Length[c]) : c \in Calls}

CallOf(e) == e[1]

ElementsOf(c) == {e \in Elements : CallOf(e) = c}

ASSUME CallsAssumption ==
    /\ IsFiniteSet(Calls) /\ Root \in Calls /\ NoCall \notin Calls
    /\ Length \in [Calls -> Nat]
    /\ DefaultLimit \in Nat \ {0}
    /\ Limit \in [Calls -> Nat]

ASSUME NestedAssumption ==
    /\ Nested \in [Elements -> (Calls \ {Root}) \cup {NoCall}]
    /\ \A d, e \in Elements : Nested[d] = Nested[e] /\ Nested[e] # NoCall => d = e
    /\ \A e \in Elements : Nested[e] # CallOf(e)

ASSUME BackendsAssumption ==
    /\ Backends \subseteq {"go", "ruby", "typescript", "repl"}
    /\ InFunction \subseteq Calls

VARIABLES
    backend,
    stopped,   \* the scope the outermost call was made in is cancelled
    phase,     \* of a call: "uncalled", "mapping", "joined", "ended"
    failed,    \* an error of the call is recorded and its child scope cancelled
    group,     \* the call whose permits a call uses
    within,    \* the calls whose cancellation reaches a call's child scope
    next,      \* the index of the next element to be claimed
    feeding,   \* Go: the caller still offers indices to its workers
    free,      \* the workers of a call that hold no element
    element,   \* how far an element is
    used       \* the permits of a group that are taken

vars == <<backend, stopped, phase, failed, group, within, next, feeding, free, element, used>>

-----------------------------------------------------------------------------
NoLimit == 0

Requested(c) == IF Limit[c] = NoLimit THEN DefaultLimit ELSE Limit[c]

\* The group's capacity, which an explicit limit can only reduce locally.
LocalLimit(c, owner) ==
    IF Limit[c] # NoLimit /\ Limit[c] < Requested(owner) THEN Limit[c] ELSE Requested(owner)

WorkerCount(c, owner) ==
    IF Length[c] < LocalLimit(c, owner) THEN Length[c] ELSE LocalLimit(c, owner)

\* The scope that the call was made in is cancelled.
ScopeCancelled(c) == stopped \/ \E a \in within[c] : failed[a]

\* The child scope of the call is cancelled.
Cancelled(c) == failed[c] \/ ScopeCancelled(c)

\* Whether a worker that comes back for another element gets one. Go's feeder
\* and its workers choose at random between an offer and a cancelled scope.
\* Ruby cancels a scope and then its children, one callback after another, and
\* the REPL's calls do not see each other's failures (within is empty).
MayClaim(c) ==
    CASE backend = "go"         -> feeding[c]
      [] backend = "ruby"       -> ~failed[c]
      [] OTHER                  -> ~Cancelled(c)

\* The scopes of the REPL are lexical: a function's body does not see the group
\* of its caller.
Detached(c) == backend = "repl" /\ c \in InFunction

InProgress == {"claimed", "active", "joining", "raised"}

-----------------------------------------------------------------------------
Init ==
    /\ backend \in Backends
    /\ stopped = FALSE
    /\ phase = [c \in Calls |-> "uncalled"]
    /\ failed = [c \in Calls |-> FALSE]
    /\ group = [c \in Calls |-> c]
    /\ within = [c \in Calls |-> {}]
    /\ next = [c \in Calls |-> 1]
    /\ feeding = [c \in Calls |-> FALSE]
    /\ free = [c \in Calls |-> 0]
    /\ element = [e \in Elements |-> "waiting"]
    /\ used = [c \in Calls |-> 0]

\* Call c starts, with the permits of `owner`.
Enter(c, owner, chain) ==
    /\ phase[c] = "uncalled"
    /\ phase' = [phase EXCEPT ![c] = "mapping"]
    /\ group' = [group EXCEPT ![c] = owner]
    /\ within' = [within EXCEPT ![c] = chain]
    /\ feeding' = [feeding EXCEPT ![c] = (backend = "go")]
    /\ free' = [free EXCEPT ![c] = WorkerCount(c, owner)]
    /\ UNCHANGED <<backend, stopped, failed, next>>

CallRoot ==
    /\ Enter(Root, Root, {})
    /\ UNCHANGED <<element, used>>

\* Whose cancellation the child scope of a nested call inherits. The REPL's calls
\* share only the context of the evaluation.
EnclosingOf(e) == IF backend = "repl" THEN {} ELSE within[CallOf(e)] \cup {CallOf(e)}

\* Mutated: the element keeps its permit while it waits.
CallNestedHolding(e) ==
    /\ element[e] = "active" /\ Nested[e] # NoCall
    /\ element' = [element EXCEPT ![e] = "joining"]
    /\ Enter(Nested[e], group[CallOf(e)], EnclosingOf(e))
    /\ UNCHANGED used

\* The block makes its call. The element gives back the permit it holds, unless
\* the call does not see that there is one.
CallNested(e) ==
    LET c == CallOf(e) IN
    /\ element[e] = "active" /\ Nested[e] # NoCall
    /\ element' = [element EXCEPT ![e] = "joining"]
    /\ IF Detached(Nested[e])
         THEN /\ Enter(Nested[e], Nested[e], {})
              /\ UNCHANGED used
         ELSE /\ Enter(Nested[e], group[c], EnclosingOf(e))
              /\ used' = [used EXCEPT ![group[c]] = @ - 1]

\* A worker takes the next index.
Claim(c) ==
    /\ phase[c] = "mapping" /\ free[c] > 0
    /\ next[c] <= Length[c] /\ MayClaim(c)
    /\ next' = [next EXCEPT ![c] = @ + 1]
    /\ free' = [free EXCEPT ![c] = @ - 1]
    /\ element' = [element EXCEPT ![<<c, next[c]>>] = "claimed"]
    /\ UNCHANGED <<backend, stopped, phase, failed, group, within, feeding, used>>

\* Go: every index is handed out, or the feeder noticed the cancelled scope.
StopFeeding(c) ==
    /\ phase[c] = "mapping" /\ feeding[c]
    /\ next[c] > Length[c] \/ Cancelled(c)
    /\ feeding' = [feeding EXCEPT ![c] = FALSE]
    /\ UNCHANGED <<backend, stopped, phase, failed, group, within, next, free, element, used>>

\* A worker without an element ends. The REPL's reports a cancelled context.
WorkerEnds(c) ==
    /\ phase[c] = "mapping" /\ free[c] > 0
    /\ IF backend = "go" THEN ~feeding[c] ELSE next[c] > Length[c] \/ Cancelled(c)
    /\ free' = [free EXCEPT ![c] = @ - 1]
    /\ failed' = [failed EXCEPT ![c] = @ \/ (backend = "repl" /\ stopped)]
    /\ UNCHANGED <<backend, stopped, phase, group, within, next, feeding, element, used>>

\* A worker gets a permit for the element it claimed and starts on the block.
\* Only TypeScript's acquire looks at the scope first.
Admit(e) ==
    LET c == CallOf(e) IN
    /\ element[e] = "claimed"
    /\ used[group[c]] < Requested(group[c])
    /\ backend = "typescript" => ~Cancelled(c)
    /\ used' = [used EXCEPT ![group[c]] = @ + 1]
    /\ element' = [element EXCEPT ![e] = "active"]
    /\ UNCHANGED <<backend, stopped, phase, failed, group, within, next, feeding, free>>

\* A worker that waits for a permit leaves because of the cancelled scope. In
\* TypeScript that is an error like any other.
GiveUp(e) ==
    LET c == CallOf(e) IN
    /\ element[e] = "claimed" /\ Cancelled(c)
    /\ backend \in {"go", "typescript"}
    /\ element' = [element EXCEPT ![e] = "lost"]
    /\ failed' = [failed EXCEPT ![c] = @ \/ backend = "typescript"]
    /\ UNCHANGED <<backend, stopped, phase, group, within, next, feeding, free, used>>

NestedFailed(e) == Nested[e] # NoCall /\ phase[Nested[e]] = "ended" /\ failed[Nested[e]]

\* The block's value is stored and the permit given back.
Finish(e) ==
    LET c == CallOf(e) IN
    /\ element[e] = "active" /\ ~NestedFailed(e)
    /\ element' = [element EXCEPT ![e] = "done"]
    /\ used' = [used EXCEPT ![group[c]] = @ - 1]
    /\ free' = [free EXCEPT ![c] = @ + 1]
    /\ UNCHANGED <<backend, stopped, phase, failed, group, within, next, feeding>>

\* The block raises: because of its own work, its nested call, or a cancelled
\* scope. The permit is given back after the error is recorded and the child
\* scope cancelled, in the REPL before.
Raise(e) ==
    LET c == CallOf(e) IN
    /\ element[e] = "active"
    /\ element' = [element EXCEPT ![e] = "raised"]
    /\ IF backend = "repl"
         THEN /\ used' = [used EXCEPT ![group[c]] = @ - 1]
              /\ UNCHANGED failed
         ELSE /\ failed' = [failed EXCEPT ![c] = TRUE]
              /\ UNCHANGED used
    /\ UNCHANGED <<backend, stopped, phase, group, within, next, feeding, free>>

\* The other half of that. The workers of Go and Ruby go on with their loop.
Unwind(e) ==
    LET c == CallOf(e) IN
    /\ element[e] = "raised"
    /\ element' = [element EXCEPT ![e] = "lost"]
    /\ IF backend = "repl"
         THEN /\ failed' = [failed EXCEPT ![c] = TRUE]
              /\ UNCHANGED used
         ELSE /\ used' = [used EXCEPT ![group[c]] = @ - 1]
              /\ UNCHANGED failed
    /\ free' = [free EXCEPT ![c] = IF backend \in {"go", "ruby"} THEN @ + 1 ELSE @]
    /\ UNCHANGED <<backend, stopped, phase, group, within, next, feeding>>

\* Mutated: the scope is not looked at again after the workers have ended.
JoinUnchecked(c) ==
    /\ phase[c] = "mapping" /\ free[c] = 0 /\ ~feeding[c]
    /\ \A e \in ElementsOf(c) : element[e] \notin InProgress
    /\ phase' = [phase EXCEPT ![c] = IF c = Root THEN "ended" ELSE "joined"]
    /\ UNCHANGED <<backend, stopped, failed, group, within, next, feeding, free, element, used>>

\* All workers have ended. The call raises the recorded error or, but for the
\* REPL, the cancellation of the scope it was made in.
Join(c) ==
    /\ phase[c] = "mapping" /\ free[c] = 0 /\ ~feeding[c]
    /\ \A e \in ElementsOf(c) : element[e] \notin InProgress
    /\ phase' = [phase EXCEPT ![c] = IF c = Root THEN "ended" ELSE "joined"]
    /\ failed' = [failed EXCEPT ![c] = @ \/ (backend # "repl" /\ ScopeCancelled(c))]
    /\ UNCHANGED <<backend, stopped, group, within, next, feeding, free, element, used>>

\* Mutated: the block goes on without a permit.
ResumeAtOnce(e) ==
    /\ element[e] = "joining" /\ phase[Nested[e]] = "joined"
    /\ phase' = [phase EXCEPT ![Nested[e]] = "ended"]
    /\ element' = [element EXCEPT ![e] = "active"]
    /\ UNCHANGED <<backend, stopped, failed, group, within, next, feeding, free, used>>

\* The nested call returns to the block, which has its permit again.
Resume(e) ==
    LET c == CallOf(e) IN
    /\ element[e] = "joining" /\ phase[Nested[e]] = "joined"
    /\ phase' = [phase EXCEPT ![Nested[e]] = "ended"]
    /\ element' = [element EXCEPT ![e] = "active"]
    /\ IF group[Nested[e]] = Nested[e]
         THEN UNCHANGED used
         ELSE /\ used[group[c]] < Requested(group[c])
              /\ used' = [used EXCEPT ![group[c]] = @ + 1]
    /\ UNCHANGED <<backend, stopped, failed, group, within, next, feeding, free>>

\* The outer scope is cancelled: a request is abandoned, a worker told to stop.
Cancel ==
    /\ ~stopped /\ phase[Root] # "ended"
    /\ stopped' = TRUE
    /\ UNCHANGED <<backend, phase, failed, group, within, next, feeding, free, element, used>>

-----------------------------------------------------------------------------
CallStep(c) == Claim(c) \/ StopFeeding(c) \/ WorkerEnds(c) \/ Join(c)

ElementStep(e) ==
    \/ CallNested(e) \/ Admit(e) \/ GiveUp(e) \/ Finish(e)
    \/ Raise(e) \/ Unwind(e) \/ Resume(e)

Progress ==
    \/ CallRoot
    \/ \E c \in Calls : CallStep(c)
    \/ \E e \in Elements : ElementStep(e)

Next == Progress \/ Cancel

Spec == Init /\ [][Next]_vars

\* The runtimes keep running, and a block that started ends: it calls, returns
\* or raises.
FairSpec == Spec /\ WF_vars(Progress)

=============================================================================
