---------------------- MODULE ConcurrentMapProperties ----------------------
(****************************************************************************)
(* What concurrent_map promises (docs/specification.md 1355-1393).          *)
(****************************************************************************)
EXTENDS ConcurrentMap

Evaluating == {e \in Elements : element[e] = "active"}

\* Elements of c that a worker has started on and not finished.
Admitted(c) == {e \in ElementsOf(c) : element[e] \in {"active", "joining", "raised"}}

\* At no time are more blocks being evaluated than the outermost call's limit,
\* however deep the calls nest and whatever fails, and no call has more elements
\* under way than its own limit (codegen/golang/go.go 2502-2512).
Bounded ==
    /\ Cardinality(Evaluating) <= Requested(Root)
    /\ \A c \in Calls : Cardinality(Admitted(c)) <= Requested(c) \/ Limit[c] = NoLimit

\* Structured concurrency: a call runs only while the block that made it waits
\* for it in a call that is itself under way, so a call that is over has left
\* nothing running, whether it ended with a value, an error or a cancellation.
\* One that ends with a value has evaluated every element
\* (codegen/golang/go.go 2508-2512, codegen/ruby/ruby.go 1590-1635).
Collected ==
    /\ \A e \in Elements :
        /\ element[e] \in InProgress => phase[CallOf(e)] = "mapping"
        /\ Nested[e] # NoCall =>
            (phase[Nested[e]] \in {"mapping", "joined"} <=> element[e] = "joining")
    /\ \A c \in Calls : phase[c] \in {"joined", "ended"} /\ ~failed[c] =>
        \A e \in ElementsOf(c) : element[e] = "done"

\* Blocks that all wait for nested calls, failures and cancellations never block
\* the group: the outermost call ends (docs/decisions/0004 lines 46-51).
Terminates == <>(phase[Root] = "ended")

\* Once the scope a call was made in is cancelled, no further element of it is
\* admitted (docs/decisions/0004 line 49: "Parent cancellation stops further
\* admission").
AdmissionStops ==
    [][\A e \in Elements : element[e] = "claimed" /\ element'[e] = "active"
        => ~ScopeCancelled(CallOf(e))]_vars

=============================================================================
