------------------------ MODULE ConcurrentMapProofs ------------------------
(****************************************************************************)
(* For every tree of calls, every limit and every backend: calls are        *)
(* collected, and the outermost limit bounds the blocks being evaluated     *)
(* wherever nested calls find the group they are made in.                   *)
(****************************************************************************)
EXTENDS ConcurrentMapProperties, FiniteSetTheorems, TLAPS

Phases == {"uncalled", "mapping", "joined", "ended"}
Stages == {"waiting", "claimed", "active", "joining", "raised", "done", "lost"}

CallTypes ==
    /\ phase \in [Calls -> Phases]
    /\ failed \in [Calls -> BOOLEAN]
    /\ next \in [Calls -> Nat \ {0}]
    /\ feeding \in [Calls -> BOOLEAN]
    /\ free \in [Calls -> Nat]

GroupTypes ==
    /\ group \in [Calls -> Calls]
    /\ within \in [Calls -> SUBSET Calls]
    /\ used \in [Calls -> Int]

TypeOK ==
    /\ backend \in Backends
    /\ stopped \in BOOLEAN
    /\ CallTypes
    /\ GroupTypes
    /\ element \in [Elements -> Stages]

\* If nothing else happens, the call will raise.
Doomed(c) == failed[c] \/ (backend # "repl" /\ ScopeCancelled(c))

\* Indices are claimed in order, by calls that have started.
InOrder ==
    /\ \A e \in Elements : element[e] = "waiting" <=> e[2] >= next[e[1]]
    /\ \A c \in Calls : phase[c] = "uncalled" => next[c] = 1

\* The first half of Collected. Only an element with a call waits for one.
Nesting ==
    \A e \in Elements :
        /\ element[e] = "joining" => Nested[e] # NoCall
        /\ element[e] \in InProgress => phase[e[1]] = "mapping"
        /\ Nested[e] # NoCall =>
            (phase[Nested[e]] \in {"mapping", "joined"} <=> element[e] = "joining")

\* What is given up is accounted for: by an error, or a cancelled scope which the
\* call will look at when its workers have ended.
Excused ==
    /\ backend = "repl" => \A c \in Calls : within[c] = {}
    /\ \A e \in Elements :
        /\ element[e] = "raised" /\ backend # "repl" => failed[e[1]]
        /\ element[e] = "lost" => Doomed(e[1])

\* As long as there is something left to claim, some worker of a call is there
\* to claim it.
Staffed ==
    \A c \in Calls : phase[c] = "mapping" /\ ~Doomed(c) /\ next[c] <= Length[c] =>
        /\ backend = "go" => feeding[c]
        /\ free[c] > 0 \/ \E e \in Elements : e[1] = c /\ element[e] \in InProgress

\* The second half of Collected.
Whole ==
    \A c \in Calls : phase[c] \in {"joined", "ended"} /\ ~failed[c] =>
        \A e \in Elements : e[1] = c => element[e] = "done"

IInv == TypeOK /\ InOrder /\ Nesting /\ Excused /\ Staffed /\ Whole

-----------------------------------------------------------------------------
LEMMA ElementFacts ==
    /\ \A e \in Elements : e[1] \in Calls /\ e[2] \in 1..Length[e[1]] /\ e[2] \in Nat
                            /\ e = <<e[1], e[2]>>
    /\ \A c \in Calls, n \in Nat \ {0} : n <= Length[c] => <<c, n>> \in Elements
BY CallsAssumption DEF Elements

LEMMA LimitFacts ==
    ASSUME NEW c \in Calls, NEW owner \in Calls
    PROVE  /\ Requested(c) \in Nat \ {0}
           /\ LocalLimit(c, owner) \in Nat \ {0}
           /\ WorkerCount(c, owner) \in Nat
           /\ WorkerCount(c, owner) <= LocalLimit(c, owner)
           /\ Length[c] > 0 => WorkerCount(c, owner) > 0
BY CallsAssumption DEF Requested, LocalLimit, WorkerCount, NoLimit

LEMMA NestedFacts ==
    ASSUME NEW e \in Elements, Nested[e] # NoCall
    PROVE  /\ Nested[e] \in Calls /\ Nested[e] # Root /\ Nested[e] # e[1]
           /\ \A d \in Elements : Nested[d] = Nested[e] => d = e
BY NestedAssumption DEF CallOf

LEMMA InitHolds == Init => IInv
<1> SUFFICES ASSUME Init PROVE IInv
  OBVIOUS
<1> USE DEF Init
<1>1. TypeOK
  <2>1. CallTypes
    BY DEF CallTypes, Phases
  <2>2. GroupTypes
    BY DEF GroupTypes
  <2> QED
    BY <2>1, <2>2 DEF TypeOK, Stages
<1>2. InOrder
  BY ElementFacts DEF InOrder
<1>3. Nesting
  BY ElementFacts, NestedFacts DEF Nesting, InProgress
<1>4. Excused /\ Staffed /\ Whole
  BY ElementFacts DEF Excused, Staffed, Whole
<1> QED
  BY <1>1, <1>2, <1>3, <1>4 DEF IInv

LEMMA CallTypesStep == TypeOK /\ [Next]_vars => CallTypes'
<1> SUFFICES ASSUME TypeOK, [Next]_vars PROVE CallTypes'
  OBVIOUS
<1> USE DEF TypeOK, CallTypes, Phases, CallOf
<1>1. CASE CallRoot
  BY <1>1, LimitFacts, CallsAssumption DEF CallRoot, Enter
<1>2. ASSUME NEW e \in Elements, CallNested(e) PROVE CallTypes'
  <2>1. /\ Nested[e] \in Calls
        /\ WorkerCount(Nested[e], Nested[e]) \in Nat
        /\ WorkerCount(Nested[e], group[e[1]]) \in Nat
    BY <1>2, NestedFacts, ElementFacts, LimitFacts DEF CallNested, GroupTypes
  <2> QED
    BY <1>2, <2>1 DEF CallNested, Enter
<1>3. ASSUME NEW c \in Calls, CallStep(c) PROVE CallTypes'
  <2>1. failed' \in [Calls -> BOOLEAN]
    BY <1>3 DEF CallStep, Claim, StopFeeding, WorkerEnds, Join
  <2>2. phase' \in [Calls -> Phases]
    BY <1>3 DEF CallStep, Claim, StopFeeding, WorkerEnds, Join
  <2>3. next' \in [Calls -> Nat \ {0}]
    BY <1>3 DEF CallStep, Claim, StopFeeding, WorkerEnds, Join
  <2>5. feeding' \in [Calls -> BOOLEAN]
    BY <1>3 DEF CallStep, Claim, StopFeeding, WorkerEnds, Join
  <2>4. free' \in [Calls -> Nat]
    BY <1>3 DEF CallStep, Claim, StopFeeding, WorkerEnds, Join
  <2> QED
    BY <2>1, <2>2, <2>3, <2>4, <2>5
<1>4. ASSUME NEW e \in Elements, Admit(e) \/ GiveUp(e) \/ Finish(e) PROVE CallTypes'
  <2>1. failed' \in [Calls -> BOOLEAN]
    BY <1>4, ElementFacts DEF Admit, GiveUp, Finish
  <2>2. free' \in [Calls -> Nat]
    BY <1>4, ElementFacts DEF Admit, GiveUp, Finish
  <2> QED
    BY <1>4, <2>1, <2>2 DEF Admit, GiveUp, Finish
<1>5. ASSUME NEW e \in Elements, Raise(e) \/ Unwind(e) \/ Resume(e) PROVE CallTypes'
  <2>1. failed' \in [Calls -> BOOLEAN]
    BY <1>5, ElementFacts DEF Raise, Unwind, Resume
  <2>2. free' \in [Calls -> Nat]
    BY <1>5, ElementFacts DEF Raise, Unwind, Resume
  <2> QED
    BY <1>5, <2>1, <2>2 DEF Raise, Unwind, Resume
<1>6. CASE Cancel \/ UNCHANGED vars
  BY <1>6 DEF Cancel, vars
<1> QED
  BY <1>1, <1>2, <1>3, <1>4, <1>5, <1>6 DEF Next, Progress, ElementStep

LEMMA GroupTypesStep == TypeOK /\ [Next]_vars => GroupTypes'
<1> SUFFICES ASSUME TypeOK, [Next]_vars PROVE GroupTypes'
  OBVIOUS
<1> USE DEF TypeOK, GroupTypes, CallOf
<1>1. CASE CallRoot
  BY <1>1, CallsAssumption DEF CallRoot, Enter
<1>2. ASSUME NEW e \in Elements, CallNested(e) PROVE GroupTypes'
  <2>1. Nested[e] \in Calls /\ e[1] \in Calls /\ EnclosingOf(e) \in SUBSET Calls
    BY <1>2, NestedFacts, ElementFacts DEF CallNested, EnclosingOf
  <2> QED
    BY <1>2, <2>1 DEF CallNested, Enter
<1>3. ASSUME NEW c \in Calls, CallStep(c) PROVE GroupTypes'
  BY <1>3 DEF CallStep, Claim, StopFeeding, WorkerEnds, Join
<1>4. ASSUME NEW e \in Elements, Admit(e) \/ GiveUp(e) \/ Finish(e) PROVE GroupTypes'
  BY <1>4, ElementFacts DEF Admit, GiveUp, Finish
<1>5. ASSUME NEW e \in Elements, Raise(e) \/ Unwind(e) \/ Resume(e) PROVE GroupTypes'
  BY <1>5, ElementFacts DEF Raise, Unwind, Resume
<1>6. CASE Cancel \/ UNCHANGED vars
  BY <1>6 DEF Cancel, vars
<1> QED
  BY <1>1, <1>2, <1>3, <1>4, <1>5, <1>6 DEF Next, Progress, ElementStep

LEMMA TypeStep == TypeOK /\ [Next]_vars => TypeOK'
<1> SUFFICES ASSUME TypeOK, [Next]_vars PROVE TypeOK'
  OBVIOUS
<1> USE DEF TypeOK
<1>1. CallTypes' /\ GroupTypes'
  BY CallTypesStep, GroupTypesStep
<1>2. backend' \in Backends /\ stopped' \in BOOLEAN
  BY DEF Next, Progress, CallStep, ElementStep, vars, CallRoot, CallNested, Enter, Claim,
         StopFeeding, WorkerEnds, Join, Admit, GiveUp, Finish, Raise, Unwind, Resume, Cancel
<1>3. element' \in [Elements -> Stages]
  BY DEF Next, Progress, CallStep, ElementStep, vars, CallRoot, CallNested, Enter, Claim,
         StopFeeding, WorkerEnds, Join, Admit, GiveUp, Finish, Raise, Unwind, Resume, Cancel,
         Stages
<1> QED
  BY <1>1, <1>2, <1>3

-----------------------------------------------------------------------------
(* Errors and cancellations stay.                                           *)

LEMMA FailedStays ==
    ASSUME TypeOK, [Next]_vars, NEW c \in Calls
    PROVE  /\ failed[c] => failed'[c]
           /\ stopped => stopped'
           /\ backend' = backend
<1> USE DEF TypeOK, CallTypes, CallOf
<1>1. failed[c] => failed'[c]
  <2>1. CASE Cancel \/ UNCHANGED vars \/ CallRoot
    BY <2>1 DEF Cancel, vars, CallRoot, Enter
  <2>2. ASSUME NEW d \in Calls, CallStep(d) PROVE failed[c] => failed'[c]
    BY <2>2 DEF CallStep, Claim, StopFeeding, WorkerEnds, Join
  <2>3. ASSUME NEW e \in Elements, ElementStep(e) PROVE failed[c] => failed'[c]
    BY <2>3, ElementFacts
    DEF ElementStep, CallNested, Enter, Admit, GiveUp, Finish, Raise, Unwind, Resume
  <2> QED
    BY <2>1, <2>2, <2>3 DEF Next, Progress
<1>2. (stopped => stopped') /\ backend' = backend
  BY DEF Next, Progress, CallStep, ElementStep, vars, CallRoot, CallNested, Enter, Claim,
         StopFeeding, WorkerEnds, Join, Admit, GiveUp, Finish, Raise, Unwind, Resume, Cancel
<1> QED
  BY <1>1, <1>2

LEMMA WithinStays ==
    ASSUME TypeOK, [Next]_vars, NEW c \in Calls, phase[c] # "uncalled"
    PROVE  within'[c] = within[c]
<1> USE DEF TypeOK, GroupTypes, CallTypes, CallOf
<1>1. CASE Cancel \/ UNCHANGED vars \/ CallRoot
  BY <1>1 DEF Cancel, vars, CallRoot, Enter
<1>2. ASSUME NEW d \in Calls, CallStep(d) PROVE within'[c] = within[c]
  BY <1>2 DEF CallStep, Claim, StopFeeding, WorkerEnds, Join
<1>3. ASSUME NEW e \in Elements, ElementStep(e) PROVE within'[c] = within[c]
  BY <1>3 DEF ElementStep, CallNested, Enter, Admit, GiveUp, Finish, Raise, Unwind, Resume
<1> QED
  BY <1>1, <1>2, <1>3 DEF Next, Progress

LEMMA DoomedStays ==
    ASSUME TypeOK, [Next]_vars, NEW c \in Calls, phase[c] # "uncalled", Doomed(c)
    PROVE  Doomed(c)'
<1>1. \A a \in Calls : failed[a] => failed'[a]
  BY FailedStays
<1>2. within'[c] = within[c] /\ within[c] \subseteq Calls
  BY WithinStays DEF TypeOK, GroupTypes
<1>3. (stopped => stopped') /\ backend' = backend
  BY FailedStays
<1> QED
  BY <1>1, <1>2, <1>3 DEF Doomed, ScopeCancelled

-----------------------------------------------------------------------------
(* Which elements and calls a step changes.                                 *)

LEMMA InOrderStep == IInv /\ [Next]_vars => InOrder'
<1> SUFFICES ASSUME IInv, [Next]_vars PROVE InOrder'
  OBVIOUS
<1> USE DEF IInv, TypeOK, CallTypes, InOrder, Stages, CallOf
<1>1. CASE Cancel \/ UNCHANGED vars \/ CallRoot
  BY <1>1 DEF Cancel, vars, CallRoot, Enter
<1>2. ASSUME NEW c \in Calls, Claim(c) PROVE InOrder'
  <2>1. <<c, next[c]>> \in Elements
    BY <1>2, ElementFacts DEF Claim
  <2>2. ASSUME NEW e \in Elements PROVE element'[e] = "waiting" <=> e[2] >= next'[e[1]]
    <3>1. CASE e[1] # c
      BY <1>2, <2>1, <3>1, ElementFacts DEF Claim
    <3>2. CASE e[1] = c /\ e[2] = next[c]
      <4>1. e = <<c, next[c]>>
        BY <3>2, ElementFacts
      <4> QED
        BY <1>2, <2>1, <3>2, <4>1 DEF Claim
    <3>3. CASE e[1] = c /\ e[2] # next[c]
      <4>1. e # <<c, next[c]>> /\ e[2] \in Nat
        BY <3>3, ElementFacts
      <4>2. next'[c] = next[c] + 1 /\ element'[e] = element[e] /\ next[c] \in Nat
        BY <1>2, <2>1, <4>1 DEF Claim
      <4>3. element[e] = "waiting" <=> e[2] >= next[c]
        BY <3>3
      <4> QED
        BY <3>3, <4>1, <4>2, <4>3
    <3> QED
      BY <3>1, <3>2, <3>3
  <2>3. \A d \in Calls : phase'[d] = "uncalled" => next'[d] = 1
    BY <1>2 DEF Claim
  <2> QED
    BY <2>2, <2>3
<1>3. ASSUME NEW c \in Calls, StopFeeding(c) \/ WorkerEnds(c) \/ Join(c) PROVE InOrder'
  BY <1>3 DEF StopFeeding, WorkerEnds, Join
<1>4. ASSUME NEW e \in Elements, ElementStep(e) PROVE InOrder'
  <2>1. next' = next /\ \A d \in Elements : element'[d] = "waiting" <=> element[d] = "waiting"
    BY <1>4
    DEF ElementStep, CallNested, Enter, Admit, GiveUp, Finish, Raise, Unwind, Resume
  <2>2. \A d \in Calls : phase'[d] = "uncalled" => phase[d] = "uncalled"
    BY <1>4
    DEF ElementStep, CallNested, Enter, Admit, GiveUp, Finish, Raise, Unwind, Resume
  <2> QED
    BY <2>1, <2>2
<1> QED
  BY <1>1, <1>2, <1>3, <1>4 DEF Next, Progress, CallStep

LEMMA NestingStep == IInv /\ [Next]_vars => Nesting'
<1> SUFFICES ASSUME IInv, [Next]_vars, NEW e \in Elements
             PROVE  /\ element'[e] = "joining" => Nested[e] # NoCall
                    /\ element'[e] \in InProgress => phase'[e[1]] = "mapping"
                    /\ Nested[e] # NoCall =>
                        (phase'[Nested[e]] \in {"mapping", "joined"} <=> element'[e] = "joining")
  BY DEF Nesting
<1> DEFINE Goal == /\ element'[e] = "joining" => Nested[e] # NoCall
                   /\ element'[e] \in InProgress => phase'[e[1]] = "mapping"
                   /\ Nested[e] # NoCall =>
                        (phase'[Nested[e]] \in {"mapping", "joined"} <=> element'[e] = "joining")
<1> USE DEF IInv, TypeOK, CallTypes, Nesting, InProgress, Phases, CallOf
<1>0. /\ e[1] \in Calls
      /\ Nested[e] # NoCall => Nested[e] \in Calls /\ Nested[e] # Root
  BY ElementFacts, NestedFacts
<1>1. CASE Cancel \/ UNCHANGED vars
  BY <1>1 DEF Cancel, vars
<1>2. CASE CallRoot
  BY <1>0, <1>2 DEF CallRoot, Enter
<1>3. ASSUME NEW c \in Calls, Claim(c) PROVE Goal
  <2>1. <<c, next[c]>> \in Elements /\ <<c, next[c]>>[1] = c /\ <<c, next[c]>>[2] = next[c]
    BY <1>3, ElementFacts DEF Claim
  <2>2. element[<<c, next[c]>>] = "waiting"
    BY <2>1 DEF InOrder
  <2>3. CASE e = <<c, next[c]>>
    BY <1>0, <1>3, <2>1, <2>2, <2>3 DEF Claim
  <2>4. CASE e # <<c, next[c]>>
    BY <1>0, <1>3, <2>1, <2>4 DEF Claim
  <2> QED
    BY <2>3, <2>4
<1>4. ASSUME NEW c \in Calls, StopFeeding(c) \/ WorkerEnds(c) PROVE Goal
  BY <1>4 DEF StopFeeding, WorkerEnds
<1>5. ASSUME NEW c \in Calls, Join(c) PROVE Goal
  BY <1>0, <1>5 DEF Join, ElementsOf
<1>6. ASSUME NEW d \in Elements, CallNested(d) PROVE Goal
  <2>1. Nested[d] \in Calls /\ Nested[d] # d[1] /\ d[1] \in Calls
        /\ (Nested[e] = Nested[d] => e = d)
    BY <1>6, NestedFacts, ElementFacts DEF CallNested
  <2>2. /\ phase[Nested[d]] = "uncalled" /\ phase' = [phase EXCEPT ![Nested[d]] = "mapping"]
        /\ element[d] = "active" /\ element' = [element EXCEPT ![d] = "joining"]
    BY <1>6 DEF CallNested, Enter
  <2>3. CASE e = d
    BY <1>0, <1>6, <2>1, <2>2, <2>3 DEF CallNested
  <2>4. CASE e # d
    BY <1>0, <2>1, <2>2, <2>4
  <2> QED
    BY <2>3, <2>4
<1>7. ASSUME NEW d \in Elements, Resume(d) PROVE Goal
  <2>1. Nested[d] # NoCall
    BY <1>7 DEF Resume
  <2>2. Nested[d] \in Calls /\ (Nested[e] = Nested[d] => e = d)
    BY <2>1, NestedFacts
  <2>3. /\ phase[Nested[d]] = "joined" /\ phase' = [phase EXCEPT ![Nested[d]] = "ended"]
        /\ element[d] = "joining" /\ element' = [element EXCEPT ![d] = "active"]
    BY <1>7 DEF Resume
  <2> QED
    BY <1>0, <2>1, <2>2, <2>3
<1>8. ASSUME NEW d \in Elements, Admit(d) \/ GiveUp(d) \/ Finish(d) \/ Raise(d) \/ Unwind(d)
      PROVE  Goal
  BY <1>0, <1>8 DEF Admit, GiveUp, Finish, Raise, Unwind
<1> QED
  BY <1>1, <1>2, <1>3, <1>4, <1>5, <1>6, <1>7, <1>8 DEF Next, Progress, CallStep, ElementStep

-----------------------------------------------------------------------------
(* Nothing is given up without a reason.                                    *)

LEMMA ExcusedStep == IInv /\ [Next]_vars => Excused'
<1> SUFFICES ASSUME IInv, [Next]_vars PROVE Excused'
  OBVIOUS
<1> USE DEF IInv, TypeOK, CallTypes, GroupTypes, Stages, CallOf
<1>1. ASSUME backend' = "repl", NEW c \in Calls PROVE within'[c] = {}
  <2>1. backend = "repl" /\ within[c] = {}
    BY <1>1, FailedStays DEF Excused
  <2>2. CASE Cancel \/ UNCHANGED vars \/ CallRoot
    BY <2>1, <2>2 DEF Cancel, vars, CallRoot, Enter
  <2>3. ASSUME NEW d \in Calls, CallStep(d) PROVE within'[c] = {}
    BY <2>1, <2>3 DEF CallStep, Claim, StopFeeding, WorkerEnds, Join
  <2>4. ASSUME NEW e \in Elements, ElementStep(e) PROVE within'[c] = {}
    BY <2>1, <2>4 DEF ElementStep, CallNested, EnclosingOf, Enter, Admit, GiveUp, Finish, Raise,
                      Unwind, Resume
  <2> QED
    BY <2>2, <2>3, <2>4 DEF Next, Progress
<1> SUFFICES ASSUME NEW e \in Elements
             PROVE  /\ element'[e] = "raised" /\ backend' # "repl" => failed'[e[1]]
                    /\ element'[e] = "lost" => Doomed(e[1])'
  BY <1>1 DEF Excused
<1> DEFINE Goal == /\ element'[e] = "raised" /\ backend' # "repl" => failed'[e[1]]
                   /\ element'[e] = "lost" => Doomed(e[1])'
<1>2. e[1] \in Calls /\ e[2] \in Nat /\ e[2] >= 1
  BY ElementFacts
<1>3. backend' = backend /\ (failed[e[1]] => failed'[e[1]])
  BY <1>2, FailedStays
<1>4. /\ element[e] # "waiting" => phase[e[1]] # "uncalled"
      /\ element[e] # "waiting" /\ Doomed(e[1]) => Doomed(e[1])'
  <2>1. element[e] # "waiting" => phase[e[1]] # "uncalled"
    BY <1>2 DEF InOrder
  <2> QED
    BY <1>2, <2>1, DoomedStays
<1>5. ASSUME element'[e] = element[e] PROVE Goal
  BY <1>3, <1>4, <1>5 DEF Excused
<1>6. CASE Cancel \/ UNCHANGED vars \/ CallRoot
  BY <1>5, <1>6 DEF Cancel, vars, CallRoot, Enter
<1>7. ASSUME NEW c \in Calls, CallStep(c) PROVE Goal
  <2>1. CASE Claim(c)
    <3>1. <<c, next[c]>> \in Elements
      BY <2>1, ElementFacts DEF Claim
    <3>2. CASE e = <<c, next[c]>>
      BY <2>1, <3>1, <3>2 DEF Claim
    <3>3. CASE e # <<c, next[c]>>
      BY <1>5, <2>1, <3>1, <3>3 DEF Claim
    <3> QED
      BY <3>2, <3>3
  <2>2. CASE StopFeeding(c) \/ WorkerEnds(c) \/ Join(c)
    BY <1>5, <2>2 DEF StopFeeding, WorkerEnds, Join
  <2> QED
    BY <1>7, <2>1, <2>2 DEF CallStep
<1>8. ASSUME NEW d \in Elements, ElementStep(d) PROVE Goal
  <2>1. CASE d # e
    <3>1. element'[e] = element[e]
      BY <1>8, <2>1
      DEF ElementStep, CallNested, Enter, Admit, GiveUp, Finish, Raise, Unwind, Resume
    <3> QED
      BY <1>5, <3>1
  <2>2. CASE d = e /\ (CallNested(e) \/ Admit(e) \/ Finish(e) \/ Resume(e))
    BY <2>2 DEF CallNested, Admit, Finish, Resume
  <2>3. CASE d = e /\ GiveUp(e)
    <3>1. Doomed(e[1]) /\ element[e] # "waiting" /\ element'[e] = "lost"
      BY <2>3 DEF GiveUp, Cancelled, Doomed
    <3> QED
      BY <1>4, <3>1
  <2>4. CASE d = e /\ Raise(e)
    BY <1>2, <1>3, <2>4 DEF Raise
  <2>5. CASE d = e /\ Unwind(e)
    <3>1. element'[e] = "lost" /\ element[e] = "raised"
      BY <2>5 DEF Unwind
    <3>2. failed'[e[1]]
      BY <1>2, <1>3, <2>5, <3>1 DEF Unwind, Excused
    <3> QED
      BY <3>1, <3>2 DEF Doomed
  <2> QED
    BY <1>8, <2>1, <2>2, <2>3, <2>4, <2>5 DEF ElementStep
<1> QED
  BY <1>6, <1>7, <1>8 DEF Next, Progress

LEMMA StaffedStep == IInv /\ [Next]_vars => Staffed'
<1> SUFFICES ASSUME IInv, [Next]_vars, NEW c \in Calls,
                    phase'[c] = "mapping", ~Doomed(c)', next'[c] <= Length[c]
             PROVE  /\ backend' = "go" => feeding'[c]
                    /\ free'[c] > 0 \/ \E e \in Elements : e[1] = c /\ element'[e] \in InProgress
  BY DEF Staffed
<1> DEFINE Goal == /\ backend' = "go" => feeding'[c]
                   /\ free'[c] > 0 \/ \E e \in Elements : e[1] = c /\ element'[e] \in InProgress
<1> USE DEF IInv, TypeOK, CallTypes, GroupTypes, CallOf, Phases
<1>1. backend' = backend
  BY FailedStays
<1>2. CASE phase[c] = "uncalled"
  <2>1. next[c] = 1 /\ Length[c] \in Nat
    BY <1>2, CallsAssumption DEF InOrder
  <2>2. ASSUME NEW owner \in Calls, NEW chain, Enter(c, owner, chain) PROVE Goal
    <3>1. Length[c] > 0
      BY <2>1, <2>2 DEF Enter
    <3>2. WorkerCount(c, owner) > 0
      BY <3>1, LimitFacts
    <3> QED
      BY <1>1, <2>2, <3>2 DEF Enter
  <2>3. CASE CallRoot
    <3>1. c = Root
      BY <1>2, <2>3, CallsAssumption DEF CallRoot, Enter
    <3> QED
      BY <2>2, <2>3, <3>1 DEF CallRoot
  <2>4. ASSUME NEW e \in Elements, CallNested(e) PROVE Goal
    <3>1. c = Nested[e] /\ e[1] \in Calls
      BY <1>2, <2>4, NestedFacts, ElementFacts DEF CallNested, Enter
    <3>2. group[e[1]] \in Calls
      BY <3>1
    <3>3. Enter(c, c, {}) \/ Enter(c, group[e[1]], EnclosingOf(e))
      BY <2>4, <3>1 DEF CallNested
    <3> QED
      BY <2>2, <3>2, <3>3
  <2>5. ASSUME NEW d \in Calls, CallStep(d) PROVE FALSE
    BY <1>2, <2>5 DEF CallStep, Claim, StopFeeding, WorkerEnds, Join
  <2>6. ASSUME NEW e \in Elements, Admit(e) \/ GiveUp(e) \/ Finish(e) \/ Raise(e) \/ Unwind(e) \/ Resume(e)
        PROVE  FALSE
    BY <1>2, <2>6 DEF Admit, GiveUp, Finish, Raise, Unwind, Resume
  <2>7. CASE Cancel \/ UNCHANGED vars
    BY <1>2, <2>7 DEF Cancel, vars
  <2> QED
    BY <2>3, <2>4, <2>5, <2>6, <2>7 DEF Next, Progress, ElementStep
<1>3. CASE phase[c] # "uncalled"
  <2>1. ~Doomed(c)
    BY <1>3, DoomedStays
  <2>2. phase[c] = "mapping" /\ next[c] <= next'[c]
    <3>1. CASE Cancel \/ UNCHANGED vars \/ CallRoot
      BY <1>3, <3>1 DEF Cancel, vars, CallRoot, Enter
    <3>2. ASSUME NEW d \in Calls, CallStep(d) PROVE phase[c] = "mapping" /\ next[c] <= next'[c]
      BY <1>3, <3>2 DEF CallStep, Claim, StopFeeding, WorkerEnds, Join
    <3>3. ASSUME NEW e \in Elements, ElementStep(e) PROVE phase[c] = "mapping" /\ next[c] <= next'[c]
      BY <1>3, <3>3 DEF ElementStep, CallNested, Enter, Admit, GiveUp, Finish, Raise, Unwind, Resume
    <3> QED
      BY <3>1, <3>2, <3>3 DEF Next, Progress
  <2>3. /\ next[c] <= Length[c] /\ ~(next[c] > Length[c])
        /\ backend = "go" => feeding[c]
        /\ free[c] > 0 \/ \E e \in Elements : e[1] = c /\ element[e] \in InProgress
    <3>1. next'[c] \in Nat /\ next[c] \in Nat /\ Length[c] \in Nat
      BY TypeStep, CallsAssumption
    <3>2. next[c] <= Length[c] /\ ~(next[c] > Length[c])
      BY <2>2, <3>1
    <3> QED
      BY <2>1, <2>2, <3>2 DEF Staffed
  <2> DEFINE Same == /\ feeding'[c] = feeding[c] /\ free'[c] = free[c]
                     /\ \A e \in Elements : e[1] = c /\ element[e] \in InProgress
                            => element'[e] \in InProgress
  <2>4. ASSUME Same PROVE Goal
    BY <1>1, <2>3, <2>4
  <2>5. CASE Cancel \/ UNCHANGED vars \/ CallRoot
    <3>1. Same
      BY <1>3, <2>5 DEF Cancel, vars, CallRoot, Enter
    <3> QED
      BY <2>4, <3>1
  <2>6. ASSUME NEW d \in Calls, CallStep(d) PROVE Goal
    <3>1. CASE Claim(d)
      <4>1. <<d, next[d]>> \in Elements /\ <<d, next[d]>>[1] = d
        BY <3>1, ElementFacts DEF Claim
      <4>2. element' = [element EXCEPT ![<<d, next[d]>>] = "claimed"]
        BY <3>1 DEF Claim
      <4>3. CASE d = c
        <5>1. element'[<<d, next[d]>>] \in InProgress
          BY <4>1, <4>2 DEF InProgress
        <5> QED
          BY <1>1, <2>3, <3>1, <4>1, <4>3, <5>1 DEF Claim
      <4>4. CASE d # c
        <5>1. Same
          BY <3>1, <4>1, <4>2, <4>4 DEF Claim
        <5> QED
          BY <2>4, <5>1
      <4> QED
        BY <4>3, <4>4
    <3>2. CASE StopFeeding(d)
      <4>1. CASE d = c /\ backend = "go"
        <5>1. Cancelled(c)
          BY <2>3, <3>2, <4>1 DEF StopFeeding
        <5> QED
          BY <2>1, <4>1, <5>1 DEF Cancelled, Doomed
      <4>2. CASE d # c \/ backend # "go"
        BY <1>1, <2>3, <3>2, <4>2 DEF StopFeeding
      <4> QED
        BY <4>1, <4>2
    <3>3. CASE WorkerEnds(d)
      <4>1. CASE d = c
        <5>1. backend # "go" /\ Cancelled(c)
          BY <2>3, <3>3, <4>1 DEF WorkerEnds
        <5>2. backend = "repl" /\ stopped
          BY <2>1, <5>1 DEF Cancelled, Doomed, ScopeCancelled, Excused
        <5>3. failed'[c]
          BY <3>3, <4>1, <5>2 DEF WorkerEnds
        <5> QED
          BY <5>3 DEF Doomed
      <4>2. CASE d # c
        BY <2>4, <3>3, <4>2 DEF WorkerEnds
      <4> QED
        BY <4>1, <4>2
    <3>4. CASE Join(d)
      BY <2>4, <3>4 DEF Join
    <3> QED
      BY <2>6, <3>1, <3>2, <3>3, <3>4 DEF CallStep
  <2>7. ASSUME NEW d \in Elements, CallNested(d) \/ Admit(d) \/ Raise(d) \/ Resume(d) PROVE Goal
    <3>1. \A e \in Elements : element[e] \in InProgress => element'[e] \in InProgress
      BY <2>7 DEF CallNested, Admit, Raise, Resume, InProgress
    <3>2. feeding'[c] = feeding[c] /\ free'[c] = free[c]
      BY <1>3, <2>7 DEF CallNested, Enter, Admit, Raise, Resume
    <3> QED
      BY <2>4, <3>1, <3>2
  <2>8. ASSUME NEW d \in Elements, Finish(d) \/ GiveUp(d) \/ Unwind(d) PROVE Goal
    <3>1. d[1] \in Calls /\ feeding' = feeding
      BY <2>8, ElementFacts DEF Finish, GiveUp, Unwind
    <3>2. CASE d[1] # c
      <4>1. Same
        BY <2>8, <3>1, <3>2 DEF Finish, GiveUp, Unwind
      <4> QED
        BY <2>4, <4>1
    <3>3. CASE d[1] = c
      <4>1. ~GiveUp(d)
        BY <2>1, <3>3 DEF GiveUp, Cancelled, Doomed
      <4>2. ~Unwind(d)
        <5>1. ASSUME Unwind(d), backend = "repl" PROVE FALSE
          BY <3>1, <3>3, <5>1 DEF Unwind, Doomed
        <5>2. ASSUME Unwind(d), backend # "repl" PROVE FALSE
          BY <2>1, <3>3, <5>2 DEF Unwind, Doomed, Excused
        <5> QED
          BY <5>1, <5>2
      <4>3. free'[c] = free[c] + 1
        BY <2>8, <3>1, <3>3, <4>1, <4>2 DEF Finish
      <4> QED
        BY <1>1, <2>3, <3>1, <4>3
    <3> QED
      BY <3>2, <3>3
  <2> QED
    BY <2>5, <2>6, <2>7, <2>8 DEF Next, Progress, ElementStep
<1> QED
  BY <1>2, <1>3

LEMMA WholeStep == IInv /\ [Next]_vars => Whole'
<1> SUFFICES ASSUME IInv, [Next]_vars, NEW c \in Calls,
                    phase'[c] \in {"joined", "ended"}, ~failed'[c],
                    NEW e \in Elements, e[1] = c
             PROVE  element'[e] = "done"
  BY DEF Whole
<1> USE DEF IInv, TypeOK, CallTypes, CallOf, Phases, Stages
<1>1. ~failed[c]
  BY FailedStays
<1>2. ASSUME phase[c] \in {"joined", "ended"}, element'[e] = element[e] PROVE element'[e] = "done"
  BY <1>1, <1>2 DEF Whole
<1>3. CASE Cancel \/ UNCHANGED vars \/ CallRoot
  BY <1>2, <1>3 DEF Cancel, vars, CallRoot, Enter
<1>4. ASSUME NEW d \in Calls, CallStep(d) PROVE element'[e] = "done"
  <2>1. CASE Claim(d)
    <3>1. d # c /\ phase[c] \in {"joined", "ended"}
      BY <2>1 DEF Claim
    <3>2. e # <<d, next[d]>>
      BY <3>1
    <3> QED
      BY <1>2, <2>1, <3>1, <3>2, ElementFacts DEF Claim
  <2>2. CASE StopFeeding(d) \/ WorkerEnds(d)
    BY <1>2, <2>2 DEF StopFeeding, WorkerEnds
  <2>3. CASE Join(d) /\ d # c
    BY <1>2, <2>3 DEF Join
  <2>4. CASE Join(d) /\ d = c
    <3>1. ~Doomed(c)
      BY <1>1, <2>4 DEF Join, Doomed
    <3>2. \A a \in Elements : a[1] = c => element[a] \notin InProgress
      BY <2>4 DEF Join, ElementsOf
    <3>3. ~(next[c] <= Length[c])
      BY <2>4, <3>1, <3>2 DEF Join, Staffed
    <3>4. element[e] # "waiting"
      <4>1. e[2] \in Nat /\ e[2] <= Length[c] /\ next[c] \in Nat /\ Length[c] \in Nat
        BY ElementFacts, CallsAssumption
      <4>2. ~(e[2] >= next[c])
        BY <3>3, <4>1
      <4> QED
        BY <4>2 DEF InOrder
    <3>5. element[e] # "lost"
      BY <3>1 DEF Excused
    <3>6. element'[e] = element[e]
      BY <2>4 DEF Join
    <3> QED
      BY <3>2, <3>4, <3>5, <3>6 DEF InProgress
  <2> QED
    BY <1>4, <2>1, <2>2, <2>3, <2>4 DEF CallStep
<1>5. ASSUME NEW d \in Elements, ElementStep(d) PROVE element'[e] = "done"
  <2>1. d[1] \in Calls /\ element[d] \in InProgress
    BY <1>5, ElementFacts
    DEF ElementStep, CallNested, Admit, GiveUp, Finish, Raise, Unwind, Resume, InProgress
  <2>2. phase[d[1]] = "mapping"
    BY <2>1 DEF Nesting
  <2>3. CASE phase[c] \in {"joined", "ended"}
    <3>1. d # e
      BY <2>2, <2>3
    <3>2. element'[e] = element[e]
      BY <1>5, <3>1
      DEF ElementStep, CallNested, Enter, Admit, GiveUp, Finish, Raise, Unwind, Resume
    <3> QED
      BY <1>2, <2>3, <3>2
  <2>4. CASE phase[c] \notin {"joined", "ended"}
    BY <1>5, <2>4
    DEF ElementStep, CallNested, Enter, Admit, GiveUp, Finish, Raise, Unwind, Resume
  <2> QED
    BY <2>3, <2>4
<1> QED
  BY <1>3, <1>4, <1>5 DEF Next, Progress

LEMMA Inductive == Spec => []IInv
<1>1. IInv /\ [Next]_vars => IInv'
  BY TypeStep, InOrderStep, NestingStep, ExcusedStep, StaffedStep, WholeStep DEF IInv
<1> QED
  BY InitHolds, <1>1, PTL DEF Spec

\* Whatever the tree of calls, the limits, the failures and the cancellations, no
\* call ends while something of it runs, and one that ends with a value has
\* evaluated every element.
THEOREM CallsAreCollected == Spec => []Collected
<1>1. IInv => Collected
  BY DEF IInv, Nesting, Whole, Collected, CallOf, ElementsOf
<1> QED
  BY Inductive, <1>1, PTL

-----------------------------------------------------------------------------
(* The accounts of permits and workers.                                     *)

Holds(stage) == stage = "active" \/ (stage = "raised" /\ backend # "repl")

Holders == {e \in Elements : Holds(element[e])}

Busy(c) == {e \in Elements : e[1] = c /\ element[e] \in InProgress}

\* Every call finds the group it is made in.
Shared == "repl" \notin Backends \/ InFunction = {}

\* The permits that are taken are those which elements hold, and the workers of
\* a call, with and without an element, are as many as it started at most.
Accounts ==
    /\ \A c \in Calls : phase[c] # "uncalled" => group[c] = Root
    /\ used[Root] = Cardinality(Holders)
    /\ used[Root] <= Requested(Root)
    /\ \A c \in Calls : free[c] + Cardinality(Busy(c)) <= LocalLimit(c, Root)

LEMMA ElementsFinite == IsFiniteSet(Elements)
<1> DEFINE Row(c) == {c} \X (1..Length[c])
           Rows == {Row(c) : c \in Calls}
           f == [c \in Calls |-> Row(c)]
<1>1. IsFiniteSet(Rows)
  <2>1. f \in [Calls -> Rows]
    OBVIOUS
  <2>2. \A T \in Rows : \E c \in Calls : f[c] = T
    OBVIOUS
  <2>3. f \in Surjection(Calls, Rows)
    BY <2>1, <2>2 DEF Surjection
  <2> QED
    BY <2>3, FS_Surjection, CallsAssumption
<1>2. \A T \in Rows : IsFiniteSet(T)
  <2> SUFFICES ASSUME NEW c \in Calls PROVE IsFiniteSet(Row(c))
    OBVIOUS
  <2>0. 1 \in Int /\ Length[c] \in Int
    BY CallsAssumption
  <2>1. IsFiniteSet({c}) /\ IsFiniteSet(1..Length[c])
    BY <2>0, FS_Singleton, FS_Interval
  <2>2. IsFiniteSet({c} \X (1..Length[c]))
    BY <2>1, FS_Product
  <2> QED
    BY <2>2
<1> QED
  BY <1>1, <1>2, FS_UNION DEF Elements

LEMMA HoldersFinite ==
    /\ IsFiniteSet(Holders) /\ Cardinality(Holders) \in Nat
    /\ \A c \in Calls : IsFiniteSet(Busy(c)) /\ Cardinality(Busy(c)) \in Nat
BY ElementsFinite, FS_Subset, FS_CardinalityType DEF Holders, Busy

\* What happens to both accounts when one element goes to another stage.
LEMMA HoldersAfter ==
    ASSUME TypeOK, NEW e \in Elements, NEW s \in Stages, backend' = backend,
           element' = [element EXCEPT ![e] = s]
    PROVE  Cardinality(Holders') = Cardinality(Holders) + (IF Holds(s) THEN 1 ELSE 0)
                                     - (IF Holds(element[e]) THEN 1 ELSE 0)
<1>0. IsFiniteSet(Holders) /\ Cardinality(Holders) \in Nat
  BY HoldersFinite
<1>3. \A d \in Elements : element'[d] = IF d = e THEN s ELSE element[d]
  BY DEF TypeOK
<1>1. CASE Holds(s)
  <2>1. Holders' = Holders \cup {e}
    BY <1>1, <1>3 DEF Holders, Holds
  <2>2. e \in Holders <=> Holds(element[e])
    BY DEF Holders
  <2>3. Cardinality(Holders \cup {e}) = IF e \in Holders THEN Cardinality(Holders) ELSE Cardinality(Holders) + 1
    BY <1>0, FS_AddElement
  <2> QED
    BY <1>0, <1>1, <2>1, <2>2, <2>3
<1>2. CASE ~Holds(s)
  <2>1. Holders' = Holders \ {e}
    BY <1>2, <1>3 DEF Holders, Holds
  <2>2. e \in Holders <=> Holds(element[e])
    BY DEF Holders
  <2>3. Cardinality(Holders \ {e}) = IF e \in Holders THEN Cardinality(Holders) - 1 ELSE Cardinality(Holders)
    BY <1>0, FS_RemoveElement
  <2> QED
    BY <1>0, <1>2, <2>1, <2>2, <2>3
<1> QED
  BY <1>1, <1>2

LEMMA BusyAfter ==
    ASSUME TypeOK, NEW e \in Elements, NEW s \in Stages, NEW c \in Calls,
           element' = [element EXCEPT ![e] = s]
    PROVE  /\ e[1] # c => Busy(c)' = Busy(c)
           /\ e[1] = c => Cardinality(Busy(c)') =
                Cardinality(Busy(c)) + (IF s \in InProgress THEN 1 ELSE 0)
                    - (IF element[e] \in InProgress THEN 1 ELSE 0)
<1>0. IsFiniteSet(Busy(c)) /\ Cardinality(Busy(c)) \in Nat
  BY HoldersFinite
<1>4. \A d \in Elements : element'[d] = IF d = e THEN s ELSE element[d]
  BY DEF TypeOK
<1>1. CASE e[1] = c /\ s \in InProgress
  <2>1. Busy(c)' = Busy(c) \cup {e}
    BY <1>1, <1>4 DEF Busy
  <2>2. e \in Busy(c) <=> element[e] \in InProgress
    BY <1>1 DEF Busy
  <2>3. Cardinality(Busy(c) \cup {e}) = IF e \in Busy(c) THEN Cardinality(Busy(c)) ELSE Cardinality(Busy(c)) + 1
    BY <1>0, FS_AddElement
  <2> QED
    BY <1>0, <1>1, <2>1, <2>2, <2>3
<1>2. CASE e[1] = c /\ s \notin InProgress
  <2>1. Busy(c)' = Busy(c) \ {e}
    BY <1>2, <1>4 DEF Busy
  <2>2. e \in Busy(c) <=> element[e] \in InProgress
    BY <1>2 DEF Busy
  <2>3. Cardinality(Busy(c) \ {e}) = IF e \in Busy(c) THEN Cardinality(Busy(c)) - 1 ELSE Cardinality(Busy(c))
    BY <1>0, FS_RemoveElement
  <2> QED
    BY <1>0, <1>2, <2>1, <2>2, <2>3
<1>3. CASE e[1] # c
  BY <1>3, <1>4 DEF Busy
<1> QED
  BY <1>1, <1>2, <1>3

LEMMA AccountsInit == Init => Accounts
<1> SUFFICES ASSUME Init PROVE Accounts
  OBVIOUS
<1>1. Holders = {} /\ \A c \in Calls : Busy(c) = {}
  BY DEF Init, Holders, Holds, Busy, InProgress
<1>2. Cardinality(Holders) = 0 /\ \A c \in Calls : Cardinality(Busy(c)) = 0
  BY <1>1, FS_EmptySet
<1>3. Root \in Calls
  BY CallsAssumption
<1>4. used[Root] = 0 /\ \A c \in Calls : free[c] = 0 /\ phase[c] = "uncalled"
  BY <1>3 DEF Init
<1> QED
  BY <1>2, <1>3, <1>4, LimitFacts DEF Accounts

\* A call that starts has no element under way.
LEMMA EnterFree ==
    ASSUME IInv, Accounts, NEW c \in Calls, NEW chain, Enter(c, Root, chain)
    PROVE  /\ \A d \in Calls : phase'[d] # "uncalled" => group'[d] = Root
           /\ \A d \in Calls : free'[d] + Cardinality(Busy(d)) <= LocalLimit(d, Root)
<1> USE DEF IInv, TypeOK, CallTypes, GroupTypes
<1>1. \A d \in Calls : phase'[d] # "uncalled" => group'[d] = Root
  BY DEF Enter, Accounts
<1>2. Busy(c) = {}
  <2>1. \A e \in Elements : e[1] = c => element[e] = "waiting"
    BY ElementFacts DEF Enter, InOrder
  <2> QED
    BY <2>1 DEF Busy, InProgress
<1>3. Cardinality(Busy(c)) = 0
  BY <1>2, FS_EmptySet
<1>4. /\ WorkerCount(c, Root) \in Nat /\ LocalLimit(c, Root) \in Nat
      /\ WorkerCount(c, Root) <= LocalLimit(c, Root)
  BY LimitFacts, CallsAssumption
<1>5. ASSUME NEW d \in Calls PROVE free'[d] + Cardinality(Busy(d)) <= LocalLimit(d, Root)
  <2>1. CASE d = c
    BY <1>3, <1>4, <2>1 DEF Enter
  <2>2. CASE d # c
    BY <2>2 DEF Enter, Accounts
  <2> QED
    BY <2>1, <2>2
<1> QED
  BY <1>1, <1>5

\* Where an element goes from one stage to another, and the permits and workers
\* that are taken or given back go with it, the accounts stay in order.
LEMMA AccountsMove ==
    ASSUME IInv, Accounts, NEW e \in Elements, NEW s \in Stages, backend' = backend,
           element' = [element EXCEPT ![e] = s],
           phase' = phase, group' = group,
           used'[Root] = used[Root] + (IF Holds(s) THEN 1 ELSE 0)
                            - (IF Holds(element[e]) THEN 1 ELSE 0),
           used'[Root] <= used[Root] \/ used'[Root] <= Requested(Root),
           \A d \in Calls : d # e[1] => free'[d] = free[d],
           free'[e[1]] <= free[e[1]] + (IF element[e] \in InProgress THEN 1 ELSE 0)
                            - (IF s \in InProgress THEN 1 ELSE 0),
           free' \in [Calls -> Nat], used' \in [Calls -> Int]
    PROVE  Accounts'
<1> USE DEF IInv
<1>1. Root \in Calls /\ e[1] \in Calls
  BY CallsAssumption, ElementFacts
<1>2. Cardinality(Holders') = Cardinality(Holders) + (IF Holds(s) THEN 1 ELSE 0)
                                     - (IF Holds(element[e]) THEN 1 ELSE 0)
  BY HoldersAfter
<1>3. used'[Root] = Cardinality(Holders') /\ used'[Root] <= Requested(Root)
  <2>1. /\ used[Root] = Cardinality(Holders) /\ used[Root] <= Requested(Root)
        /\ used[Root] \in Int /\ used'[Root] \in Int /\ Requested(Root) \in Int
    BY <1>1, LimitFacts DEF Accounts, TypeOK, GroupTypes
  <2> QED
    BY <1>2, <2>1
<1>4. ASSUME NEW d \in Calls PROVE free'[d] + Cardinality(Busy(d)') <= LocalLimit(d, Root)
  <2>1. /\ free[d] + Cardinality(Busy(d)) <= LocalLimit(d, Root)
        /\ Cardinality(Busy(d)) \in Nat /\ LocalLimit(d, Root) \in Nat
        /\ free[d] \in Nat /\ free'[d] \in Nat
    BY <1>1, HoldersFinite, LimitFacts DEF Accounts, TypeOK, CallTypes
  <2>2. CASE d # e[1]
    BY <2>1, <2>2, BusyAfter
  <2>3. CASE d = e[1]
    <3>1. Cardinality(Busy(d)') = Cardinality(Busy(d)) + (IF s \in InProgress THEN 1 ELSE 0)
                                     - (IF element[e] \in InProgress THEN 1 ELSE 0)
      BY <2>3, BusyAfter
    <3> QED
      BY <2>1, <2>3, <3>1
  <2> QED
    BY <2>2, <2>3
<1>5. \A d \in Calls : phase'[d] # "uncalled" => group'[d] = Root
  BY DEF Accounts
<1> QED
  BY <1>3, <1>4, <1>5 DEF Accounts, LocalLimit, Requested

\* Steps which leave the elements alone only ever dismiss workers.
LEMMA AccountsStay ==
    ASSUME IInv, Accounts, UNCHANGED <<backend, element, group, used>>,
           \A c \in Calls : phase'[c] # "uncalled" => phase[c] # "uncalled",
           \A c \in Calls : free'[c] <= free[c] /\ free'[c] \in Nat
    PROVE  Accounts'
<1>1. Holders' = Holders /\ \A c \in Calls : Busy(c)' = Busy(c)
  BY DEF Holders, Holds, Busy
<1>2. ASSUME NEW c \in Calls PROVE free'[c] + Cardinality(Busy(c)) <= LocalLimit(c, Root)
  <2>1. /\ free[c] + Cardinality(Busy(c)) <= LocalLimit(c, Root)
        /\ Cardinality(Busy(c)) \in Nat /\ LocalLimit(c, Root) \in Nat /\ free[c] \in Nat
    BY HoldersFinite, LimitFacts, CallsAssumption DEF Accounts, IInv, TypeOK, CallTypes
  <2> QED
    BY <2>1
<1> QED
  BY <1>1, <1>2 DEF Accounts, LocalLimit, Requested

LEMMA AccountsCalled ==
    ASSUME Shared, IInv, Accounts, NEW e \in Elements, CallNested(e)
    PROVE  Accounts'
<1> USE DEF IInv, TypeOK, CallTypes, GroupTypes
<1>1. /\ e[1] \in Calls /\ Root \in Calls /\ Nested[e] \in Calls
      /\ element[e] = "active" /\ element' = [element EXCEPT ![e] = "joining"]
  BY ElementFacts, NestedFacts, CallsAssumption DEF CallNested
<1>2. group[e[1]] = Root
  BY <1>1 DEF Accounts, Nesting, InProgress
<1>3. /\ Enter(Nested[e], Root, EnclosingOf(e))
      /\ used' = [used EXCEPT ![Root] = @ - 1]
      /\ backend' = backend
  BY <1>2 DEF CallNested, Shared, Detached, Enter, CallOf
<1>4. /\ \A d \in Calls : phase'[d] # "uncalled" => group'[d] = Root
      /\ \A d \in Calls : free'[d] + Cardinality(Busy(d)) <= LocalLimit(d, Root)
  BY <1>1, <1>3, EnterFree
<1>5. Cardinality(Holders') = Cardinality(Holders) - 1
  <2>1. Cardinality(Holders') = Cardinality(Holders) + (IF Holds("joining") THEN 1 ELSE 0)
                                  - (IF Holds(element[e]) THEN 1 ELSE 0)
    BY <1>1, <1>3, HoldersAfter DEF Stages
  <2> QED
    BY <1>1, <2>1, HoldersFinite DEF Holds
<1>6. used'[Root] = Cardinality(Holders') /\ used'[Root] <= Requested(Root)
  <2>1. /\ used[Root] = Cardinality(Holders) /\ used[Root] <= Requested(Root)
        /\ used[Root] \in Int /\ Requested(Root) \in Int
    BY <1>1, LimitFacts DEF Accounts
  <2> QED
    BY <1>1, <1>3, <1>5, <2>1
<1>7. ASSUME NEW d \in Calls PROVE Cardinality(Busy(d)') = Cardinality(Busy(d))
  <2>1. CASE e[1] # d
    BY <1>1, <2>1, BusyAfter DEF Stages
  <2>2. CASE e[1] = d
    <3>1. Cardinality(Busy(d)') = Cardinality(Busy(d)) + (IF "joining" \in InProgress THEN 1 ELSE 0)
                                     - (IF element[e] \in InProgress THEN 1 ELSE 0)
      BY <1>1, <2>2, BusyAfter DEF Stages
    <3> QED
      BY <1>1, <3>1, HoldersFinite DEF InProgress
  <2> QED
    BY <2>1, <2>2
<1> QED
  BY <1>4, <1>6, <1>7 DEF Accounts, LocalLimit, Requested

LEMMA AccountsResumed ==
    ASSUME IInv, Accounts, NEW e \in Elements, Resume(e)
    PROVE  Accounts'
<1> USE DEF IInv, TypeOK, CallTypes, GroupTypes
<1>1. /\ e[1] \in Calls /\ Root \in Calls /\ backend' = backend
      /\ element[e] = "joining" /\ element' = [element EXCEPT ![e] = "active"]
      /\ UNCHANGED <<group, free>>
  BY ElementFacts, CallsAssumption DEF Resume
<1>2. Nested[e] \in Calls /\ Nested[e] # Root
  BY <1>1, NestedFacts DEF Nesting
<1>3. group[e[1]] = Root /\ group[Nested[e]] = Root
  BY <1>1, <1>2 DEF Accounts, Nesting, InProgress, Resume
<1>4. used[Root] < Requested(Root) /\ used' = [used EXCEPT ![Root] = @ + 1]
  BY <1>2, <1>3 DEF Resume, CallOf
<1>5. Cardinality(Holders') = Cardinality(Holders) + 1
  <2>1. Cardinality(Holders') = Cardinality(Holders) + (IF Holds("active") THEN 1 ELSE 0)
                                  - (IF Holds(element[e]) THEN 1 ELSE 0)
    BY <1>1, HoldersAfter DEF Stages
  <2> QED
    BY <1>1, <2>1, HoldersFinite DEF Holds
<1>6. used'[Root] = Cardinality(Holders') /\ used'[Root] <= Requested(Root)
  <2>1. /\ used[Root] = Cardinality(Holders)
        /\ used[Root] \in Int /\ Requested(Root) \in Int
    BY <1>1, LimitFacts DEF Accounts
  <2> QED
    BY <1>1, <1>4, <1>5, <2>1
<1>7. ASSUME NEW d \in Calls PROVE Cardinality(Busy(d)') = Cardinality(Busy(d))
  <2>1. CASE e[1] # d
    BY <1>1, <2>1, BusyAfter DEF Stages
  <2>2. CASE e[1] = d
    <3>1. Cardinality(Busy(d)') = Cardinality(Busy(d)) + (IF "active" \in InProgress THEN 1 ELSE 0)
                                     - (IF element[e] \in InProgress THEN 1 ELSE 0)
      BY <1>1, <2>2, BusyAfter DEF Stages
    <3> QED
      BY <1>1, <3>1, HoldersFinite DEF InProgress
  <2> QED
    BY <2>1, <2>2
<1>8. \A d \in Calls : phase'[d] # "uncalled" => phase[d] # "uncalled"
  BY <1>2 DEF Resume
<1> QED
  BY <1>1, <1>6, <1>7, <1>8 DEF Accounts, LocalLimit, Requested

LEMMA AccountsStep == Shared /\ IInv /\ Accounts /\ [Next]_vars => Accounts'
<1> SUFFICES ASSUME Shared, IInv, Accounts, [Next]_vars PROVE Accounts'
  OBVIOUS
<1> USE DEF IInv, TypeOK, CallTypes, GroupTypes, CallOf
<1>0. free' \in [Calls -> Nat] /\ used' \in [Calls -> Int] /\ backend' = backend
  BY CallTypesStep, GroupTypesStep, FailedStays, CallsAssumption
<1>1. CASE Cancel \/ UNCHANGED vars
  BY <1>1, AccountsStay DEF Cancel, vars
<1>2. CASE CallRoot
  <2>1. /\ \A d \in Calls : phase'[d] # "uncalled" => group'[d] = Root
        /\ \A d \in Calls : free'[d] + Cardinality(Busy(d)) <= LocalLimit(d, Root)
    BY <1>2, EnterFree, CallsAssumption DEF CallRoot
  <2>2. Holders' = Holders /\ (\A d \in Calls : Busy(d)' = Busy(d)) /\ used' = used
    BY <1>2 DEF CallRoot, Enter, Holders, Holds, Busy
  <2> QED
    BY <2>1, <2>2 DEF Accounts, LocalLimit, Requested
<1>3. ASSUME NEW c \in Calls, Claim(c) PROVE Accounts'
  <2> DEFINE e == <<c, next[c]>>
  <2>1. e \in Elements /\ e[1] = c
    BY <1>3, ElementFacts DEF Claim
  <2>2. element[e] = "waiting"
    BY <2>1 DEF InOrder
  <2> HIDE DEF e
  <2>3. /\ element' = [element EXCEPT ![e] = "claimed"]
        /\ phase' = phase /\ group' = group /\ used' = used
        /\ free' = [free EXCEPT ![c] = @ - 1]
    BY <1>3 DEF Claim, e
  <2>4. /\ "claimed" \in Stages /\ "claimed" \in InProgress /\ ~Holds("claimed")
        /\ element[e] \notin InProgress /\ ~Holds(element[e])
    BY <2>2 DEF Stages, InProgress, Holds
  <2>5. used[Root] \in Int
    BY CallsAssumption
  <2>6. /\ \A d \in Calls : d # e[1] => free'[d] = free[d]
        /\ free'[e[1]] <= free[e[1]] + 0 - 1
    BY <2>1, <2>3
  <2>7. /\ used'[Root] = used[Root] + (IF Holds("claimed") THEN 1 ELSE 0)
                           - (IF Holds(element[e]) THEN 1 ELSE 0)
        /\ used'[Root] <= used[Root] \/ used'[Root] <= Requested(Root)
        /\ \A d \in Calls : d # e[1] => free'[d] = free[d]
        /\ free'[e[1]] <= free[e[1]] + (IF element[e] \in InProgress THEN 1 ELSE 0)
                           - (IF "claimed" \in InProgress THEN 1 ELSE 0)
    BY <2>1, <2>3, <2>4, <2>5, <2>6
  <2> HIDE DEF IInv, TypeOK, CallTypes, GroupTypes
  <2> QED
    BY <1>0, <2>1, <2>3, <2>4, <2>7, AccountsMove
<1>4. ASSUME NEW c \in Calls, StopFeeding(c) \/ WorkerEnds(c) \/ Join(c) PROVE Accounts'
  <2>1. UNCHANGED <<backend, element, group, used>>
    BY <1>4 DEF StopFeeding, WorkerEnds, Join
  <2>2. \A d \in Calls : phase'[d] # "uncalled" => phase[d] # "uncalled"
    BY <1>4 DEF StopFeeding, WorkerEnds, Join
  <2>3. \A d \in Calls : free'[d] <= free[d] /\ free'[d] \in Nat
    BY <1>0, <1>4 DEF StopFeeding, WorkerEnds, Join
  <2> QED
    BY <2>1, <2>2, <2>3, AccountsStay
<1>5. ASSUME NEW e \in Elements, Admit(e) \/ GiveUp(e) \/ Finish(e) \/ Raise(e) \/ Unwind(e)
      PROVE  Accounts'
  <2>1. e[1] \in Calls /\ Root \in Calls /\ element[e] \in InProgress
    BY <1>5, ElementFacts, CallsAssumption DEF Admit, GiveUp, Finish, Raise, Unwind, InProgress
  <2>2. group[e[1]] = Root
    BY <2>1 DEF Accounts, Nesting
  <2>3. /\ used[Root] \in Int /\ free[e[1]] \in Nat /\ Requested(Root) \in Int
        /\ phase' = phase /\ group' = group
    BY <1>5, <2>1, LimitFacts DEF Admit, GiveUp, Finish, Raise, Unwind
  <2>4. CASE Admit(e)
    <3>1. /\ element' = [element EXCEPT ![e] = "active"] /\ element[e] = "claimed"
          /\ used[Root] < Requested(Root) /\ used'[Root] = used[Root] + 1 /\ free' = free
      BY <2>1, <2>2, <2>4 DEF Admit
    <3>2. /\ "active" \in Stages /\ "active" \in InProgress
          /\ Holds("active") /\ ~Holds(element[e])
      BY <3>1 DEF Stages, InProgress, Holds
    <3>7. /\ used'[Root] = used[Root] + (IF Holds("active") THEN 1 ELSE 0)
                             - (IF Holds(element[e]) THEN 1 ELSE 0)
          /\ used'[Root] <= used[Root] \/ used'[Root] <= Requested(Root)
          /\ \A d \in Calls : d # e[1] => free'[d] = free[d]
          /\ free'[e[1]] <= free[e[1]] + (IF element[e] \in InProgress THEN 1 ELSE 0)
                             - (IF "active" \in InProgress THEN 1 ELSE 0)
      BY <2>1, <2>3, <3>1, <3>2
    <3> HIDE DEF IInv, TypeOK, CallTypes, GroupTypes
    <3> QED
      BY <1>0, <2>3, <3>1, <3>2, <3>7, AccountsMove
  <2>5. CASE GiveUp(e)
    <3>1. /\ element' = [element EXCEPT ![e] = "lost"] /\ element[e] = "claimed"
          /\ used' = used /\ free' = free
      BY <2>5 DEF GiveUp
    <3>2. /\ "lost" \in Stages /\ "lost" \notin InProgress
          /\ ~Holds("lost") /\ ~Holds(element[e])
      BY <3>1 DEF Stages, InProgress, Holds
    <3>7. /\ used'[Root] = used[Root] + (IF Holds("lost") THEN 1 ELSE 0)
                             - (IF Holds(element[e]) THEN 1 ELSE 0)
          /\ used'[Root] <= used[Root] \/ used'[Root] <= Requested(Root)
          /\ \A d \in Calls : d # e[1] => free'[d] = free[d]
          /\ free'[e[1]] <= free[e[1]] + (IF element[e] \in InProgress THEN 1 ELSE 0)
                             - (IF "lost" \in InProgress THEN 1 ELSE 0)
      BY <2>1, <2>3, <3>1, <3>2
    <3> HIDE DEF IInv, TypeOK, CallTypes, GroupTypes
    <3> QED
      BY <1>0, <2>3, <3>1, <3>2, <3>7, AccountsMove
  <2>6. CASE Finish(e)
    <3>1. /\ element' = [element EXCEPT ![e] = "done"] /\ element[e] = "active"
          /\ used'[Root] = used[Root] - 1 /\ free' = [free EXCEPT ![e[1]] = @ + 1]
      BY <2>1, <2>2, <2>6 DEF Finish
    <3>2. /\ "done" \in Stages /\ "done" \notin InProgress
          /\ ~Holds("done") /\ Holds(element[e])
      BY <3>1 DEF Stages, InProgress, Holds
    <3>3. /\ \A d \in Calls : d # e[1] => free'[d] = free[d]
          /\ free'[e[1]] <= free[e[1]] + 1 - 0
      BY <2>1, <2>3, <3>1
    <3>7. /\ used'[Root] = used[Root] + (IF Holds("done") THEN 1 ELSE 0)
                             - (IF Holds(element[e]) THEN 1 ELSE 0)
          /\ used'[Root] <= used[Root] \/ used'[Root] <= Requested(Root)
          /\ \A d \in Calls : d # e[1] => free'[d] = free[d]
          /\ free'[e[1]] <= free[e[1]] + (IF element[e] \in InProgress THEN 1 ELSE 0)
                             - (IF "done" \in InProgress THEN 1 ELSE 0)
      BY <2>1, <2>3, <3>1, <3>2, <3>3
    <3> HIDE DEF IInv, TypeOK, CallTypes, GroupTypes
    <3> QED
      BY <1>0, <2>3, <3>1, <3>2, <3>7, AccountsMove
  <2>7. CASE Raise(e)
    <3>1. /\ element' = [element EXCEPT ![e] = "raised"] /\ element[e] = "active"
          /\ used'[Root] = used[Root] - (IF backend = "repl" THEN 1 ELSE 0) /\ free' = free
      BY <2>1, <2>2, <2>3, <2>7 DEF Raise
    <3>2. /\ "raised" \in Stages /\ "raised" \in InProgress
          /\ Holds("raised") <=> backend # "repl"
          /\ Holds(element[e])
      BY <3>1 DEF Stages, InProgress, Holds
    <3>7. /\ used'[Root] = used[Root] + (IF Holds("raised") THEN 1 ELSE 0)
                             - (IF Holds(element[e]) THEN 1 ELSE 0)
          /\ used'[Root] <= used[Root] \/ used'[Root] <= Requested(Root)
          /\ \A d \in Calls : d # e[1] => free'[d] = free[d]
          /\ free'[e[1]] <= free[e[1]] + (IF element[e] \in InProgress THEN 1 ELSE 0)
                             - (IF "raised" \in InProgress THEN 1 ELSE 0)
      BY <2>1, <2>3, <3>1, <3>2
    <3> HIDE DEF IInv, TypeOK, CallTypes, GroupTypes
    <3> QED
      BY <1>0, <2>3, <3>1, <3>2, <3>7, AccountsMove
  <2>8. CASE Unwind(e)
    <3>1. /\ element' = [element EXCEPT ![e] = "lost"] /\ element[e] = "raised"
          /\ used'[Root] = used[Root] - (IF backend = "repl" THEN 0 ELSE 1)
          /\ \A d \in Calls : d # e[1] => free'[d] = free[d]
          /\ free'[e[1]] <= free[e[1]] + 1 - 0
      BY <2>1, <2>2, <2>3, <2>8 DEF Unwind
    <3>2. /\ "lost" \in Stages /\ "lost" \notin InProgress /\ ~Holds("lost")
          /\ Holds(element[e]) <=> backend # "repl"
      BY <3>1 DEF Stages, InProgress, Holds
    <3>7. /\ used'[Root] = used[Root] + (IF Holds("lost") THEN 1 ELSE 0)
                             - (IF Holds(element[e]) THEN 1 ELSE 0)
          /\ used'[Root] <= used[Root] \/ used'[Root] <= Requested(Root)
          /\ \A d \in Calls : d # e[1] => free'[d] = free[d]
          /\ free'[e[1]] <= free[e[1]] + (IF element[e] \in InProgress THEN 1 ELSE 0)
                             - (IF "lost" \in InProgress THEN 1 ELSE 0)
      BY <2>1, <2>3, <3>1, <3>2
    <3> HIDE DEF IInv, TypeOK, CallTypes, GroupTypes
    <3> QED
      BY <1>0, <2>3, <3>1, <3>2, <3>7, AccountsMove
  <2> QED
    BY <1>5, <2>4, <2>5, <2>6, <2>7, <2>8
<1>6. ASSUME NEW e \in Elements, CallNested(e) \/ Resume(e) PROVE Accounts'
  BY <1>6, AccountsCalled, AccountsResumed
<1> QED
  BY <1>1, <1>2, <1>3, <1>4, <1>5, <1>6 DEF Next, Progress, CallStep, ElementStep

\* A permit is held for each block, so there are no more than the outermost limit;
\* and no more elements of a call are under way than it has workers.
LEMMA AccountsBound == IInv /\ Accounts => Bounded
<1> SUFFICES ASSUME IInv, Accounts PROVE Bounded
  OBVIOUS
<1>1. Cardinality(Evaluating) <= Requested(Root)
  <2>1. Evaluating \subseteq Holders
    BY DEF Evaluating, Holders, Holds
  <2>2. Cardinality(Evaluating) <= Cardinality(Holders) /\ Cardinality(Evaluating) \in Nat
    BY <2>1, HoldersFinite, FS_Subset, FS_CardinalityType
  <2>3. Requested(Root) \in Nat /\ Cardinality(Holders) \in Nat
    BY HoldersFinite, LimitFacts, CallsAssumption
  <2> QED
    BY <2>2, <2>3 DEF Accounts
<1>2. ASSUME NEW c \in Calls, Limit[c] # NoLimit PROVE Cardinality(Admitted(c)) <= Requested(c)
  <2>1. Admitted(c) \subseteq Busy(c)
    BY DEF Admitted, Busy, ElementsOf, CallOf, InProgress
  <2>2. Cardinality(Admitted(c)) <= Cardinality(Busy(c)) /\ Cardinality(Admitted(c)) \in Nat
    BY <2>1, HoldersFinite, FS_Subset, FS_CardinalityType
  <2>3. free[c] + Cardinality(Busy(c)) <= LocalLimit(c, Root) /\ free[c] \in Nat
    BY DEF Accounts, IInv, TypeOK, CallTypes
  <2>4. /\ LocalLimit(c, Root) <= Requested(c)
        /\ LocalLimit(c, Root) \in Nat /\ Requested(c) \in Nat
    BY <1>2, LimitFacts, CallsAssumption DEF LocalLimit, Requested
  <2>5. Cardinality(Busy(c)) \in Nat
    BY HoldersFinite
  <2> QED
    BY <2>2, <2>3, <2>4, <2>5
<1> QED
  BY <1>1, <1>2 DEF Bounded

\* However deep calls nest, and whatever fails or is cancelled, no more blocks are
\* evaluated at a time than the outermost limit, wherever nested calls see the
\* group they are made in: in all compiled programs, and in the REPL as long as
\* no function that a block calls makes one.
THEOREM BlocksAreBounded == ASSUME Shared PROVE Spec => []Bounded
<1>1. Init => Accounts
  BY AccountsInit
<1>2. IInv /\ Accounts /\ [Next]_vars => Accounts'
  BY Shared, AccountsStep
<1>3. IInv /\ Accounts => Bounded
  BY AccountsBound
<1> QED
  BY <1>1, <1>2, <1>3, Inductive, PTL DEF Spec

=============================================================================
