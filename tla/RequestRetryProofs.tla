-------------------------- MODULE RequestRetryProofs --------------------------
(***************************************************************************)
(* What holds of RequestRetry for any numbers of callers, connections,     *)
(* attempts and posts, any backoff longer than a connection is kept and    *)
(* any faults.                                                             *)
(***************************************************************************)
EXTENDS RequestRetry, TLAPS

-----------------------------------------------------------------------------
(* Type correctness.  TypeOK says how often a request may have been executed; *)
(* that needs what the position of a caller says of its other variables.      *)

LoopOK ==
    /\ pc \in [Callers -> Points]
    /\ via \in [Callers -> Conns \cup {None}]
    /\ inner \in [Callers -> 0..Posts - 1]
    /\ outer \in [Callers -> 0..Attempts - 1]
    /\ timer \in [Callers -> 0..Backoff]
    /\ outcome \in [Callers -> Outcomes]

PoolOK ==
    /\ conn \in [Conns -> {"none", "idle", "busy"}]
    /\ age \in [Conns -> 0..KeepAlive + 1]
    /\ dead \subseteq Conns

RestOK ==
    /\ closed \in BOOLEAN
    /\ spent \in 0..Budget
    /\ faulted \subseteq Callers /\ troubled \subseteq Renewers
    /\ overlapped \in BOOLEAN

ReachedOK == reached \in [Callers -> 0..Posts]

\* A request uses a connection while it is pending; a call is undecided while it is
\* under way, and starts without attempts behind it; each attempt of the transport
\* that is over may have been executed once
Shape ==
    \A c \in Callers :
        /\ IF pc[c] = "pending" THEN via[c] \in Conns ELSE via[c] = None
        /\ IF Idle(c) THEN outer[c] = 0 ELSE outcome[c] = "none"
        /\ pc[c] \in {"ready", "connecting", "pending"} => reached[c] <= inner[c]

TypeInv == LoopOK /\ PoolOK /\ RestOK /\ ReachedOK /\ Shape

LEMMA TypeParts == TypeInv => TypeOK
  BY DEF TypeInv, LoopOK, PoolOK, RestOK, ReachedOK, TypeOK

LEMMA Numbers ==
    /\ 0 \in 0..Posts /\ 0 \in 0..Posts - 1 /\ 0 \in 0..Attempts - 1
    /\ 0 \in 0..Backoff /\ Backoff \in 0..Backoff /\ 0 \in 0..KeepAlive + 1
    /\ 0 \in 0..Budget /\ None \notin Conns
    /\ Attempts \in Nat \ {0} /\ Posts \in Nat \ {0} /\ Budget \in Nat
    /\ KeepAlive \in Nat /\ Backoff \in Nat /\ KeepAlive < Backoff
    /\ Renewers \subseteq Callers /\ Warm \subseteq Conns
  BY RetryAssumption

LEMMA TypeInit == Init => TypeInv
<1> SUFFICES ASSUME Init PROVE TypeInv
  OBVIOUS
<1> USE Numbers DEF Init
<1>1. LoopOK
  BY DEF LoopOK, Points, Outcomes
<1>2. PoolOK /\ RestOK
  BY DEF PoolOK, RestOK
<1>3. ReachedOK /\ Shape
  BY DEF ReachedOK, Shape, Idle
<1> QED
  BY <1>1, <1>2, <1>3 DEF TypeInv

\* How a step may leave a caller c that is under way: at the end of its call, in a
\* backoff, or about to post again
Leaves(c) ==
    \/ \E r \in Outcomes : End(c, r)
    \/ c \in Renewers /\ outer[c] + 1 < Attempts /\ BackOff(c, Backoff, outer[c] + 1)
    \/ /\ pc[c] = "pending"
       /\ pc' = [pc EXCEPT ![c] = "ready"] /\ via' = [via EXCEPT ![c] = None]
       /\ inner[c] + 1 < Posts /\ inner' = [inner EXCEPT ![c] = @ + 1]
       /\ UNCHANGED <<outer, timer, outcome>>

LEMMA RaiseLeaves ==
    ASSUME NEW c \in Callers,
           RaiseClientError(c) \/ (pc[c] = "pending" /\ Repeat(c))
    PROVE  Leaves(c)
  BY DEF RaiseClientError, Repeat, Leaves, Outcomes

LEMMA LeavesTyped ==
    ASSUME LoopOK, NEW c \in Callers, Leaves(c)
    PROVE  LoopOK'
<1> USE Numbers DEF LoopOK, Points, Outcomes
<1>1. ASSUME NEW r \in Outcomes, End(c, r) PROVE LoopOK'
  BY <1>1 DEF End
<1>2. CASE outer[c] + 1 < Attempts /\ BackOff(c, Backoff, outer[c] + 1)
  BY <1>2 DEF BackOff
<1>3. CASE /\ pc' = [pc EXCEPT ![c] = "ready"] /\ via' = [via EXCEPT ![c] = None]
           /\ inner[c] + 1 < Posts /\ inner' = [inner EXCEPT ![c] = @ + 1]
           /\ UNCHANGED <<outer, timer, outcome>>
  BY <1>3
<1> QED
  BY <1>1, <1>2, <1>3 DEF Leaves

\* One more execution of its request, at most
LEMMA LeavesShaped ==
    ASSUME TypeInv, NEW c \in Callers, Leaves(c), ~Idle(c),
           \/ UNCHANGED reached
           \/ pc[c] = "pending" /\ reached' = [reached EXCEPT ![c] = @ + 1]
    PROVE  ReachedOK' /\ Shape'
<1> USE Numbers DEF TypeInv, LoopOK, ReachedOK, Shape, Idle, Points
<1>1. ReachedOK'
  BY DEF Shape
<1>2. ASSUME NEW d \in Callers, d # c
      PROVE  /\ pc'[d] = pc[d] /\ via'[d] = via[d] /\ outer'[d] = outer[d]
             /\ outcome'[d] = outcome[d] /\ inner'[d] = inner[d]
             /\ reached'[d] = reached[d]
  BY <1>2 DEF Leaves, End, BackOff
<1>3. /\ IF pc'[c] = "pending" THEN via'[c] \in Conns ELSE via'[c] = None
      /\ IF pc'[c] = "idle" THEN outer'[c] = 0 ELSE outcome'[c] = "none"
      /\ pc'[c] \in {"ready", "connecting", "pending"} => reached'[c] <= inner'[c]
  <2>1. ASSUME NEW r \in Outcomes, End(c, r)
        PROVE  pc'[c] = "idle" /\ via'[c] = None /\ outer'[c] = 0
    BY <2>1 DEF End
  <2>2. ASSUME BackOff(c, Backoff, outer[c] + 1)
        PROVE  pc'[c] = "backoff" /\ via'[c] = None /\ outcome'[c] = "none"
    BY <2>2 DEF BackOff
  <2>3. CASE /\ pc[c] = "pending"
             /\ pc' = [pc EXCEPT ![c] = "ready"] /\ via' = [via EXCEPT ![c] = None]
             /\ inner[c] + 1 < Posts /\ inner' = [inner EXCEPT ![c] = @ + 1]
             /\ UNCHANGED <<outer, timer, outcome>>
    <3>1. pc'[c] = "ready" /\ via'[c] = None /\ outcome'[c] = "none"
      BY <2>3
    <3>2. reached[c] \in Nat /\ inner[c] \in Nat /\ reached'[c] <= reached[c] + 1
      OBVIOUS
    <3>3. pc[c] = "pending" => reached[c] <= inner[c]
      OBVIOUS
    <3>4. reached'[c] <= inner'[c]
      BY <2>3, <3>2, <3>3
    <3> QED
      BY <3>1, <3>4
  <2> QED
    BY <2>1, <2>2, <2>3 DEF Leaves
<1>4. ASSUME NEW d \in Callers
      PROVE  /\ IF pc'[d] = "pending" THEN via'[d] \in Conns ELSE via'[d] = None
             /\ IF pc'[d] = "idle" THEN outer'[d] = 0 ELSE outcome'[d] = "none"
             /\ pc'[d] \in {"ready", "connecting", "pending"} => reached'[d] <= inner'[d]
  <2>1. CASE d = c
    BY <1>3, <2>1
  <2>2. CASE d # c
    BY <1>2, <2>2
  <2> QED
    BY <2>1, <2>2
<1> QED
  BY <1>1, <1>4

LEMMA DropTyped ==
    ASSUME PoolOK, NEW c \in Callers, Drop(c)
    PROVE  PoolOK'
  BY DEF PoolOK, Drop

LEMMA FaultTyped ==
    ASSUME RestOK, NEW c \in Callers, Fault(c) \/ NoFault(c), UNCHANGED closed
    PROVE  RestOK'
  BY Numbers DEF RestOK, Fault, NoFault, Since

\* A request or an attempt to connect ends
LEMMA EndingTyped ==
    ASSUME TypeInv, NEW c \in Callers, ~Idle(c), Leaves(c),
           PoolOK', Fault(c) \/ NoFault(c), UNCHANGED closed,
           \/ UNCHANGED reached
           \/ pc[c] = "pending" /\ reached' = [reached EXCEPT ![c] = @ + 1]
    PROVE  TypeInv'
<1>1. LoopOK' /\ RestOK' /\ ReachedOK' /\ Shape'
  BY LeavesTyped, LeavesShaped, FaultTyped DEF TypeInv
<1> QED
  BY <1>1 DEF TypeInv

LEMMA StepTyped ==
    ASSUME TypeInv, NEW c \in Callers, Step(c) \/ Cancelled(c) \/ Call(c)
    PROVE  TypeInv'
<1> USE Numbers DEF Idle
<1>0. /\ LoopOK /\ PoolOK /\ RestOK /\ ReachedOK /\ Shape
      /\ pc[c] # "pending" => via[c] = None
      /\ pc[c] = "pending" => via[c] \in Conns
  BY DEF TypeInv, Shape
<1>1. CASE Call(c)
  <2>1. LoopOK' /\ PoolOK' /\ RestOK' /\ ReachedOK'
    BY <1>0, <1>1 DEF Call, LoopOK, PoolOK, RestOK, ReachedOK, poolVars, loopVars, Points,
       Outcomes
  <2>2. \A d \in Callers : inner[d] \in Nat
    BY <1>0 DEF LoopOK
  <2>3. Shape'
    BY <1>0, <1>1, <2>2 DEF Call, LoopOK, ReachedOK, Shape, loopVars
  <2> QED
    BY <2>1, <2>3 DEF TypeInv
<1>2. CASE PostPooled(c) \/ PostFresh(c) \/ Connected(c)
  <2>1. PoolOK'
    BY <1>0, <1>2 DEF PostPooled, PostFresh, Connected, PoolOK, poolVars
  <2>2. RestOK'
    BY <1>0, <1>2, FaultTyped DEF PostPooled, PostFresh, Connected
  <2>3. LoopOK' /\ ReachedOK'
    BY <1>0, <1>2 DEF PostPooled, PostFresh, Connected, Posting, LoopOK, ReachedOK,
       loopVars, Points
  <2>4. Shape'
    <3>1. \A d \in Callers : inner[d] \in Nat
      BY <1>0 DEF LoopOK
    <3>2. CASE Connected(c)
      BY <1>0, <3>1, <3>2 DEF Connected, LoopOK, ReachedOK, Shape, loopVars
    <3>3. CASE PostPooled(c) \/ PostFresh(c)
      BY <1>0, <3>1, <3>3 DEF PostPooled, PostFresh, Posting, Due, LoopOK, ReachedOK,
         Shape, loopVars
    <3> QED
      BY <1>2, <3>2, <3>3
  <2> QED
    BY <2>1, <2>2, <2>3, <2>4 DEF TypeInv
<1>3. CASE PostClosed(c)
  <2> DEFINE fresh == [reached EXCEPT ![c] = 0]
  <2>1. PoolOK' /\ RestOK' /\ LoopOK'
    BY <1>0, <1>3, RaiseLeaves, LeavesTyped, FaultTyped DEF PostClosed, PoolOK, poolVars
  <2>2. ReachedOK'
    BY <1>0, <1>3 DEF PostClosed, Posting, ReachedOK
  <2>3. Shape'
    <3>1. pc'[c] \in {"idle", "backoff"}
      BY <1>0, <1>3 DEF PostClosed, RaiseClientError, End, BackOff, LoopOK
    <3>2. \A d \in Callers : d # c => reached'[d] = reached[d]
      BY <1>0, <1>3 DEF PostClosed, Posting, ReachedOK
    <3>3. via'[c] = None /\ IF pc'[c] = "idle" THEN outer'[c] = 0 ELSE outcome'[c] = "none"
      BY <1>0, <1>3 DEF PostClosed, Posting, Due, RaiseClientError, End, BackOff, LoopOK,
         Shape
    <3>4. ASSUME NEW d \in Callers, d # c
          PROVE  /\ pc'[d] = pc[d] /\ via'[d] = via[d] /\ outer'[d] = outer[d]
                 /\ outcome'[d] = outcome[d] /\ inner'[d] = inner[d]
      BY <1>0, <1>3, <3>4 DEF PostClosed, RaiseClientError, End, BackOff, LoopOK
    <3> QED
      BY <1>0, <3>1, <3>2, <3>3, <3>4 DEF Shape
  <2> QED
    BY <2>1, <2>2, <2>3 DEF TypeInv
<1>4. CASE ConnectFails(c)
  BY <1>0, <1>4, RaiseLeaves, EndingTyped DEF ConnectFails, PoolOK, poolVars
<1>5. CASE Answered(c)
  <2>1. PoolOK'
    BY <1>0, <1>5 DEF Answered, PoolOK
  <2> QED
    BY <1>5, <2>1, EndingTyped DEF Answered, Leaves, Outcomes
<1>6. CASE FoundDead(c) \/ Disconnected(c) \/ Reset(c) \/ TimedOut(c) \/ Misused(c)
           \/ Cancelled(c)
  <2>1. Leaves(c)
    BY <1>6, RaiseLeaves DEF FoundDead, Disconnected, Reset, TimedOut, Misused, Cancelled,
       Leaves, Outcomes
  <2>2. PoolOK' /\ ~Idle(c) /\ (Fault(c) \/ NoFault(c)) /\ UNCHANGED closed
    BY <1>0, <1>6, DropTyped DEF FoundDead, Disconnected, Reset, TimedOut, Misused,
       Cancelled
  <2>3. \/ UNCHANGED reached
        \/ pc[c] = "pending" /\ reached' = [reached EXCEPT ![c] = @ + 1]
    BY <1>0, <1>6 DEF FoundDead, Disconnected, Reset, TimedOut, Misused, Cancelled,
       MaybeReached
  <2> QED
    BY <2>1, <2>2, <2>3, EndingTyped
<1> QED
  BY <1>1, <1>2, <1>3, <1>4, <1>5, <1>6 DEF Step

LEMMA TypeStep == TypeInv /\ [Next]_vars => TypeInv'
<1> SUFFICES ASSUME TypeInv, [Next]_vars PROVE TypeInv'
  OBVIOUS
<1> USE Numbers DEF TypeInv, LoopOK, PoolOK, RestOK, ReachedOK, Shape, Idle
<1>1. ASSUME NEW c \in Callers, Call(c) \/ Step(c) \/ Cancelled(c) PROVE TypeInv'
  BY <1>1, StepTyped
<1>2. ASSUME NEW k \in Conns, CameraCloses(k) PROVE TypeInv'
  BY <1>2 DEF CameraCloses, loopVars
<1>3. ASSUME NEW k \in Conns, Discarded(k) PROVE TypeInv'
  BY <1>3 DEF Discarded, loopVars, ghostVars
<1>4. CASE CloseSession
  BY <1>4 DEF CloseSession, loopVars, ghostVars
<1>5. CASE Tick
  <2>1. age' \in [Conns -> 0..KeepAlive + 1]
    BY <1>5 DEF Tick
  <2>2. timer' \in [Callers -> 0..Backoff]
    BY <1>5 DEF Tick
  <2> QED
    BY <1>5, <2>1, <2>2 DEF Tick, ghostVars
<1>6. CASE UNCHANGED vars
  BY <1>6 DEF vars, poolVars, loopVars, ghostVars
<1> QED
  BY <1>1, <1>2, <1>3, <1>4, <1>5, <1>6 DEF Next

\* Type correctness, and with it that no request is executed more often than the
\* transport may post it.
THEOREM TypeCorrect == Spec => []TypeOK
<1> QED
  BY TypeInit, TypeStep, TypeParts, PTL DEF Spec

-----------------------------------------------------------------------------
(* Closing the session *)

\* A request that ends with a RuntimeError ends before the session is closed: after
\* it, every RuntimeError of aiohttp becomes one of the errors the renewals handle.
THEOREM NoRuntimeErrorAfterClose == Spec => NoRuntimeAfterClose
<1> DEFINE Sound == \A c \in Callers :
              outcome[c] # "runtime" /\ outcome'[c] = "runtime" => ~closed
<1>1. TypeInv /\ [Next]_vars => [Sound]_vars
  <2> SUFFICES ASSUME TypeInv, [Next]_vars, NEW c \in Callers,
                      outcome[c] # "runtime", outcome'[c] = "runtime", closed
               PROVE  FALSE
    OBVIOUS
  <2>0. outcome \in [Callers -> Outcomes]
    BY DEF TypeInv, LoopOK
  <2>1. ASSUME NEW d \in Callers, Call(d) \/ Step(d) \/ Cancelled(d) PROVE FALSE
    <3>1. ASSUME \/ RaiseClientError(d) \/ Repeat(d)
                 \/ \E r \in Outcomes \ {"runtime"} : End(d, r)
                 \/ UNCHANGED outcome
                 \/ outcome' = [outcome EXCEPT ![d] = "none"]
          PROVE  FALSE
      BY <2>0, <3>1 DEF RaiseClientError, Repeat, End, BackOff
    <3>2. CASE Misused(d)
      BY <3>1, <3>2 DEF Misused
    <3> QED
      BY <2>1, <3>1, <3>2 DEF Call, Step, Cancelled, PostPooled, PostFresh, PostClosed,
         Connected, ConnectFails, Answered, FoundDead, Disconnected, Reset, TimedOut,
         Outcomes
  <2>2. CASE (\E k \in Conns : CameraCloses(k) \/ Discarded(k)) \/ CloseSession \/ Tick
             \/ UNCHANGED vars
    BY <2>2 DEF CameraCloses, Discarded, CloseSession, Tick, vars
  <2> QED
    BY <2>1, <2>2 DEF Next
<1>2. Spec => []TypeInv
  BY TypeInit, TypeStep, PTL DEF Spec
<1> QED
  BY <1>1, <1>2, PTL DEF Spec, NoRuntimeAfterClose

-----------------------------------------------------------------------------
(* Renewals and dead connections.  When a Renew backs off, every connection   *)
(* in the pool is younger than the time left, so that the backoff outlasts    *)
(* what the pool keeps: after it, no connection that was dead is given out.   *)

\* A Renew in a later attempt that nothing has troubled since its last backoff began
Spared(c) == c \in Renewers /\ c \notin troubled /\ ~closed /\ outer[c] >= 1

\* A dead connection of the pool is too old to be given out, or will be before c posts
Stale(c, k) ==
    \/ age[k] > KeepAlive
    \/ pc[c] = "backoff" /\ age[k] + timer[c] >= Backoff

Safe(c) ==
    /\ pc[c] = "pending" => via[c] \notin dead
    /\ \A k \in dead : conn[k] = "idle" => Stale(c, k)

PoolInv == \A c \in Renewers : Spared(c) => Safe(c)

\* What the other callers, and those that are not Spared after the step, do
\* What a step of d leaves as it was
LEMMA Stays ==
    ASSUME TypeInv, NEW d \in Callers, Call(d) \/ Step(d) \/ Cancelled(d)
    PROVE  /\ closed' = closed /\ dead' \subseteq dead
           /\ \A k \in dead' : conn'[k] = "idle" => conn[k] = "idle" /\ age'[k] = age[k]
           /\ \A c \in Callers : c # d =>
                 /\ pc'[c] = pc[c] /\ via'[c] = via[c] /\ outer'[c] = outer[c]
                 /\ timer'[c] = timer[c] /\ outcome'[c] = outcome[c]
                 /\ c \in troubled' <=> c \in troubled
<1> USE DEF TypeInv, LoopOK, PoolOK, poolVars, loopVars
<1>1. CASE Call(d)
  BY <1>1 DEF Call
<1>2. CASE PostPooled(d) \/ PostFresh(d) \/ Connected(d)
  BY <1>2 DEF PostPooled, PostFresh, Connected, NoFault, Since
<1>3. CASE PostClosed(d) \/ ConnectFails(d)
  BY <1>3 DEF PostClosed, ConnectFails, RaiseClientError, End, BackOff, Fault, NoFault,
     Since
<1>4. CASE Answered(d)
  BY <1>4 DEF Answered, End, NoFault, Since, Shape
<1>5. CASE FoundDead(d) \/ Disconnected(d) \/ Reset(d)
  BY <1>5 DEF FoundDead, Disconnected, Reset, Repeat, RaiseClientError, End, BackOff, Drop,
     Fault, NoFault, Since
<1>6. CASE TimedOut(d) \/ Misused(d) \/ Cancelled(d)
  BY <1>6 DEF TimedOut, Misused, Cancelled, RaiseClientError, End, BackOff, Drop, Fault,
     NoFault, Since
<1> QED
  BY <1>1, <1>2, <1>3, <1>4, <1>5, <1>6 DEF Step

LEMMA BackoffSafe ==
    ASSUME TypeInv, TypeInv', NEW c \in Callers, NEW n, BackOff(c, Backoff, n)
    PROVE  Safe(c)'
<1>1. pc'[c] = "backoff" /\ timer'[c] = Backoff
  BY Numbers DEF BackOff, TypeInv, LoopOK
<1>2. \A k \in dead' : age'[k] \in Nat
  BY Numbers DEF TypeInv, PoolOK
<1> QED
  BY <1>1, <1>2, Numbers DEF Safe, Stale

\* When c is about to post, the dead connections of the pool are too old for it
LEMMA DueStale ==
    ASSUME TypeInv, NEW c \in Renewers, Safe(c), Due(c),
           NEW k \in dead, conn[k] = "idle"
    PROVE  age[k] > KeepAlive
  BY Numbers DEF Safe, Stale, Due, TypeInv, PoolOK

LEMMA OwnStepSafe ==
    ASSUME TypeInv, TypeInv', PoolInv, NEW c \in Renewers,
           Call(c) \/ Step(c) \/ Cancelled(c), Spared(c)'
    PROVE  Safe(c)'
<1> USE Numbers
<1>0. /\ LoopOK /\ PoolOK /\ c \in Callers /\ Shape
      /\ closed' = closed /\ dead' \subseteq dead /\ dead \subseteq Conns
      /\ \A k \in dead' : conn'[k] = "idle" => conn[k] = "idle" /\ age'[k] = age[k]
      /\ pc[c] \in Points /\ troubled \subseteq Renewers
  BY Stays DEF TypeInv, LoopOK, PoolOK, RestOK
<1>1. outer'[c] >= 1 /\ c \notin troubled' /\ ~closed
  BY <1>0 DEF Spared
<1>2. ASSUME NEW r, End(c, r) PROVE FALSE
  BY <1>0, <1>1, <1>2 DEF End, LoopOK
<1>3. ASSUME RaiseClientError(c) PROVE Safe(c)'
  BY <1>0, <1>2, <1>3, BackoffSafe DEF RaiseClientError
<1>4. CASE Call(c)
  BY <1>0, <1>1, <1>4 DEF Call, Shape, loopVars
<1>5. CASE PostPooled(c) \/ PostFresh(c)
  <2>1. /\ Due(c) /\ outer'[c] = outer[c] /\ c \notin troubled
        /\ pc'[c] \in {"pending", "connecting"}
    BY <1>0, <1>1, <1>5 DEF PostPooled, PostFresh, Posting, NoFault, Since, BacksOff,
       LoopOK, loopVars
  <2>2. Spared(c) /\ Safe(c)
    BY <1>1, <2>1 DEF Spared, PoolInv
  <2>3. \A k \in dead : conn[k] = "idle" => age[k] > KeepAlive
    BY <2>1, <2>2, DueStale
  <2>4. pc'[c] = "pending" => via'[c] \notin dead'
    BY <1>0, <1>5, <2>3 DEF PostPooled, PostFresh, Usable, LoopOK, PoolOK
  <2> QED
    BY <1>0, <2>3, <2>4 DEF Safe, Stale
<1>6. CASE Connected(c)
  <2>1. /\ pc[c] = "connecting" /\ outer'[c] = outer[c] /\ c \notin troubled
        /\ via'[c] \notin dead'
    BY <1>0, <1>1, <1>6 DEF Connected, NoFault, Since, BacksOff, LoopOK, loopVars
  <2>2. Spared(c) /\ Safe(c)
    BY <1>1, <2>1 DEF Spared, PoolInv
  <2> QED
    BY <1>0, <2>1, <2>2 DEF Safe, Stale
<1>7. CASE FoundDead(c)
  <2>1. ~Spared(c)
    BY <1>7 DEF FoundDead, PoolInv, Safe
  <2>2. CASE RaiseClientError(c)
    BY <1>3, <2>2
  <2>3. CASE /\ pc' = [pc EXCEPT ![c] = "ready"] /\ UNCHANGED outer
    BY <1>0, <1>1, <1>7, <2>1, <2>3 DEF FoundDead, NoFault, Since, BacksOff, Spared, LoopOK
  <2> QED
    BY <1>7, <2>2, <2>3 DEF FoundDead, Repeat
<1>8. CASE Disconnected(c)
  <2>1. CASE pc' = [pc EXCEPT ![c] = "ready"]
    BY <1>0, <1>1, <1>8, <2>1 DEF Disconnected, Fault, Since, BacksOff, LoopOK
  <2> QED
    BY <1>3, <1>8, <2>1 DEF Disconnected, Repeat
<1>9. CASE PostClosed(c) \/ ConnectFails(c) \/ Reset(c)
  BY <1>3, <1>9 DEF PostClosed, ConnectFails, Reset
<1>10. CASE Answered(c) \/ TimedOut(c) \/ Misused(c) \/ Cancelled(c)
  BY <1>1, <1>2, <1>10 DEF Answered, TimedOut, Misused, Cancelled
<1> QED
  BY <1>4, <1>5, <1>6, <1>7, <1>8, <1>9, <1>10 DEF Step

LEMMA PoolStep == TypeInv /\ PoolInv /\ [Next]_vars => PoolInv'
<1> SUFFICES ASSUME TypeInv, PoolInv, [Next]_vars, NEW c \in Renewers, Spared(c)'
             PROVE  Safe(c)'
  BY DEF PoolInv
<1> USE Numbers
<1>0. TypeInv' /\ c \in Callers /\ LoopOK /\ PoolOK /\ (Spared(c) => Safe(c))
  BY TypeStep DEF TypeInv, PoolInv
<1>1. ASSUME NEW d \in Callers, Call(d) \/ Step(d) \/ Cancelled(d) PROVE Safe(c)'
  <2>1. CASE c = d
    BY <1>0, <1>1, <2>1, OwnStepSafe
  <2>2. CASE c # d
    <3>1. /\ pc'[c] = pc[c] /\ via'[c] = via[c] /\ timer'[c] = timer[c]
          /\ dead' \subseteq dead
          /\ \A k \in dead' : conn'[k] = "idle" => conn[k] = "idle" /\ age'[k] = age[k]
      BY <1>0, <1>1, <2>2, Stays
    <3>2. Spared(c)
      BY <1>0, <1>1, <2>2, Stays DEF Spared
    <3> QED
      BY <1>0, <3>1, <3>2 DEF Safe, Stale
  <2> QED
    BY <2>1, <2>2
<1>2. ASSUME NEW k \in Conns, CameraCloses(k) PROVE Safe(c)'
  BY <1>2 DEF CameraCloses, Spared
<1>3. ASSUME NEW k \in Conns, Discarded(k) PROVE Safe(c)'
  <2>1. Spared(c)
    BY <1>3 DEF Discarded, Spared, loopVars, ghostVars
  <2> QED
    BY <1>0, <1>3, <2>1 DEF Discarded, Safe, Stale, PoolOK, loopVars
<1>4. CASE CloseSession
  BY <1>4 DEF CloseSession, Spared
<1>5. CASE Tick
  <2>1. Spared(c) /\ Safe(c)
    BY <1>0, <1>5 DEF Tick, Spared, ghostVars
  <2>2. timer[c] \in Nat /\ timer'[c] = IF timer[c] > 0 THEN timer[c] - 1 ELSE 0
    BY <1>0, <1>5 DEF Tick, LoopOK
  <2>3. ASSUME NEW k \in dead, conn[k] = "idle" PROVE Stale(c, k)'
    <3>1. /\ age[k] \in Nat
          /\ age'[k] = IF age[k] <= KeepAlive THEN age[k] + 1 ELSE age[k]
          /\ pc'[c] = pc[c]
      BY <1>0, <1>5, <2>3 DEF Tick, PoolOK
    <3>2. Stale(c, k)
      BY <2>1, <2>3 DEF Safe
    <3> QED
      BY <2>2, <3>1, <3>2 DEF Stale
  <2> QED
    BY <1>5, <2>1, <2>3 DEF Tick, Safe
<1>6. CASE UNCHANGED vars
  BY <1>0, <1>6 DEF vars, poolVars, loopVars, ghostVars, Spared, Safe, Stale
<1> QED
  BY <1>1, <1>2, <1>3, <1>4, <1>5, <1>6 DEF Next

LEMMA SurvivesStep ==
    ASSUME 2 <= Attempts, TypeInv, PoolInv, RenewSurvives, [Next]_vars
    PROVE  RenewSurvives'
<1> USE Numbers
<1> SUFFICES ASSUME NEW c \in Renewers, outcome'[c] = "client", c \notin troubled', ~closed'
             PROVE  FALSE
  BY DEF RenewSurvives
<1>0. /\ LoopOK /\ Shape /\ c \in Callers /\ closed \in BOOLEAN /\ outer[c] \in Nat
      /\ outcome[c] = "client" => c \in troubled \/ closed
  BY DEF TypeInv, LoopOK, RestOK, RenewSurvives
<1>1. ASSUME NEW d \in Callers, Call(d) \/ Step(d) \/ Cancelled(d) PROVE FALSE
  <2>1. ~closed
    BY <1>1, Stays
  <2>2. c = d
    BY <1>0, <1>1, <2>1, Stays
  <2>3. ~Call(c)
    BY <1>0 DEF Call, LoopOK
  <2>4. Step(c) \/ Cancelled(c)
    BY <1>1, <2>2, <2>3
  <2>5. ~Idle(c) /\ outcome[c] = "none"
    BY <1>0, <2>4 DEF Step, Cancelled, PostPooled, PostFresh, PostClosed, Posting, Due,
       Connected, ConnectFails, Answered, FoundDead, Disconnected, Reset, TimedOut, Misused,
       Idle, Shape
  <2>6. outcome' # outcome
    BY <1>0, <2>5
  <2>7. ASSUME NEW r, r # "client", End(c, r) PROVE FALSE
    BY <1>0, <2>7 DEF End, LoopOK
  <2>8. ASSUME RaiseClientError(c)
        PROVE  pc'[c] = "idle" /\ outer[c] >= 1
    BY <1>0, <2>6, <2>8 DEF RaiseClientError, BackOff, End, LoopOK
  <2>9. CASE FoundDead(c)
    <3>1. RaiseClientError(c)
      BY <2>6, <2>9 DEF FoundDead, Repeat
    <3>2. c \notin troubled
      BY <2>8, <2>9, <3>1 DEF FoundDead, NoFault, Since, BacksOff
    <3>3. Spared(c)
      BY <2>1, <2>8, <3>1, <3>2 DEF Spared
    <3> QED
      BY <2>9, <3>3 DEF PoolInv, Safe, FoundDead
  <2>10. CASE Disconnected(c) \/ Reset(c) \/ (ConnectFails(c) /\ Fault(c))
    <3>1. RaiseClientError(c) /\ Fault(c)
      BY <2>6, <2>10 DEF Disconnected, Reset, ConnectFails, Repeat
    <3> QED
      BY <2>8, <3>1 DEF Fault, Since, BacksOff
  <2>11. CASE PostPooled(c) \/ PostFresh(c) \/ Connected(c)
    BY <2>6, <2>11 DEF PostPooled, PostFresh, Connected
  <2>12. CASE Answered(c) \/ TimedOut(c) \/ Cancelled(c) \/ (Misused(c) /\ End(c, "runtime"))
    BY <2>7, <2>12 DEF Answered, TimedOut, Cancelled
  <2> QED
    BY <2>1, <2>4, <2>9, <2>10, <2>11, <2>12 DEF Step, PostClosed, ConnectFails, Misused
<1>2. CASE (\E k \in Conns : CameraCloses(k) \/ Discarded(k)) \/ CloseSession \/ Tick
           \/ UNCHANGED vars
  BY <1>0, <1>2 DEF CameraCloses, Discarded, CloseSession, Tick, vars, ghostVars
<1> QED
  BY <1>1, <1>2 DEF Next

\* However many connections of the pool the camera has closed, they do not fail a
\* Renew that is attempted twice: one whose last backoff began after that does not end
\* with a connection error unless it meets a fault of its own.
THEOREM RenewalSurvives == 2 <= Attempts => (Spec => []RenewSurvives)
<1> SUFFICES ASSUME 2 <= Attempts PROVE Spec => []RenewSurvives
  OBVIOUS
<1>1. Init => PoolInv /\ RenewSurvives
  BY Numbers DEF Init, PoolInv, Spared, RenewSurvives
<1>2. TypeInv /\ PoolInv /\ RenewSurvives /\ [Next]_vars => RenewSurvives'
  BY SurvivesStep
<1> QED
  BY <1>1, <1>2, TypeInit, TypeStep, PoolStep, PTL DEF Spec

-----------------------------------------------------------------------------
(* A call that is never beside another: the pool has one connection to lend,   *)
(* and after a dead one it has none, so that the second attempt connects.      *)

\* A connection that a request has or may take
Live(k) == Usable(k) \/ conn[k] = "busy"
NoneLive == \A k \in Conns : ~Live(k)

\* The second attempt of a call that no fault has met does not use a pooled connection
Second(c) == ~Idle(c) /\ inner[c] # 0 /\ c \notin faulted

Lone(c) ==
    /\ \A d \in Callers : Idle(c) \/ Idle(d) \/ c = d
    /\ pc[c] \in {"idle", "backoff"} => inner[c] = 0
    /\ pc[c] = "pending" => conn[via[c]] = "busy"
    /\ pc[c] = "connecting" => NoneLive
    /\ Second(c) => IF pc[c] = "pending" THEN via[c] \notin dead ELSE NoneLive

Lent ==
    /\ \A j, k \in Conns : Live(j) /\ Live(k) => j = k
    /\ \A k \in Conns : conn[k] = "busy" => \E c \in Callers : pc[c] = "pending" /\ via[c] = k

LoneInv == ~overlapped /\ ~closed => Lent /\ \A c \in Callers : Lone(c)

\* What a step of d leaves as it was for another caller, and for the history
LEMMA OthersStay ==
    ASSUME TypeInv, NEW d \in Callers, Call(d) \/ Step(d) \/ Cancelled(d)
    PROVE  /\ overlapped => overlapped'
           /\ ~Call(d) => faulted \subseteq faulted'
           /\ \A c \in Callers : c # d => inner'[c] = inner[c] /\ (c \in faulted => c \in faulted')
<1> USE DEF TypeInv, LoopOK, PoolOK, poolVars, loopVars
<1>1. CASE Call(d)
  BY <1>1 DEF Call
<1>2. CASE PostPooled(d) \/ PostFresh(d) \/ Connected(d)
  BY <1>2 DEF PostPooled, PostFresh, Connected, NoFault
<1>3. CASE PostClosed(d) \/ ConnectFails(d)
  BY <1>3 DEF PostClosed, ConnectFails, RaiseClientError, End, BackOff, Fault, NoFault
<1>4. CASE Answered(d)
  BY <1>4 DEF Answered, End, NoFault
<1>5. CASE FoundDead(d) \/ Disconnected(d) \/ Reset(d)
  BY <1>5 DEF FoundDead, Disconnected, Reset, Repeat, RaiseClientError, End, BackOff, Drop,
     Fault, NoFault
<1>6. CASE TimedOut(d) \/ Misused(d) \/ Cancelled(d)
  BY <1>6 DEF TimedOut, Misused, Cancelled, RaiseClientError, End, BackOff, Drop, Fault,
     NoFault
<1> QED
  BY <1>1, <1>2, <1>3, <1>4, <1>5, <1>6 DEF Step

\* While d is the only caller whose call is under way, if any, Lent and Lone say this
Only(d) ==
    /\ \A c \in Callers : c # d => Idle(c) /\ inner[c] = 0
    /\ \A j, k \in Conns : Live(j) /\ Live(k) => j = k
    /\ \A k \in Conns : conn[k] = "busy" => pc[d] = "pending" /\ via[d] = k
    /\ pc[d] \in {"idle", "backoff"} => inner[d] = 0
    /\ pc[d] = "pending" => conn[via[d]] = "busy"
    /\ pc[d] = "connecting" => NoneLive
    /\ Second(d) => IF pc[d] = "pending" THEN via[d] \notin dead ELSE NoneLive

LEMMA OnlyLone ==
    ASSUME NEW d \in Callers, Only(d)
    PROVE  Lent /\ \A c \in Callers : Lone(c)
<1>1. ASSUME NEW c \in Callers PROVE Lone(c)
  <2>1. CASE c = d
    BY <2>1 DEF Only, Lone
  <2>2. CASE c # d
    <3>1. pc[c] = "idle" /\ inner[c] = 0 /\ ~Second(c)
      BY <2>2 DEF Only, Second, Idle
    <3> QED
      BY <3>1 DEF Lone, Idle
  <2> QED
    BY <2>1, <2>2
<1>2. Lent
  BY DEF Only, Lent
<1> QED
  BY <1>1, <1>2

LEMMA LoneOnly ==
    ASSUME NEW d \in Callers, Lent, \A c \in Callers : Lone(c),
           \A c \in Callers : c # d => Idle(c)
    PROVE  Only(d)
<1>1. \A c \in Callers : c # d => Idle(c) /\ inner[c] = 0
  BY DEF Lone, Idle
<1>2. ASSUME NEW k \in Conns, conn[k] = "busy" PROVE pc[d] = "pending" /\ via[d] = k
  <2>1. PICK c \in Callers : pc[c] = "pending" /\ via[c] = k
    BY <1>2 DEF Lent
  <2>2. c = d
    BY <2>1 DEF Idle
  <2> QED
    BY <2>1, <2>2
<1> QED
  BY <1>1, <1>2 DEF Only, Lent, Lone

\* A connection that d gives up was the only live one
LEMMA DropLive ==
    ASSUME TypeInv, NEW d \in Callers, Only(d), Drop(d)
    PROVE  /\ \A k \in Conns : conn'[k] # "busy"
           /\ \A k \in Conns : Live(k)' => Live(k)
           /\ pc[d] = "pending" => NoneLive'
<1>1. /\ conn' = [k \in Conns |-> IF k = via[d] THEN "none" ELSE conn[k]]
      /\ UNCHANGED age
  BY DEF Drop
<1>2. \A k \in Conns : conn'[k] # "busy"
  BY <1>1 DEF Only
<1>3. \A k \in Conns : Live(k)' => Live(k) /\ k # via[d]
  BY <1>1 DEF Live, Usable
<1>4. pc[d] = "pending" => via[d] \in Conns /\ Live(via[d])
  BY DEF TypeInv, Shape, Only, Live
<1>5. pc[d] = "pending" => NoneLive'
  <2> SUFFICES ASSUME pc[d] = "pending", NEW k \in Conns, Live(k)' PROVE FALSE
    BY DEF NoneLive
  <2>1. Live(k) /\ k # via[d]
    BY <1>3
  <2> QED
    BY <1>4, <2>1 DEF Only
<1> QED
  BY <1>2, <1>3, <1>5

\* The call is over, or waits for its backoff: its attempts are counted anew
LEMMA EndsOnly ==
    ASSUME TypeInv, NEW d \in Callers, Only(d),
           \A c \in Callers : c # d => Idle(c)' /\ inner'[c] = inner[c],
           (\E r : End(d, r)) \/ RaiseClientError(d),
           \A k \in Conns : conn'[k] # "busy" /\ (Live(k)' => Live(k))
    PROVE  Only(d)'
<1>1. pc'[d] \in {"idle", "backoff"} /\ inner'[d] = 0
  BY DEF RaiseClientError, End, BackOff, TypeInv, LoopOK
<1>2. ~Second(d)'
  BY <1>1 DEF Second
<1>3. \A c \in Callers : c # d => Idle(c)' /\ inner'[c] = 0
  BY DEF Only
<1>4. \A j, k \in Conns : Live(j)' /\ Live(k)' => j = k
  BY DEF Only
<1> QED
  BY <1>1, <1>2, <1>3, <1>4 DEF Only

LEMMA OwnStepOnly ==
    ASSUME TypeInv, NEW d \in Callers, Only(d), Call(d) \/ Step(d) \/ Cancelled(d),
           ~closed
    PROVE  Only(d)'
<1>0. /\ LoopOK /\ PoolOK /\ pc[d] \in Points /\ None \notin Conns
      /\ pc[d] = "pending" => via[d] \in Conns
      /\ pc[d] # "pending" => via[d] = None
  BY Numbers DEF TypeInv, LoopOK, Shape
<1>1. \A c \in Callers : c # d => Idle(c)' /\ inner'[c] = inner[c]
  BY Stays, OthersStay DEF Only, Idle
<1>2. \A c \in Callers : c # d => Idle(c)' /\ inner'[c] = 0
  BY <1>1 DEF Only
<1>3. CASE Call(d)
  <2>1. pc[d] = "idle" /\ pc'[d] = "ready" /\ inner' = inner /\ UNCHANGED <<conn, age>>
    BY <1>0, <1>3 DEF Call, Idle, LoopOK, loopVars, poolVars
  <2>2. inner'[d] = 0 /\ ~Second(d)'
    BY <2>1 DEF Only, Second
  <2>3. \A k \in Conns : Live(k)' <=> Live(k)
    BY <2>1 DEF Live, Usable
  <2> QED
    BY <1>2, <2>1, <2>2, <2>3 DEF Only
<1>4. CASE PostPooled(d)
  <2>1. PICK k \in Conns : /\ Usable(k)
                           /\ conn' = [conn EXCEPT ![k] = "busy"]
                           /\ age' = [age EXCEPT ![k] = 0]
                           /\ via' = [via EXCEPT ![d] = k]
    BY <1>4 DEF PostPooled
  <2>2. /\ pc'[d] = "pending" /\ via'[d] = k /\ inner' = inner /\ faulted' = faulted
        /\ conn'[k] = "busy" /\ pc[d] \in {"ready", "backoff"}
    BY <1>0, <1>4, <2>1 DEF PostPooled, Posting, Due, NoFault, LoopOK, PoolOK, loopVars
  <2>3. Live(k) /\ ~NoneLive
    BY <2>1 DEF Live, NoneLive
  <2>4. ~Second(d)'
    BY <2>2, <2>3 DEF Only, Second, Idle
  <2>5. \A j \in Conns : (Live(j)' => Live(j)) /\ (conn'[j] = "busy" => j = k)
    BY <1>0, <2>1, <2>2, <2>3 DEF Live, Usable, Only, PoolOK
  <2> QED
    BY <1>2, <2>2, <2>4, <2>5 DEF Only
<1>5. CASE PostFresh(d)
  <2>1. /\ pc'[d] = "connecting" /\ pc[d] \in {"ready", "backoff"}
        /\ UNCHANGED <<conn, age, inner, faulted>>
    BY <1>0, <1>5 DEF PostFresh, Posting, Due, NoFault, LoopOK, poolVars, loopVars
  <2>2. \A k \in Conns : ~Live(k) /\ ~Live(k)' /\ conn'[k] # "busy"
    BY <1>5, <2>1 DEF PostFresh, Only, Live, Usable
  <2>3. NoneLive'
    BY <2>2 DEF NoneLive
  <2> QED
    BY <1>2, <2>1, <2>2, <2>3 DEF Only
<1>6. CASE Connected(d)
  <2>1. PICK k \in Conns : /\ conn' = [conn EXCEPT ![k] = "busy"]
                           /\ age' = [age EXCEPT ![k] = 0]
                           /\ dead' = dead \ {k}
                           /\ via' = [via EXCEPT ![d] = k]
    BY <1>6 DEF Connected
  <2>2. /\ pc'[d] = "pending" /\ via'[d] = k /\ conn'[k] = "busy" /\ k \notin dead'
        /\ pc[d] = "connecting"
    BY <1>0, <1>6, <2>1 DEF Connected, LoopOK, PoolOK
  <2>3. \A j \in Conns : (Live(j)' => j = k) /\ (conn'[j] = "busy" => j = k)
    BY <1>0, <2>1, <2>2 DEF Live, Usable, Only, NoneLive, PoolOK
  <2> QED
    BY <1>2, <2>2, <2>3 DEF Only
<1>7. CASE ConnectFails(d)
  <2>1. /\ pc[d] = "connecting" /\ RaiseClientError(d) /\ UNCHANGED <<conn, age>>
    BY <1>7 DEF ConnectFails, poolVars
  <2>2. \A k \in Conns : conn'[k] # "busy" /\ (Live(k)' => Live(k))
    BY <2>1 DEF Only, Live, Usable
  <2> QED
    BY <1>1, <2>1, <2>2, EndsOnly
<1>8. CASE Answered(d)
  <2>1. /\ pc[d] = "pending" /\ conn' = [conn EXCEPT ![via[d]] = "idle"] /\ UNCHANGED age
        /\ End(d, "answer")
    BY <1>8 DEF Answered
  <2>2. \A k \in Conns : conn'[k] # "busy" /\ (Live(k)' => Live(k))
    BY <1>0, <2>1 DEF Only, Live, Usable, PoolOK
  <2> QED
    BY <1>1, <2>1, <2>2, EndsOnly
<1>9. CASE Drop(d) /\ ((\E r : End(d, r)) \/ RaiseClientError(d))
  BY <1>1, <1>9, DropLive, EndsOnly
<1>10. CASE /\ Drop(d) /\ pc[d] = "pending"
            /\ pc' = [pc EXCEPT ![d] = "ready"] /\ via' = [via EXCEPT ![d] = None]
  <2>1. /\ NoneLive' /\ \A k \in Conns : conn'[k] # "busy" /\ (Live(k)' => Live(k))
    BY <1>10, DropLive
  <2>2. pc'[d] = "ready"
    BY <1>0, <1>10 DEF LoopOK
  <2> QED
    BY <1>2, <2>1, <2>2 DEF Only
<1>11. CASE FoundDead(d) \/ Disconnected(d) \/ Reset(d) \/ TimedOut(d) \/ Misused(d)
            \/ Cancelled(d)
  BY <1>9, <1>10, <1>11 DEF FoundDead, Disconnected, Reset, TimedOut, Misused, Cancelled,
     Repeat
<1> QED
  BY <1>3, <1>4, <1>5, <1>6, <1>7, <1>8, <1>11 DEF Step, PostClosed

LEMMA LoneStep == TypeInv /\ LoneInv /\ [Next]_vars => LoneInv'
<1> SUFFICES ASSUME TypeInv, LoneInv, [Next]_vars, ~overlapped', ~closed'
             PROVE  Lent' /\ \A c \in Callers : Lone(c)'
  BY DEF LoneInv
<1>0. LoopOK /\ PoolOK /\ Shape
  BY DEF TypeInv
<1>1. ASSUME NEW d \in Callers, Call(d) \/ Step(d) \/ Cancelled(d)
      PROVE  Lent' /\ \A c \in Callers : Lone(c)'
  <2>1. ~overlapped /\ ~closed /\ Lent /\ \A c \in Callers : Lone(c)
    BY <1>1, Stays, OthersStay DEF LoneInv
  <2>2. \A c \in Callers : c # d => Idle(c)
    <3>1. CASE Call(d)
      BY <3>1 DEF Call
    <3>2. CASE Step(d) \/ Cancelled(d)
      <4>1. ~Idle(d)
        BY <3>2 DEF Step, Cancelled, PostPooled, PostFresh, PostClosed, Posting, Due,
           Connected, ConnectFails, Answered, FoundDead, Disconnected, Reset, TimedOut,
           Misused, Idle
      <4> QED
        BY <2>1, <4>1 DEF Lone
    <3> QED
      BY <1>1, <3>1, <3>2
  <2>3. Only(d)'
    BY <1>1, <2>1, <2>2, LoneOnly, OwnStepOnly
  <2>4. (Only(d) => Lent /\ \A c \in Callers : Lone(c))'
    BY OnlyLone, PTL
  <2> QED
    BY <2>3, <2>4
<1>2. ASSUME UNCHANGED <<pc, via, inner, faulted, overlapped, closed>>,
             \A k \in Conns : Live(k)' => Live(k),
             \A k \in Conns : conn'[k] = "busy" <=> conn[k] = "busy",
             \A k \in Conns : conn[k] = "busy" /\ k \in dead' => k \in dead
      PROVE  Lent' /\ \A c \in Callers : Lone(c)'
  <2>1. Lent /\ \A c \in Callers : Lone(c)
    BY <1>2 DEF LoneInv
  <2>2. Lent'
    BY <1>2, <2>1 DEF Lent
  <2>3. NoneLive => NoneLive'
    BY <1>2 DEF NoneLive
  <2>4. ASSUME NEW c \in Callers PROVE Lone(c)'
    <3>1. pc[c] = "pending" => via[c] \in Conns
      BY <1>0 DEF Shape
    <3>2. /\ pc[c] = "pending" => conn'[via[c]] = "busy"
          /\ Second(c) => IF pc[c] = "pending" THEN via[c] \notin dead' ELSE NoneLive'
      BY <1>2, <2>1, <2>3, <3>1 DEF Lone
    <3>3. Lone(c)
      BY <2>1
    <3> QED
      BY <1>2, <2>3, <3>2, <3>3 DEF Lone, Second, Idle
  <2> QED
    BY <2>2, <2>4
<1>3. ASSUME NEW k \in Conns, CameraCloses(k) PROVE Lent' /\ \A c \in Callers : Lone(c)'
  <2>1. UNCHANGED <<pc, via, inner, faulted, overlapped, closed, conn, age>>
        /\ dead' = dead \cup {k} /\ conn[k] = "idle"
    BY <1>3 DEF CameraCloses, loopVars
  <2> QED
    BY <1>2, <2>1 DEF Live, Usable
<1>4. ASSUME NEW k \in Conns, Discarded(k) PROVE Lent' /\ \A c \in Callers : Lone(c)'
  <2>1. /\ UNCHANGED <<pc, via, inner, faulted, overlapped, closed>>
        /\ dead' = dead \ {k} /\ conn[k] = "idle"
        /\ conn' = [conn EXCEPT ![k] = "none"] /\ age' = [age EXCEPT ![k] = 0]
    BY <1>4 DEF Discarded, loopVars, ghostVars
  <2>2. \A j \in Conns : /\ Live(j)' => Live(j)
                         /\ conn'[j] = "busy" <=> conn[j] = "busy"
    BY <1>0, <2>1 DEF Live, Usable, PoolOK
  <2> QED
    BY <1>2, <2>1, <2>2
<1>5. CASE Tick
  <2>1. /\ UNCHANGED <<pc, via, inner, faulted, overlapped, closed, conn, dead>>
        /\ \A k \in Conns : age'[k] =
              IF conn[k] = "idle" /\ age[k] <= KeepAlive THEN age[k] + 1 ELSE age[k]
    BY <1>5 DEF Tick, ghostVars
  <2>2. \A j \in Conns : Live(j)' => Live(j)
    BY <1>0, <2>1, Numbers DEF Live, Usable, PoolOK
  <2> QED
    BY <1>2, <2>1, <2>2
<1>6. CASE CloseSession
  BY <1>6 DEF CloseSession
<1>7. CASE UNCHANGED vars
  BY <1>2, <1>7 DEF vars, poolVars, loopVars, ghostVars, Live, Usable
<1> QED
  BY <1>1, <1>3, <1>4, <1>5, <1>6, <1>7 DEF Next

LEMMA LoneSurvivesStep ==
    ASSUME 2 <= Posts, TypeInv, LoneInv, LoneCallSurvives, [Next]_vars
    PROVE  LoneCallSurvives'
<1> SUFFICES ASSUME NEW c \in Callers, ~overlapped', outcome'[c] = "client",
                    c \notin faulted', ~closed'
             PROVE  FALSE
  BY DEF LoneCallSurvives
<1>0. /\ LoopOK /\ Shape /\ closed \in BOOLEAN /\ inner[c] \in Nat /\ Posts \in Nat
      /\ ~overlapped /\ outcome[c] = "client" => c \in faulted \/ closed
  BY Numbers DEF TypeInv, LoopOK, RestOK, LoneCallSurvives
<1>1. ASSUME NEW d \in Callers, Call(d) \/ Step(d) \/ Cancelled(d) PROVE FALSE
  <2>1. ~closed /\ ~overlapped
    BY <1>1, Stays, OthersStay
  <2>2. c = d
    BY <1>0, <1>1, <2>1, Stays, OthersStay
  <2>3. ~Call(c)
    BY <1>0 DEF Call, LoopOK
  <2>4. Step(c) \/ Cancelled(c)
    BY <1>1, <2>2, <2>3
  <2>5. /\ ~Idle(c) /\ outcome[c] = "none"
    BY <1>0, <2>4 DEF Step, Cancelled, PostPooled, PostFresh, PostClosed, Posting, Due,
       Connected, ConnectFails, Answered, FoundDead, Disconnected, Reset, TimedOut, Misused,
       Idle, Shape
  <2>6. outcome' # outcome /\ c \notin faulted
    BY <1>0, <1>1, <2>2, <2>3, <2>5, OthersStay
  <2>7. ASSUME NEW r, r # "client", End(c, r) PROVE FALSE
    BY <1>0, <2>7 DEF End, LoopOK
  <2>8. ~Fault(c)
    BY DEF Fault
  <2>9. CASE FoundDead(c)
    <3>1. inner[c] + 1 = Posts
      BY <2>6, <2>9 DEF FoundDead, Repeat
    <3>2. Second(c) /\ pc[c] = "pending" /\ via[c] \in dead
      BY <1>0, <2>5, <2>6, <2>9, <3>1 DEF FoundDead, Second
    <3> QED
      BY <2>1, <3>2 DEF LoneInv, Lone
  <2>10. CASE PostPooled(c) \/ PostFresh(c) \/ Connected(c)
    BY <2>6, <2>10 DEF PostPooled, PostFresh, Connected
  <2>11. CASE Answered(c) \/ TimedOut(c) \/ Cancelled(c)
    BY <2>7, <2>11 DEF Answered, TimedOut, Cancelled
  <2> QED
    BY <2>1, <2>4, <2>8, <2>9, <2>10, <2>11 DEF Step, PostClosed, ConnectFails, Misused,
       Disconnected, Reset
<1>2. CASE (\E k \in Conns : CameraCloses(k) \/ Discarded(k)) \/ CloseSession \/ Tick
           \/ UNCHANGED vars
  BY <1>0, <1>2 DEF CameraCloses, Discarded, CloseSession, Tick, vars, ghostVars
<1> QED
  BY <1>1, <1>2 DEF Next

\* If the transport posts twice, a call that is never beside another does not fail for
\* a connection of the pool that the camera has closed: it ends with a connection error
\* only if it met a fault of its own or the session was closed.
THEOREM LoneSurvives == 2 <= Posts => (Spec => []LoneCallSurvives)
<1> SUFFICES ASSUME 2 <= Posts PROVE Spec => []LoneCallSurvives
  OBVIOUS
<1>1. Init => LoneInv /\ LoneCallSurvives
  BY Numbers DEF Init, LoneInv, LoneCallSurvives, Lent, Lone, Live, Usable, Second, Idle
<1>2. TypeInv /\ LoneInv /\ LoneCallSurvives /\ [Next]_vars => LoneCallSurvives'
  BY LoneSurvivesStep
<1> QED
  BY <1>1, <1>2, TypeInit, TypeStep, LoneStep, PTL DEF Spec

=============================================================================
