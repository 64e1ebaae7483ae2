---------------------- MODULE SubscriptionManagerProofs ----------------------
(***************************************************************************)
(* What holds of SubscriptionManager for every value of its constants.     *)
(***************************************************************************)
EXTENDS SubscriptionManager, TLAPS

-----------------------------------------------------------------------------
(* Type correctness.  TypeOK in three parts: the variables that a coroutine *)
(* changes whenever it ends a segment, the pool of services, and the others. *)

FlowOK ==
    /\ handle \in Timers \cup {None}
    /\ armed \subseteq Timers
    /\ cancelled \subseteq Tasks
    /\ pc \in [Procs -> Points]
    /\ target \in [Procs -> Svc \cup {None}]
    /\ want \in [Procs -> Addr \cup {None}]
    /\ turn \in Procs \cup {None}
    /\ wish \in Wishes

DataOK ==
    /\ subscription \in Svc \cup {None}
    /\ service \in Svc \cup {None}
    /\ shutdown \in BOOLEAN
    /\ taskRef \in Tasks \cup {None}
    /\ xaddr \in Addr \cup {None}
    /\ discovering \in BOOLEAN
    /\ camera \subseteq Addr
    /\ spent \in 0..Budget
    /\ consumerClosed \in BOOLEAN

PoolOK ==
    /\ services \in [Keys -> Svc \cup {None}]
    /\ svc \in [Svc -> [addr : Addr \cup {None}, open : BOOLEAN]]

LEMMA TypeParts ==
    /\ TypeOK <=> FlowOK /\ DataOK /\ PoolOK
    /\ TypeOK' <=> FlowOK' /\ DataOK' /\ PoolOK'
  BY DEF TypeOK, FlowOK, DataOK, PoolOK

LEMMA TypeInit == Init => TypeOK
<1> SUFFICES ASSUME Init PROVE FlowOK /\ DataOK /\ PoolOK
  BY TypeParts
<1>1. FlowOK
  BY DEF Init, FlowOK, Points, Wishes
<1>2. DataOK
  <2>1. spent \in 0..Budget
    BY BoundAssumption DEF Init
  <2> QED
    BY <2>1 DEF Init, DataOK
<1>3. PoolOK
  BY DEF Init, PoolOK
<1> QED
  BY <1>1, <1>2, <1>3

\* The finally clause of the task, whatever made it end
LEMMA EndTaskTyped ==
    ASSUME FlowOK, NEW t \in Tasks, EndTask(t), wish' \in Wishes
    PROVE  FlowOK'
<1>1. handle' \in Timers \cup {None} /\ armed' \subseteq Timers
  BY DEF FlowOK, EndTask, ScheduleRenew, First, timerVars
<1>2. /\ cancelled' \subseteq Tasks
      /\ pc' \in [Procs -> Points] /\ turn' \in Procs \cup {None}
      /\ target' \in [Procs -> Svc \cup {None}]
      /\ want' \in [Procs -> Addr \cup {None}]
  BY DEF FlowOK, EndTask, Suspend, Forget, Points
<1> QED
  BY <1>1, <1>2 DEF FlowOK

\* A failed start()
LEMMA EndStartTyped ==
    ASSUME FlowOK, NEW c \in Consumers, EndStart(c)
    PROVE  FlowOK'
  BY DEF FlowOK, EndStart, timerVars, Suspend, Forget, Procs, Points, Wishes

LEMMA StartReturnsTyped ==
    ASSUME FlowOK, NEW p \in Procs, StartReturns(p)
    PROVE  FlowOK'
<1>1. CASE p \in Tasks /\ EndTask(p) /\ UNCHANGED wish
  BY <1>1, EndTaskTyped DEF FlowOK
<1>2. CASE p \in Consumers /\ ScheduleRenew /\ Suspend(p, "idle") /\ Forget(p)
           /\ wish' = (IF wish = "starting" THEN "run" ELSE wish)
           /\ UNCHANGED cancelled
  BY <1>2 DEF FlowOK, ScheduleRenew, First, Suspend, Forget, Points, Wishes
<1> QED
  BY <1>1, <1>2 DEF StartReturns

LEMMA StartRaisesTyped ==
    ASSUME FlowOK, NEW p \in Procs, StartRaises(p)
    PROVE  FlowOK'
  BY EndTaskTyped, EndStartTyped DEF StartRaises, FlowOK

\* How Build() leaves the pool and the coroutine
LEMMA BuildTyped ==
    ASSUME TypeOK, NEW p \in Procs, NEW k \in Keys, NEW a \in Addr \cup {None},
           Build(p, k, a),
           UNCHANGED <<timerVars, cancelled, wish, shutdown, taskRef,
                       addrVars, camera, spent, consumerClosed>>
    PROVE  TypeOK'
<1>1. PICK s \in Svc :
         /\ svc' = [svc EXCEPT ![s] = [addr |-> a, open |-> TRUE]]
         /\ services' = [services EXCEPT ![k] = s]
         /\ Assign(k, s)
         /\ Continue(p, AfterMake(pc[p]))
         /\ Forget(p)
  BY DEF Build
<1>2. FlowOK'
  BY <1>1, TypeParts DEF FlowOK, Continue, Forget, AfterMake, Points, StartPoints,
     timerVars
<1>3. subscription' \in Svc \cup {None} /\ service' \in Svc \cup {None}
  BY <1>1, TypeParts DEF DataOK, Assign
<1>4. DataOK'
  BY <1>3, TypeParts DEF DataOK, addrVars
<1>5. PoolOK'
  BY <1>1, TypeParts DEF PoolOK
<1> QED
  BY <1>2, <1>4, <1>5, TypeParts

LEMMA KeyAtTyped == \A point : KeyAt(point) \in Keys
  BY DEF KeyAt, Keys

LEMMA MakeServiceTyped ==
    ASSUME TypeOK, NEW p \in Procs, MakeService(p)
    PROVE  TypeOK'
<1> USE TypeParts, KeyAtTyped
<1>1. /\ turn = p /\ pc[p] \in {"make1", "make2"}
      /\ UNCHANGED <<shutdown, taskRef, addrVars, camera, spent, consumerClosed>>
  BY DEF MakeService
<1>2. CASE MakeUnsupported(p)
  <2>1. FlowOK'
    BY <1>2, StartRaisesTyped DEF MakeUnsupported
  <2>2. DataOK'
    BY <1>1, <1>2 DEF MakeUnsupported, DataOK, attrVars, addrVars
  <2>3. PoolOK'
    BY <1>2 DEF MakeUnsupported, PoolOK
  <2> QED
    BY <2>1, <2>2, <2>3
<1>3. CASE MakeReuse(p)
  <2>1. services[KeyAt(pc[p])] \in Svc
    BY <1>3 DEF MakeReuse, PoolOK, Reusable
  <2>2. FlowOK'
    BY <1>3 DEF MakeReuse, FlowOK, Continue, AfterMake, Points, StartPoints,
       localVars, timerVars
  <2>3. subscription' \in Svc \cup {None} /\ service' \in Svc \cup {None}
    BY <1>3, <2>1 DEF MakeReuse, DataOK, Assign
  <2>4. DataOK'
    BY <1>1, <2>3 DEF DataOK, addrVars
  <2>5. PoolOK'
    BY <1>3 DEF MakeReuse, PoolOK
  <2> QED
    BY <2>2, <2>4, <2>5
<1>4. CASE MakeFresh(p)
  BY <1>1, <1>4, BuildTyped DEF MakeFresh, DataOK
<1>5. CASE MakeReplace(p)
  <2>1. FlowOK'
    BY <1>5 DEF MakeReplace, FlowOK, DataOK, Suspend, Points, StartPoints, timerVars
  <2>2. PoolOK'
    BY <1>5 DEF MakeReplace, PoolOK
  <2>3. DataOK'
    BY <1>1, <1>5 DEF MakeReplace, DataOK, attrVars, addrVars
  <2> QED
    BY <2>1, <2>2, <2>3
<1> QED
  BY <1>2, <1>3, <1>4, <1>5 DEF MakeService

\* A step of _start(), taken by a task or by a consumer
LEMMA StartStepTyped ==
    ASSUME TypeOK, NEW p \in Procs, StartStep(p)
    PROVE  TypeOK'
<1> USE TypeParts
<1>1. CASE OpenEvents(p)
  <2>1. FlowOK'
    BY <1>1, StartRaisesTyped DEF OpenEvents, FlowOK, Suspend, Points, StartPoints,
       timerVars, localVars
  <2> QED
    BY <1>1, <2>1 DEF OpenEvents, DataOK, PoolOK, attrVars, poolVars, addrVars
<1>2. CASE SubscribeAnswered(p)
  BY <1>2 DEF SubscribeAnswered, FlowOK, DataOK, PoolOK, Continue, Points,
     StartPoints, attrVars, timerVars, localVars, ghostVars
<1>3. CASE SubscribeUnusable(p)
  <2>1. spent' \in 0..Budget
    BY <1>3, BoundAssumption DEF SubscribeUnusable, Fault, Spend, DataOK
  <2> QED
    BY <1>3, <2>1 DEF SubscribeUnusable, MaybeSubscribed, FlowOK, DataOK, PoolOK,
       Continue, Points, StartPoints, attrVars, timerVars, localVars, ghostVars
<1>4. CASE SubscribeFails(p)
  <2>1. FlowOK'
    BY <1>4, StartRaisesTyped DEF SubscribeFails
  <2>2. spent' \in 0..Budget
    BY <1>4, BoundAssumption DEF SubscribeFails, Fault, Spend, DataOK
  <2> QED
    BY <1>4, <2>1, <2>2 DEF SubscribeFails, MaybeSubscribed, DataOK, PoolOK,
       attrVars, poolVars, addrVars
<1>6. CASE MakeService(p)
  BY <1>6, MakeServiceTyped
<1>7. CASE ServiceClosed(p)
  BY <1>7, BuildTyped, KeyAtTyped DEF ServiceClosed, FlowOK, ghostVars
<1>8. CASE TimesSound(p)
  <2>1. FlowOK'
    BY <1>8, StartReturnsTyped DEF TimesSound
  <2> QED
    BY <1>8, <2>1 DEF TimesSound, DataOK, PoolOK, attrVars, poolVars, addrVars
<1>9. CASE TimesBroken(p)
  BY <1>9 DEF TimesBroken, FlowOK, DataOK, PoolOK, Suspend, Points, StartPoints,
     attrVars, timerVars, poolVars, addrVars, ghostVars
<1>10. CASE TimesMixed(p)
  <2>1. FlowOK'
    BY <1>10, StartRaisesTyped DEF TimesMixed
  <2>2. spent' \in 0..Budget
    BY <1>10, BoundAssumption DEF TimesMixed, Fault, Spend, DataOK
  <2> QED
    BY <1>10, <2>1, <2>2 DEF TimesMixed, DataOK, PoolOK, attrVars, poolVars, addrVars
<1>11. CASE FixAnswered(p)
  <2>1. FlowOK'
    BY <1>11, StartReturnsTyped DEF FixAnswered
  <2> QED
    BY <1>11, <2>1 DEF FixAnswered, DataOK, PoolOK, attrVars, poolVars, addrVars
<1>12. CASE FixFails(p)
  <2>1. FlowOK'
    BY <1>12, StartRaisesTyped DEF FixFails
  <2>2. spent' \in 0..Budget
    BY <1>12, BoundAssumption DEF FixFails, Fault, Spend, DataOK
  <2> QED
    BY <1>12, <2>1, <2>2 DEF FixFails, DataOK, PoolOK, attrVars, poolVars, addrVars
<1> QED
  BY <1>1, <1>2, <1>3, <1>4, <1>6, <1>7, <1>8, <1>9, <1>10, <1>11, <1>12
  DEF StartStep, CheckTimes

\* A step of the background task outside _start()
LEMMA TaskStepTyped ==
    ASSUME TypeOK, NEW t \in Tasks, TaskStep(t)
    PROVE  TypeOK'
<1> USE TypeParts DEF attrVars, poolVars, addrVars, ghostVars
<1>1. CASE TaskGivesUp(t)
  BY <1>1 DEF TaskGivesUp, FlowOK, DataOK, PoolOK, Suspend, Points, timerVars,
     localVars
<1>2. CASE TaskRestarts(t)
  BY <1>2 DEF TaskRestarts, Restart, CancelRenewals, FlowOK, DataOK, PoolOK,
     Continue, Forget, Points, StartPoints, Procs
<1>3. CASE TaskRenews(t) \/ BackoffOver(t)
  <2>1. PICK point \in RenewPoints : SendRenew(t, point)
    BY <1>3 DEF TaskRenews, BackoffOver, RenewPoints
  <2> QED
    BY <2>1 DEF SendRenew, FlowOK, DataOK, PoolOK, Suspend, Points, timerVars
<1>4. CASE RenewAnswered(t)
  <2>1. FlowOK'
    BY <1>4, EndTaskTyped DEF RenewAnswered, FlowOK
  <2> QED
    BY <1>4, <2>1 DEF RenewAnswered, DataOK, PoolOK
<1>5. CASE RenewRetried(t)
  <2>1. spent' \in 0..Budget
    BY <1>5, BoundAssumption DEF RenewRetried, Fault, Spend, DataOK
  <2> QED
    BY <1>5, <2>1 DEF RenewRetried, FlowOK, DataOK, PoolOK, Suspend, Forget, Points,
       timerVars, Procs
<1>6. CASE RenewFails(t)
  <2>1. spent' \in 0..Budget
    BY <1>6, BoundAssumption DEF RenewFails, Fault, Spend, DataOK
  <2> QED
    BY <1>6, <2>1 DEF RenewFails, Restart, CancelRenewals, FlowOK, DataOK, PoolOK,
       Continue, Forget, Points, StartPoints, Procs
<1>7. CASE RenewEscapes(t)
  <2>1. FlowOK'
    BY <1>7, EndTaskTyped DEF RenewEscapes, FlowOK
  <2>2. spent' \in 0..Budget
    BY <1>7, BoundAssumption DEF RenewEscapes, Fault, Spend, DataOK
  <2> QED
    BY <1>7, <2>1, <2>2 DEF RenewEscapes, DataOK, PoolOK
<1>8. CASE TaskCancelled(t)
  <2>1. FlowOK'
    <3>1. CASE pc[t] = "spawned"
      BY <1>8, <3>1 DEF TaskCancelled, FlowOK, Suspend, Points, timerVars, localVars
    <3>2. CASE pc[t] # "spawned"
      BY <1>8, <3>2, EndTaskTyped DEF TaskCancelled, FlowOK
    <3> QED
      BY <3>1, <3>2
  <2>2. camera' \subseteq Addr
    BY <1>8 DEF TaskCancelled, MaybeSubscribed, DataOK
  <2> QED
    BY <1>8, <2>1, <2>2 DEF TaskCancelled, DataOK, PoolOK
<1> QED
  BY <1>1, <1>2, <1>3, <1>4, <1>5, <1>6, <1>7, <1>8 DEF TaskStep

\* stop(), alone or as the end of shutdown()
LEMMA StopBodyTyped ==
    ASSUME TypeOK, NEW c \in Consumers, StopBody(c), shutdown' \in BOOLEAN,
           cancelled' \subseteq Tasks
    PROVE  TypeOK'
<1> USE TypeParts DEF StopBody, CancelRenewals, attrVars, poolVars, addrVars
<1>1. /\ pc' \in [Procs -> Points] /\ turn' \in Procs \cup {None}
      /\ target' \in [Procs -> Svc \cup {None}]
  BY DEF FlowOK, DataOK, Suspend, Points
<1> QED
  BY <1>1 DEF FlowOK, DataOK, PoolOK, Wishes

LEMMA TypeStep == TypeOK /\ [Next]_vars => TypeOK'
<1> USE TypeParts DEF attrVars, poolVars, addrVars, ghostVars, timerVars, localVars
<1> SUFFICES ASSUME TypeOK, [Next]_vars PROVE TypeOK'
  OBVIOUS
<1>1. ASSUME NEW h \in Timers, TimerFires(h) PROVE TypeOK'
  BY <1>1 DEF TimerFires, First, FlowOK, DataOK, PoolOK, Points, Procs
<1>2. ASSUME NEW t \in Tasks, TaskStep(t) PROVE TypeOK'
  BY <1>2, TaskStepTyped
<1>3. ASSUME NEW p \in Procs, StartStep(p) PROVE TypeOK'
  BY <1>3, StartStepTyped
<1>4. ASSUME NEW c \in Consumers, Start(c) PROVE TypeOK'
  <2>1. subscription' \in Svc \cup {None} /\ service' \in Svc \cup {None}
    BY <1>4 DEF Start, DataOK
  <2>2. spent' \in 0..Budget
    BY <1>4, BoundAssumption DEF Start, Spend, DataOK
  <2> QED
    BY <1>4, <2>1, <2>2 DEF Start, FlowOK, DataOK, PoolOK, Continue, Points,
       StartPoints, Wishes, Procs
<1>5. ASSUME NEW c \in Consumers, Stop(c) \/ Shutdown(c) PROVE TypeOK'
  <2>1. StopBody(c) /\ shutdown' \in BOOLEAN
    BY <1>5 DEF Stop, Shutdown, DataOK
  <2>2. cancelled' \subseteq Tasks
    BY <1>5 DEF Stop, Shutdown, FlowOK, DataOK, TaskInProgress
  <2> QED
    BY <2>1, <2>2, StopBodyTyped
<1>6. ASSUME NEW c \in Consumers, UnsubscribeReturns(c) PROVE TypeOK'
  BY <1>6 DEF UnsubscribeReturns, FlowOK, DataOK, PoolOK, Suspend, Forget, Points,
     Procs
<1>7. CASE Pause
  BY <1>7 DEF Pause, CancelRenewals, FlowOK, DataOK, PoolOK, Wishes
<1>8. CASE Resume
  BY <1>8 DEF Resume, ScheduleRenew, First, FlowOK, DataOK, PoolOK, Wishes
<1>9. ASSUME NEW k \in Keys, CloseService(k) PROVE TypeOK'
  BY <1>9 DEF CloseService, FlowOK, DataOK, PoolOK
<1>10. CASE Rediscover
  BY <1>10 DEF Rediscover, FlowOK, DataOK, PoolOK
<1>11. CASE CameraForgets
  <2>1. spent' \in 0..Budget
    BY <1>11, BoundAssumption DEF CameraForgets, Fault, Spend, DataOK
  <2> QED
    BY <1>11, <2>1 DEF CameraForgets, FlowOK, DataOK, PoolOK
<1>12. CASE UNCHANGED vars
  BY <1>12 DEF vars, FlowOK, DataOK, PoolOK
<1> QED
  BY <1>1, <1>2, <1>3, <1>4, <1>5, <1>6, <1>7, <1>8, <1>9, <1>10, <1>11, <1>12
  DEF Next, ConsumerStep, Procs

\* Type correctness, whatever the numbers of consumers, services and addresses.
THEOREM TypeCorrect == Spec => []TypeOK
<1> QED
  BY TypeInit, TypeStep, PTL DEF Spec

-----------------------------------------------------------------------------
(* One timer.  However a step touches the timers, it is in one of four ways, *)
(* and none of them leaves a timer behind that the manager cannot cancel.    *)

TimersMove ==
    \/ UNCHANGED timerVars
    \/ CancelRenewals
    \/ ScheduleRenew
    \/ handle' = handle /\ \E h \in armed : armed' = armed \ {h}

LEMMA StartStepTimers ==
    ASSUME NEW p \in Procs, StartStep(p)
    PROVE  TimersMove
<1>1. CASE MakeService(p)
  BY <1>1 DEF MakeService, MakeUnsupported, MakeReuse, MakeFresh, MakeReplace,
     StartRaises, EndTask, EndStart, TimersMove
<1>2. CASE StartReturns(p) \/ StartRaises(p) \/ UNCHANGED timerVars
  BY <1>2 DEF StartReturns, StartRaises, EndTask, EndStart, TimersMove
<1> QED
  BY <1>1, <1>2 DEF StartStep, CheckTimes, OpenEvents, SubscribeAnswered,
     SubscribeUnusable, SubscribeFails, ServiceClosed, TimesSound,
     TimesBroken, TimesMixed, FixAnswered, FixFails

LEMMA TaskStepTimers ==
    ASSUME NEW t \in Tasks, TaskStep(t)
    PROVE  TimersMove
<1>1. CASE EndTask(t) \/ Restart(t) \/ UNCHANGED timerVars
  BY <1>1 DEF EndTask, Restart, TimersMove
<1> QED
  BY <1>1 DEF TaskStep, TaskGivesUp, TaskRestarts, TaskRenews, BackoffOver,
     SendRenew, RenewAnswered, RenewRetried, RenewFails, RenewEscapes, TaskCancelled

LEMMA NextTimers == [Next]_vars => TimersMove
<1> SUFFICES ASSUME [Next]_vars PROVE TimersMove
  OBVIOUS
<1>1. ASSUME NEW h \in Timers, TimerFires(h) PROVE TimersMove
  BY <1>1 DEF TimerFires, TimersMove
<1>2. ASSUME NEW t \in Tasks, TaskStep(t) PROVE TimersMove
  BY <1>2, TaskStepTimers
<1>3. ASSUME NEW p \in Procs, StartStep(p) PROVE TimersMove
  BY <1>3, StartStepTimers
<1>4. ASSUME NEW c \in Consumers,
             Start(c) \/ Stop(c) \/ Shutdown(c) \/ UnsubscribeReturns(c)
      PROVE  TimersMove
  BY <1>4 DEF Start, Stop, Shutdown, StopBody, UnsubscribeReturns, TimersMove
<1>5. CASE Pause \/ Resume \/ (\E k \in Keys : CloseService(k)) \/ Rediscover
           \/ CameraForgets
  BY <1>5 DEF Pause, Resume, CloseService, Rediscover, CameraForgets, TimersMove
<1>6. CASE UNCHANGED vars
  BY <1>6 DEF vars, TimersMove
<1> QED
  BY <1>1, <1>2, <1>3, <1>4, <1>5, <1>6 DEF Next, ConsumerStep, Procs

\* Every timer the event loop holds is the one that pause(), stop() and
\* shutdown() cancel, even when start() and resume() run beside a background task.
THEOREM OneTimer == Spec => []SingleTimer
<1>1. Init => SingleTimer
  BY DEF Init, SingleTimer
<1>2. SingleTimer /\ [Next]_vars => SingleTimer'
  BY NextTimers DEF SingleTimer, TimersMove, CancelRenewals, ScheduleRenew, timerVars
<1> QED
  BY <1>1, <1>2, PTL DEF Spec

-----------------------------------------------------------------------------
(* One background task.  A step makes at most one task leave "idle", and only *)
(* TimerFires() does, when none is at work.                                   *)

LEMMA StartStepLocal ==
    ASSUME NEW p \in Procs, StartStep(p), cancelled \subseteq Tasks
    PROVE  /\ Active(p) /\ taskRef' = taskRef /\ shutdown' = shutdown
           /\ turn' \in {p, None}
           /\ \E point \in Points :
                /\ pc' = [pc EXCEPT ![p] = point]
                /\ \/ point = "idle" /\ cancelled' = cancelled \ {p}
                   \/ point # "idle" /\ cancelled' = cancelled
<1> USE DEF Active, Points, StartPoints
<1>0. p \in Consumers => cancelled \ {p} = cancelled
  BY IdentityAssumption
<1>1. CASE MakeService(p)
  BY <1>0, <1>1 DEF MakeService, MakeUnsupported, MakeReuse, MakeFresh, MakeReplace, Build,
     StartRaises, EndTask, EndStart, Suspend, Continue, AfterMake
<1>2. CASE ServiceClosed(p)
  BY <1>0, <1>2 DEF ServiceClosed, Build, Continue, AfterMake
<1>3. CASE OpenEvents(p) \/ SubscribeAnswered(p) \/ SubscribeUnusable(p) \/ TimesBroken(p)
  BY <1>0, <1>3 DEF OpenEvents, SubscribeAnswered, SubscribeUnusable, TimesBroken, StartRaises, EndTask,
     EndStart, Suspend, Continue
<1>4. CASE SubscribeFails(p) \/ TimesSound(p) \/ TimesMixed(p)
  BY <1>0, <1>4 DEF SubscribeFails, TimesSound, TimesMixed, StartReturns,
     StartRaises, EndTask, EndStart, Suspend
<1>5. CASE FixAnswered(p) \/ FixFails(p)
  BY <1>0, <1>5 DEF FixAnswered, FixFails, StartReturns, StartRaises, EndTask, EndStart, Suspend
<1> QED
  BY <1>1, <1>2, <1>3, <1>4, <1>5 DEF StartStep, CheckTimes

LEMMA TaskStepLocal ==
    ASSUME NEW t \in Tasks, TaskStep(t), t \in cancelled => Active(t)
    PROVE  /\ Active(t) /\ taskRef' = taskRef /\ shutdown' = shutdown
           /\ turn' \in {t, None}
           /\ \E point \in Points :
                /\ pc' = [pc EXCEPT ![t] = point]
                /\ \/ point = "idle" /\ cancelled' = cancelled \ {t}
                   \/ point # "idle" /\ cancelled' = cancelled
<1> USE DEF Active, Points, StartPoints, RenewPoints
<1>1. CASE TaskGivesUp(t) \/ TaskRestarts(t) \/ TaskRenews(t) \/ BackoffOver(t)
  BY <1>1 DEF TaskGivesUp, TaskRestarts, TaskRenews, BackoffOver, SendRenew, Restart,
     Suspend, Continue
<1>2. CASE RenewAnswered(t) \/ RenewRetried(t) \/ RenewFails(t) \/ RenewEscapes(t)
  BY <1>2 DEF RenewAnswered, RenewRetried, RenewFails, RenewEscapes, Restart, EndTask,
     Suspend, Continue
<1>3. CASE TaskCancelled(t)
  BY <1>3 DEF TaskCancelled, EndTask, Suspend
<1> QED
  BY <1>1, <1>2, <1>3 DEF TaskStep

\* A CancelledError is on its way to unfinished tasks only
CancelledActive == \A t \in cancelled : t \in Tasks /\ Active(t)

\* After shutdown() every task past its first check is about to be cancelled and
\* none is in the middle of a segment
NoneAtWork ==
    shutdown => /\ turn \notin Tasks
                /\ \A t \in Tasks : pc[t] \notin {"idle", "spawned"} => t \in cancelled

LEMMA ShutdownStopsStart ==
    ASSUME NoneAtWork, shutdown, NEW t \in Tasks
    PROVE  ~StartStep(t)
  BY DEF NoneAtWork, StartStep, CheckTimes, OpenEvents, SubscribeAnswered,
     SubscribeUnusable, SubscribeFails, MakeService, ServiceClosed, TimesSound,
     TimesBroken, TimesMixed, FixAnswered, FixFails

LEMMA ShutdownStopsTask ==
    ASSUME NoneAtWork, shutdown, NEW t \in Tasks, TaskStep(t)
    PROVE  /\ pc' = [pc EXCEPT ![t] = "idle"] /\ turn' = None
           /\ UNCHANGED <<armed, handle, wish>>
<1>1. TaskGivesUp(t) \/ TaskCancelled(t)
  BY DEF NoneAtWork, TaskStep, TaskGivesUp, TaskRestarts, TaskRenews, BackoffOver,
     RenewAnswered, RenewRetried, RenewFails, RenewEscapes, MayWork, RenewPoints
<1> QED
  BY <1>1 DEF TaskGivesUp, TaskCancelled, EndTask, MayRearm, timerVars, ghostVars,
     Suspend

TaskInv == TypeOK /\ SingleTask /\ CancelledActive /\ NoneAtWork

LEMMA TaskInvStep == TaskInv /\ [Next]_vars => TaskInv'
<1> SUFFICES ASSUME TaskInv, [Next]_vars
             PROVE  SingleTask' /\ CancelledActive' /\ NoneAtWork'
  BY TypeStep DEF TaskInv
<1> DEFINE Goal == SingleTask' /\ CancelledActive' /\ NoneAtWork'
<1> USE DEF Active
<1>0. /\ pc \in [Procs -> Points] /\ taskRef \in Tasks \cup {None}
      /\ cancelled \subseteq Tasks
      /\ SingleTask /\ CancelledActive /\ NoneAtWork
      /\ None \notin Tasks /\ \A c \in Consumers : c \notin Tasks
      /\ Tasks \subseteq Procs /\ Consumers \subseteq Procs
  BY IdentityAssumption DEF TaskInv, TypeOK, Procs
<1>1. ASSUME NEW h \in Timers, TimerFires(h) PROVE Goal
  <2>1. CASE TaskInProgress
    BY <1>0, <1>1, <2>1 DEF TimerFires, SingleTask, CancelledActive, NoneAtWork
  <2>2. CASE ~TaskInProgress
    <3>1. \A t \in Tasks : pc[t] = "idle"
      BY <1>0, <2>2 DEF TaskInProgress, SingleTask
    <3>2. PICK t \in Tasks : pc' = [pc EXCEPT ![t] = "spawned"] /\ taskRef' = t
      BY <1>1, <2>2 DEF TimerFires
    <3> QED
      BY <1>0, <1>1, <3>1, <3>2 DEF TimerFires, SingleTask, CancelledActive, NoneAtWork
  <2> QED
    BY <2>1, <2>2
<1>2. ASSUME NEW t \in Tasks, TaskStep(t) PROVE Goal
  <2>1. PICK point \in Points :
          /\ pc' = [pc EXCEPT ![t] = point]
          /\ \/ point = "idle" /\ cancelled' = cancelled \ {t}
             \/ point # "idle" /\ cancelled' = cancelled
    BY <1>0, <1>2, TaskStepLocal DEF CancelledActive
  <2>2. /\ pc[t] # "idle" /\ taskRef' = taskRef /\ shutdown' = shutdown
        /\ turn' \in {t, None}
    BY <1>0, <1>2, TaskStepLocal DEF CancelledActive
  <2>3. SingleTask' /\ CancelledActive'
    BY <1>0, <2>1, <2>2 DEF SingleTask, CancelledActive
  <2>4. NoneAtWork'
    BY <1>0, <1>2, <2>1, <2>2, ShutdownStopsTask DEF NoneAtWork
  <2> QED
    BY <2>3, <2>4
<1>3. ASSUME NEW p \in Procs, StartStep(p) PROVE Goal
  <2>1. PICK point \in Points :
          /\ pc' = [pc EXCEPT ![p] = point]
          /\ \/ point = "idle" /\ cancelled' = cancelled \ {p}
             \/ point # "idle" /\ cancelled' = cancelled
    BY <1>0, <1>3, StartStepLocal
  <2>2. /\ pc[p] # "idle" /\ taskRef' = taskRef /\ shutdown' = shutdown
        /\ turn' \in {p, None}
    BY <1>0, <1>3, StartStepLocal
  <2>3. SingleTask' /\ CancelledActive'
    BY <1>0, <2>1, <2>2 DEF SingleTask, CancelledActive
  <2>4. shutdown => p \notin Tasks
    BY <1>0, <1>3, ShutdownStopsStart
  <2>5. NoneAtWork'
    BY <1>0, <2>1, <2>2, <2>4 DEF NoneAtWork
  <2> QED
    BY <2>3, <2>5
<1>4. ASSUME NEW c \in Consumers, Start(c) \/ UnsubscribeReturns(c) \/ Stop(c)
      PROVE  Goal
  <2>1. /\ UNCHANGED <<shutdown, taskRef, cancelled>> /\ turn' \in {c, None}
        /\ pc' = pc \/ \E point \in Points : pc' = [pc EXCEPT ![c] = point]
    BY <1>4 DEF Start, UnsubscribeReturns, Stop, StopBody, Continue, Suspend, Points,
       StartPoints
  <2> QED
    BY <1>0, <2>1 DEF SingleTask, CancelledActive, NoneAtWork
<1>5. ASSUME NEW c \in Consumers, Shutdown(c) PROVE Goal
  <2>1. /\ taskRef' = taskRef /\ turn' = None
        /\ cancelled' = IF TaskInProgress THEN cancelled \cup {taskRef} ELSE cancelled
        /\ pc' = pc \/ pc' = [pc EXCEPT ![c] = "unsubscribe"]
    BY <1>5 DEF Shutdown, StopBody, Suspend
  <2> QED
    BY <1>0, <2>1 DEF TaskInProgress, SingleTask, CancelledActive, NoneAtWork
<1>6. CASE UNCHANGED <<shutdown, taskRef, pc, cancelled, turn>>
  BY <1>0, <1>6 DEF SingleTask, CancelledActive, NoneAtWork
<1>7. CASE Pause \/ Resume \/ (\E k \in Keys : CloseService(k)) \/ Rediscover
           \/ CameraForgets \/ UNCHANGED vars
  BY <1>6, <1>7 DEF Pause, Resume, CloseService, Rediscover, CameraForgets, vars
<1> QED
  BY <1>1, <1>2, <1>3, <1>4, <1>5, <1>7 DEF Next, ConsumerStep, Procs

LEMMA TaskInvariant == Spec => []TaskInv
<1>1. Init => TaskInv
  <2>1. Init => SingleTask /\ CancelledActive /\ NoneAtWork
    BY DEF Init, SingleTask, CancelledActive, NoneAtWork, Active, Procs
  <2> QED
    BY <2>1, TypeInit DEF TaskInv
<1> QED
  BY <1>1, TaskInvStep, PTL DEF Spec

\* The only background task that is not done is the one shutdown() cancels.
THEOREM OneTask == Spec => []SingleTask
<1>1. TaskInv => SingleTask
  BY DEF TaskInv
<1> QED
  BY <1>1, TaskInvariant, PTL

\* No background task sends a request once shutdown() has run, whatever the task
\* was waiting for and whatever the consumer calls afterwards.
THEOREM QuietAfterShutdown == Spec => ShutdownQuiet
<1> DEFINE Quiet == \A t \in Tasks :
              shutdown /\ pc'[t] \in RequestPoints => pc'[t] = pc[t]
<1>1. TaskInv /\ [Next]_vars => [Quiet]_vars
  <2> SUFFICES ASSUME TaskInv, [Next]_vars, NEW t \in Tasks, shutdown,
                      pc'[t] \in RequestPoints
               PROVE  pc'[t] = pc[t]
    OBVIOUS
  <2> USE DEF RequestPoints, RenewPoints
  <2>0. /\ pc \in [Procs -> Points] /\ cancelled \subseteq Tasks
        /\ CancelledActive /\ NoneAtWork
        /\ Tasks \subseteq Procs /\ Consumers \subseteq Procs
        /\ \A c \in Consumers : c # t
    BY IdentityAssumption DEF TaskInv, TypeOK, Procs
  <2>1. ASSUME NEW h \in Timers, TimerFires(h) PROVE pc'[t] = pc[t]
    BY <2>0, <2>1 DEF TimerFires
  <2>2. ASSUME NEW u \in Tasks, TaskStep(u) PROVE pc'[t] = pc[t]
    BY <2>0, <2>2, ShutdownStopsTask
  <2>3. ASSUME NEW p \in Procs, StartStep(p) PROVE pc'[t] = pc[t]
    <3>1. p # t
      BY <2>0, <2>3, ShutdownStopsStart
    <3>2. PICK point \in Points : pc' = [pc EXCEPT ![p] = point]
      BY <2>0, <2>3, StartStepLocal
    <3> QED
      BY <2>0, <3>1, <3>2
  <2>4. ASSUME NEW c \in Consumers,
               Start(c) \/ UnsubscribeReturns(c) \/ Stop(c) \/ Shutdown(c)
        PROVE  pc'[t] = pc[t]
    <3>1. pc' = pc \/ \E point \in Points : pc' = [pc EXCEPT ![c] = point]
      BY <2>4 DEF Start, UnsubscribeReturns, Stop, Shutdown, StopBody, Continue,
         Suspend, Points, StartPoints
    <3> QED
      BY <2>0, <3>1
  <2>5. CASE Pause \/ Resume \/ (\E k \in Keys : CloseService(k)) \/ Rediscover
             \/ CameraForgets \/ UNCHANGED vars
    BY <2>5 DEF Pause, Resume, CloseService, Rediscover, CameraForgets, vars
  <2> QED
    BY <2>1, <2>2, <2>3, <2>4, <2>5 DEF Next, ConsumerStep, Procs
<1> QED
  BY <1>1, TaskInvariant, PTL DEF Spec, ShutdownQuiet

-----------------------------------------------------------------------------
(* No timer after shutdown(), for a manager that create_*_manager() gave out: *)
(* then the only start() is over before anybody can call shutdown().          *)

FirstStart ==
    /\ \A c \in Consumers : pc[c] \in StartPoints => wish = "starting"
    /\ \A c, d \in Consumers :
          pc[c] \in StartPoints /\ pc[d] \in StartPoints => c = d

LEMMA ConsumerStartWish ==
    ASSUME NEW c \in Consumers, StartStep(c)
    PROVE  \/ wish' = wish
           \/ pc' = [pc EXCEPT ![c] = "idle"] /\ wish' \in {"off", "run"}
<1>1. c \notin Tasks
  BY IdentityAssumption
<1>2. CASE MakeService(c)
  BY <1>1, <1>2 DEF MakeService, MakeUnsupported, MakeReuse, MakeFresh, MakeReplace,
     StartRaises, EndStart, Suspend
<1>3. CASE ServiceClosed(c) \/ SubscribeAnswered(c) \/ SubscribeUnusable(c)
           \/ TimesBroken(c)
  BY <1>3 DEF ServiceClosed, SubscribeAnswered, SubscribeUnusable, TimesBroken, ghostVars
<1>4. CASE OpenEvents(c) \/ SubscribeFails(c)
  BY <1>1, <1>4 DEF OpenEvents, SubscribeFails, StartRaises, EndStart, Suspend
<1>5. CASE TimesSound(c) \/ TimesMixed(c) \/ FixAnswered(c) \/ FixFails(c)
  BY <1>1, <1>5 DEF TimesSound, TimesMixed, FixAnswered, FixFails,
     StartReturns, StartRaises, EndStart, Suspend
<1> QED
  BY <1>2, <1>3, <1>4, <1>5 DEF StartStep, CheckTimes

LEMMA TaskWish ==
    ASSUME NEW t \in Tasks, TaskStep(t) \/ StartStep(t)
    PROVE  wish' = wish
<1>1. t \notin Consumers
  BY IdentityAssumption
<1>2. CASE TaskStep(t)
  BY <1>2 DEF TaskStep, TaskGivesUp, TaskRestarts, TaskRenews, BackoffOver, SendRenew,
     RenewAnswered, RenewRetried, RenewFails, RenewEscapes, TaskCancelled, ghostVars
<1>3. CASE MakeService(t)
  BY <1>1, <1>3 DEF MakeService, MakeUnsupported, MakeReuse, MakeFresh, MakeReplace,
     StartRaises
<1>4. CASE ServiceClosed(t) \/ SubscribeAnswered(t) \/ SubscribeUnusable(t)
           \/ TimesBroken(t)
  BY <1>4 DEF ServiceClosed, SubscribeAnswered, SubscribeUnusable, TimesBroken, ghostVars
<1>5. CASE OpenEvents(t) \/ SubscribeFails(t)
  BY <1>1, <1>5 DEF OpenEvents, SubscribeFails, StartRaises
<1>6. CASE TimesSound(t) \/ TimesMixed(t) \/ FixAnswered(t) \/ FixFails(t)
  BY <1>1, <1>6 DEF TimesSound, TimesMixed, FixAnswered, FixFails,
     StartReturns, StartRaises
<1> QED
  BY <1>2, <1>3, <1>4, <1>5, <1>6 DEF StartStep, CheckTimes

FactoryInv == TaskInv /\ SingleTimer /\ FirstStart /\ ShutdownDisarms

LEMMA FactoryStep ==
    ASSUME Factory, FactoryInv, [Next]_vars
    PROVE  FirstStart' /\ ShutdownDisarms'
<1> DEFINE Goal == FirstStart' /\ ShutdownDisarms'
<1>0. /\ pc \in [Procs -> Points] /\ cancelled \subseteq Tasks
      /\ CancelledActive /\ NoneAtWork /\ SingleTimer /\ FirstStart /\ ShutdownDisarms
      /\ Tasks \subseteq Procs /\ Consumers \subseteq Procs
      /\ \A c \in Consumers : c \notin Tasks
  BY IdentityAssumption DEF FactoryInv, TaskInv, TypeOK, Procs
<1>1. ASSUME NEW h \in Timers, TimerFires(h) PROVE Goal
  <2>1. \A c \in Consumers : pc'[c] = pc[c]
    BY <1>0, <1>1 DEF TimerFires
  <2>2. UNCHANGED <<wish, shutdown>> /\ armed' \subseteq armed
    BY <1>1 DEF TimerFires, ghostVars
  <2> QED
    BY <1>0, <2>1, <2>2 DEF FirstStart, ShutdownDisarms
<1>2. ASSUME NEW t \in Tasks, TaskStep(t) \/ StartStep(t) PROVE Goal
  <2>1. t \in cancelled => Active(t)
    BY <1>0 DEF CancelledActive
  <2>2. /\ shutdown' = shutdown
        /\ \E point \in Points : pc' = [pc EXCEPT ![t] = point]
    BY <1>0, <1>2, <2>1, StartStepLocal, TaskStepLocal
  <2>3. \A c \in Consumers : pc'[c] = pc[c]
    BY <1>0, <2>2
  <2>4. wish' = wish
    BY <1>2, TaskWish
  <2>5. shutdown => armed' = armed
    BY <1>0, <1>2, ShutdownStopsStart, ShutdownStopsTask
  <2> QED
    BY <1>0, <2>2, <2>3, <2>4, <2>5 DEF FirstStart, ShutdownDisarms
<1>3. ASSUME NEW c \in Consumers, StartStep(c) PROVE Goal
  <2>1. pc[c] \in StartPoints
    BY <1>3 DEF StartStep, CheckTimes, OpenEvents, SubscribeAnswered, SubscribeUnusable,
       SubscribeFails, MakeService, ServiceClosed, TimesSound, TimesBroken,
       TimesMixed, FixAnswered, FixFails, StartPoints
  <2>2. wish = "starting" /\ \A d \in Consumers : pc[d] \in StartPoints => d = c
    BY <1>0, <2>1 DEF FirstStart
  <2>3. PICK point \in Points : pc' = [pc EXCEPT ![c] = point]
    BY <1>0, <1>3, StartStepLocal
  <2>4. \A d \in Consumers : pc'[d] \in StartPoints => d = c
    BY <1>0, <2>2, <2>3
  <2>5. \/ wish' = "starting"
        \/ wish' \in {"off", "run"} /\ pc'[c] = "idle"
    BY <1>0, <1>3, <2>2, ConsumerStartWish
  <2> QED
    BY <2>4, <2>5 DEF FirstStart, ShutdownDisarms, StartPoints
<1>4. ASSUME NEW c \in Consumers, Start(c) PROVE Goal
  <2>1. /\ wish = "off" /\ wish' = "starting"
        /\ pc' = [pc EXCEPT ![c] = "events"]
    BY <1>4 DEF Start, Continue
  <2>2. \A d \in Consumers : pc'[d] \in StartPoints => d = c
    BY <1>0, <2>1 DEF FirstStart
  <2> QED
    BY <2>1, <2>2 DEF FirstStart, ShutdownDisarms
<1>5. ASSUME NEW c \in Consumers, Stop(c) \/ Shutdown(c) PROVE Goal
  <2>1. /\ wish # "starting" /\ armed' = armed \ {handle}
        /\ pc' = pc \/ pc' = [pc EXCEPT ![c] = "unsubscribe"]
    BY <1>5 DEF Stop, Shutdown, Handed, StopBody, CancelRenewals, Suspend
  <2>2. \A d \in Consumers : pc'[d] \notin StartPoints
    BY <1>0, <2>1 DEF FirstStart, StartPoints
  <2> QED
    BY <1>0, <2>1, <2>2 DEF FirstStart, SingleTimer, ShutdownDisarms
<1>6. ASSUME NEW c \in Consumers, UnsubscribeReturns(c) PROVE Goal
  BY <1>0, <1>6 DEF UnsubscribeReturns, Suspend, timerVars, ghostVars, FirstStart,
     ShutdownDisarms, StartPoints
<1>7. CASE Pause \/ Resume
  <2>1. /\ wish # "starting" /\ wish' # "stopped" /\ pc' = pc
    BY <1>7 DEF Pause, Resume, Handed
  <2> QED
    BY <1>0, <2>1 DEF FirstStart, ShutdownDisarms
<1>8. CASE (\E k \in Keys : CloseService(k)) \/ Rediscover \/ CameraForgets
           \/ UNCHANGED vars
  <2>1. UNCHANGED <<wish, shutdown, armed, pc>>
    BY <1>8 DEF CloseService, Rediscover, CameraForgets, vars, timerVars, ghostVars
  <2> QED
    BY <1>0, <2>1 DEF FirstStart, ShutdownDisarms
<1> QED
  BY <1>1, <1>2, <1>3, <1>4, <1>5, <1>6, <1>7, <1>8 DEF Next, ConsumerStep

\* shutdown() leaves no timer armed, not even one that a task re-arms while it is
\* being cancelled, if nobody calls start() but create_*_manager().
THEOREM DisarmedAfterShutdown == Factory => (Spec => []ShutdownDisarms)
<1> SUFFICES ASSUME Factory PROVE Spec => []ShutdownDisarms
  OBVIOUS
<1>1. Init => FirstStart /\ ShutdownDisarms
  BY DEF Init, FirstStart, ShutdownDisarms, StartPoints, Procs
<1>2. TaskInv /\ SingleTimer /\ FirstStart /\ ShutdownDisarms /\ [Next]_vars
         => FirstStart' /\ ShutdownDisarms'
  BY FactoryStep DEF FactoryInv
<1> QED
  BY <1>1, <1>2, TaskInvariant, OneTimer, PTL DEF Spec

-----------------------------------------------------------------------------
(* One subscription.  Nobody but the coroutine that is making the services     *)
(* writes the address they are for, as long as create_*_manager() makes the    *)
(* only start() and no update_xaddrs() runs beside it: then a new address      *)
(* reaches both services or neither.                                           *)

Before == wish \in {"off", "starting"}

\* Nothing is scheduled or at work before the first start() has returned
QuietBefore == Before => armed = {} /\ \A t \in Tasks : ~Active(t)

\* Only shutdown() cancels a task
CancelledDown == cancelled # {} => shutdown

HeldFor(k) == IF k = "sub" THEN subscription ELSE service

\* The service the manager holds for k is at the address of the last subscription
Fresh(k) == HeldFor(k) # None /\ svc[HeldFor(k)].addr = xaddr

Held == subscription # None /\ service # None
Paired == Held => svc[subscription].addr = svc[service].addr
Current == Paired /\ (Held => xaddr \in {None, svc[subscription].addr})

\* What a coroutine in the middle of making the services knows
HalfPoints == {"make2", "closing2"}
MakePoints == {"make1", "closing1"} \cup HalfPoints

Knows(p) ==
    /\ pc[p] \in MakePoints \ {"make1"} => xaddr # None
    /\ pc[p] \in {"closing1", "closing2"} => want[p] = xaddr
    /\ pc[p] \in HalfPoints => Fresh(KeyAt("make1"))

Making == \E p \in Procs : pc[p] \in MakePoints
Half == \E p \in Procs : pc[p] \in HalfPoints

HeldInv ==
    /\ ~Making => Current
    /\ ~Half => Paired
    /\ \A p \in Procs : Knows(p)

AddressInv == QuietBefore /\ CancelledDown /\ (~shutdown => HeldInv)


LEMMA Keys12 ==
    /\ KeyAt("make1") \in Keys /\ KeyAt("closing1") = KeyAt("make1")
    /\ KeyAt("make2") \in Keys /\ KeyAt("closing2") = KeyAt("make2")
    /\ KeyAt("make1") # KeyAt("make2")
  BY DEF KeyAt, Keys

\* Only one coroutine is inside _start()
LEMMA OneStarter ==
    ASSUME TaskInv, FirstStart, QuietBefore,
           NEW p \in Procs, NEW q \in Procs, pc[p] \in StartPoints, pc[q] \in StartPoints
    PROVE  p = q
<1>1. Active(p) /\ Active(q)
  BY DEF Active, StartPoints
<1>2. \A c \in Consumers : pc[c] \in StartPoints => \A t \in Tasks : ~Active(t)
  BY DEF FirstStart, QuietBefore, Before
<1> QED
  BY <1>1, <1>2 DEF Procs, TaskInv, SingleTask, FirstStart

\* The addresses of the services are what they were
SameAddresses ==
    /\ UNCHANGED <<subscription, service, xaddr>>
    /\ \A s \in Svc : svc'[s].addr = svc[s].addr

LEMMA SameHeld ==
    ASSUME TypeOK, SameAddresses
    PROVE  /\ Paired' <=> Paired
           /\ Current' <=> Current
           /\ Fresh(KeyAt("make1"))' <=> Fresh(KeyAt("make1"))
<1>1. Held' <=> Held
  BY DEF SameAddresses, Held
<1>2. /\ subscription # None => svc'[subscription].addr = svc[subscription].addr
      /\ service # None => svc'[service].addr = svc[service].addr
  BY DEF TypeOK, SameAddresses
<1>3. Fresh(KeyAt("make1"))' <=> Fresh(KeyAt("make1"))
  BY <1>2 DEF SameAddresses, Fresh, HeldFor
<1> QED
  BY <1>1, <1>2, <1>3 DEF SameAddresses, Paired, Current, Held

\* Steps beside the coroutine that makes the services
LEMMA AsideHeld ==
    ASSUME TypeOK, HeldInv, SameAddresses,
           \A q \in Procs : pc[q] \in MakePoints \/ pc'[q] \in MakePoints
                               => pc'[q] = pc[q] /\ want'[q] = want[q]
    PROVE  HeldInv'
<1>1. Making' <=> Making
  BY DEF Making
<1>2. Half' <=> Half
  BY DEF Half, MakePoints
<1>3. ASSUME NEW q \in Procs PROVE Knows(q)'
  <2>1. CASE pc'[q] \notin MakePoints
    BY <2>1 DEF Knows, MakePoints, HalfPoints
  <2>2. CASE pc'[q] \in MakePoints
    <3>1. pc'[q] = pc[q] /\ want'[q] = want[q] /\ Knows(q) /\ xaddr' = xaddr
      BY <2>2 DEF HeldInv, SameAddresses
    <3> QED
      BY <3>1, SameHeld DEF Knows
  <2> QED
    BY <2>1, <2>2
<1> QED
  BY <1>1, <1>2, <1>3, SameHeld DEF HeldInv

\* A step of the coroutine that makes them
LEMMA OwnHeld ==
    ASSUME TypeOK, NEW p \in Procs, NEW point, pc' = [pc EXCEPT ![p] = point],
           \A q \in Procs : q # p => pc[q] \notin StartPoints,
           point \notin MakePoints => Current',
           point \notin HalfPoints => Paired',
           Knows(p)'
    PROVE  HeldInv'
<1>1. pc'[p] = point /\ \A q \in Procs : q # p => pc'[q] \notin MakePoints
  BY DEF TypeOK, StartPoints, MakePoints, HalfPoints
<1>2. \A q \in Procs : q # p => Knows(q)'
  BY <1>1 DEF Knows, MakePoints, HalfPoints
<1> QED
  BY <1>1, <1>2 DEF HeldInv, Making, Half, MakePoints

\* The service s, at the address of the subscription, becomes the one for the key at
\* which p is
LEMMA AssignHeld ==
    ASSUME TypeOK, HeldInv, NEW p \in Procs,
           \A q \in Procs : q # p => pc[q] \notin StartPoints,
           pc[p] \in MakePoints, NEW s \in Svc, Assign(KeyAt(pc[p]), s),
           svc'[s].addr = xaddr, xaddr # None, UNCHANGED xaddr,
           \A x \in Svc : x \in {subscription, service} => svc'[x].addr = svc[x].addr,
           pc' = [pc EXCEPT ![p] = AfterMake(pc[p])]
    PROVE  HeldInv'
<1>0. s # None /\ p \in Procs
  BY IdentityAssumption
<1>1. CASE pc[p] \in {"make1", "closing1"}
  <2>1. AfterMake(pc[p]) = "make2" /\ KeyAt(pc[p]) = KeyAt("make1")
    BY <1>1, Keys12 DEF AfterMake
  <2>2. KeyAt("make1") \in {"sub", "pull"}
    BY Keys12 DEF Keys
  <2>3. Fresh(KeyAt("make1"))'
    BY <1>0, <2>1, <2>2 DEF Fresh, HeldFor, Assign
  <2>4. pc'[p] = "make2"
    BY <2>1 DEF TypeOK
  <2>5. Knows(p)'
    BY <2>3, <2>4 DEF Knows
  <2> QED
    BY <2>1, <2>5, OwnHeld DEF HalfPoints, MakePoints
<1>2. CASE pc[p] \in HalfPoints
  <2>1. AfterMake(pc[p]) = "check" /\ KeyAt(pc[p]) = KeyAt("make2")
    BY <1>2, Keys12 DEF AfterMake, HalfPoints
  <2>2. Fresh(KeyAt("make1"))
    BY <1>2 DEF HeldInv, Knows
  <2>3. KeyAt("make1") \in {"sub", "pull"} /\ KeyAt("make2") \in {"sub", "pull"}
        /\ KeyAt("make1") # KeyAt("make2")
    BY Keys12 DEF Keys
  <2>4. /\ subscription' # None /\ svc'[subscription'].addr = xaddr
        /\ service' # None /\ svc'[service'].addr = xaddr
    <3>1. CASE KeyAt("make1") = "sub"
      <4>1. service' = s /\ subscription' = subscription
        BY <2>1, <2>3, <3>1 DEF Assign
      <4>2. subscription \in Svc /\ svc[subscription].addr = xaddr
        BY <2>2, <3>1 DEF Fresh, HeldFor, TypeOK
      <4>3. svc'[subscription].addr = xaddr
        BY <4>2
      <4> QED
        BY <1>0, <4>1, <4>2, <4>3, IdentityAssumption
    <3>2. CASE KeyAt("make1") = "pull"
      <4>1. subscription' = s /\ service' = service
        BY <2>1, <2>3, <3>2 DEF Assign
      <4>2. service \in Svc /\ svc[service].addr = xaddr
        BY <2>2, <3>2 DEF Fresh, HeldFor, TypeOK
      <4>3. svc'[service].addr = xaddr
        BY <4>2
      <4> QED
        BY <1>0, <4>1, <4>2, <4>3, IdentityAssumption
    <3> QED
      BY <2>3, <3>1, <3>2
  <2>5. Current' /\ Paired'
    BY <2>4 DEF Current, Paired, Held
  <2>6. pc'[p] = "check"
    BY <2>1 DEF TypeOK
  <2>7. Knows(p)'
    BY <2>6 DEF Knows, MakePoints, HalfPoints
  <2> QED
    BY <2>1, <2>5, <2>7, OwnHeld
<1> QED
  BY <1>1, <1>2 DEF MakePoints

LEMMA BuildHeld ==
    ASSUME TypeOK, HeldInv, NEW p \in Procs,
           \A q \in Procs : q # p => pc[q] \notin StartPoints,
           pc[p] \in MakePoints, Build(p, KeyAt(pc[p]), xaddr), xaddr # None, UNCHANGED xaddr
    PROVE  HeldInv'
<1>1. PICK s \in Svc :
         /\ First(s, Unreferenced)
         /\ svc' = [svc EXCEPT ![s] = [addr |-> xaddr, open |-> TRUE]]
         /\ Assign(KeyAt(pc[p]), s)
         /\ Continue(p, AfterMake(pc[p]))
  BY DEF Build
<1>2. s \notin {subscription, service}
  BY <1>1 DEF First, Unreferenced
<1>3. svc'[s].addr = xaddr /\ \A x \in Svc : x # s => svc'[x].addr = svc[x].addr
  BY <1>1 DEF TypeOK
<1> QED
  BY <1>1, <1>2, <1>3, AssignHeld DEF Continue

LEMMA MakeHeld ==
    ASSUME TypeOK, HeldInv, NEW p \in Procs,
           \A q \in Procs : q # p => pc[q] \notin StartPoints,
           MakeService(p)
    PROVE  HeldInv'
<1>0. pc[p] \in {"make1", "make2"} /\ pc[p] \in MakePoints /\ xaddr' = xaddr /\ Knows(p)
      /\ (pc[p] = "make1" => Paired)
      /\ KeyAt(pc[p]) \in Keys
  <2>1. pc[p] \in {"make1", "make2"} /\ xaddr' = xaddr
    BY DEF MakeService, addrVars
  <2>2. pc[p] = "make1" => ~Half
    BY DEF Half, HalfPoints, StartPoints
  <2> QED
    BY <2>1, <2>2, Keys12 DEF MakePoints, HalfPoints, HeldInv
<1>1. CASE MakeUnsupported(p)
  <2>1. xaddr = None /\ SameAddresses /\ pc' = [pc EXCEPT ![p] = "idle"]
    BY <1>0, <1>1 DEF MakeUnsupported, SameAddresses, attrVars, StartRaises, EndTask,
       EndStart, Suspend
  <2>2. pc[p] = "make1"
    BY <1>0, <2>1 DEF Knows, MakePoints, HalfPoints
  <2>3. Paired' /\ Current'
    BY <1>0, <2>1, <2>2, SameHeld DEF Current, SameAddresses
  <2>4. pc'[p] = "idle"
    BY <2>1 DEF TypeOK
  <2>5. Knows(p)'
    BY <2>4 DEF Knows, MakePoints, HalfPoints
  <2> QED
    BY <2>1, <2>3, <2>5, OwnHeld
<1>2. CASE MakeReuse(p)
  <2>1. /\ services[KeyAt(pc[p])] \in Svc /\ svc[services[KeyAt(pc[p])]].addr = xaddr
        /\ xaddr # None /\ svc' = svc /\ Assign(KeyAt(pc[p]), services[KeyAt(pc[p])])
        /\ pc' = [pc EXCEPT ![p] = AfterMake(pc[p])]
    BY <1>0, <1>2 DEF MakeReuse, Reusable, Continue, TypeOK
  <2> QED
    BY <1>0, <2>1, AssignHeld
<1>3. CASE MakeFresh(p)
  BY <1>0, <1>3, BuildHeld DEF MakeFresh
<1>4. CASE MakeReplace(p)
  <2> DEFINE point == IF pc[p] = "make1" THEN "closing1" ELSE "closing2"
  <2>1. /\ xaddr # None /\ want' = [want EXCEPT ![p] = xaddr]
        /\ pc' = [pc EXCEPT ![p] = point] /\ UNCHANGED <<subscription, service>>
    BY <1>4 DEF MakeReplace, Suspend, attrVars
  <2>2. \A s \in Svc : svc'[s].addr = svc[s].addr
    BY <1>0, <1>4 DEF MakeReplace, TypeOK
  <2>3. SameAddresses
    BY <1>0, <2>1, <2>2 DEF SameAddresses
  <2>4. pc'[p] = point /\ want'[p] = xaddr'
    BY <1>0, <2>1 DEF TypeOK
  <2>5. pc[p] = "make2" => Fresh(KeyAt("make1"))'
    BY <1>0, <2>3, SameHeld DEF Knows, HalfPoints
  <2>6. Knows(p)'
    BY <1>0, <2>1, <2>4, <2>5 DEF Knows, HalfPoints
  <2>7. point \notin HalfPoints => Paired'
    BY <1>0, <2>3, SameHeld DEF HalfPoints
  <2> QED
    BY <2>1, <2>6, <2>7, OwnHeld DEF MakePoints, HalfPoints
<1> QED
  BY <1>1, <1>2, <1>3, <1>4 DEF MakeService

LEMMA StartStepHeld ==
    ASSUME TypeOK, HeldInv, NEW p \in Procs, p \notin cancelled,
           \A q \in Procs : q # p => pc[q] \notin StartPoints,
           StartStep(p)
    PROVE  HeldInv'
<1> USE DEF attrVars, poolVars, addrVars
<1>1. CASE MakeService(p)
  BY <1>1, MakeHeld
<1>2. CASE ServiceClosed(p)
  <2>1. pc[p] \in {"closing1", "closing2"} /\ Build(p, KeyAt(pc[p]), want[p])
        /\ xaddr' = xaddr
    BY <1>2 DEF ServiceClosed
  <2>2. want[p] = xaddr /\ xaddr # None /\ pc[p] \in MakePoints
    BY <2>1 DEF HeldInv, Knows, MakePoints, HalfPoints
  <2> QED
    BY <2>1, <2>2, BuildHeld
<1>3. CASE SubscribeAnswered(p) \/ SubscribeUnusable(p)
  <2>1. /\ pc[p] = "subscribe" /\ pc' = [pc EXCEPT ![p] = "make1"]
        /\ UNCHANGED <<subscription, service, svc>>
    BY <1>3 DEF SubscribeAnswered, SubscribeUnusable, Continue
  <2>2. ~Half
    BY <2>1 DEF Half, HalfPoints, StartPoints
  <2>3. Paired'
    BY <2>1, <2>2 DEF HeldInv, Paired, Held
  <2>4. pc'[p] = "make1"
    BY <2>1 DEF TypeOK
  <2>5. Knows(p)'
    BY <2>4 DEF Knows, HalfPoints
  <2> QED
    BY <2>1, <2>3, <2>5, OwnHeld DEF MakePoints
<1>4. CASE OpenEvents(p) \/ SubscribeFails(p) \/ CheckTimes(p) \/ FixAnswered(p) \/ FixFails(p)
  <2>1. SameAddresses
    BY <1>4 DEF OpenEvents, SubscribeFails, CheckTimes, TimesSound, TimesBroken, TimesMixed,
       FixAnswered, FixFails, SameAddresses
  <2>2. /\ pc[p] \in {"events", "subscribe", "check", "fixing"}
        /\ \E point \in {"subscribe", "fixing", "idle"} : pc' = [pc EXCEPT ![p] = point]
    BY <1>4 DEF OpenEvents, SubscribeFails, CheckTimes, TimesSound, TimesBroken, TimesMixed,
       FixAnswered, FixFails, StartReturns, StartRaises, EndTask, EndStart, Suspend
  <2>3. /\ pc'[p] \notin MakePoints /\ pc[p] \notin MakePoints
        /\ \A q \in Procs : q # p => pc'[q] = pc[q] /\ pc[q] \notin MakePoints
    BY <2>2 DEF TypeOK, MakePoints, HalfPoints, StartPoints
  <2> QED
    BY <2>1, <2>3, AsideHeld
<1> QED
  BY <1>1, <1>2, <1>3, <1>4 DEF StartStep

LEMMA TaskStepHeld ==
    ASSUME TypeOK, HeldInv, NEW t \in Tasks, TaskStep(t), t \notin cancelled
    PROVE  HeldInv'
<1> USE DEF attrVars, poolVars, addrVars, localVars
<1>1. SameAddresses
  BY DEF TaskStep, TaskGivesUp, TaskRestarts, TaskRenews, BackoffOver, SendRenew,
     RenewAnswered, RenewRetried, RenewFails, RenewEscapes, TaskCancelled, SameAddresses
<1>2. /\ pc[t] \in {"spawned", "backoff", "renew1", "renew2"}
      /\ \E point \in {"idle", "events", "backoff", "renew1", "renew2"} :
            pc' = [pc EXCEPT ![t] = point]
  BY DEF TaskStep, TaskGivesUp, TaskRestarts, TaskRenews, BackoffOver, SendRenew,
     RenewAnswered, RenewRetried, RenewFails, RenewEscapes, TaskCancelled, EndTask, Restart,
     Suspend, Continue, RenewPoints
<1>3. \A q \in Procs : q # t => want'[q] = want[q]
  BY DEF TaskStep, TaskGivesUp, TaskRestarts, TaskRenews, BackoffOver, SendRenew,
     RenewAnswered, RenewRetried, RenewFails, RenewEscapes, TaskCancelled, EndTask, Restart,
     Forget, TypeOK
<1>4. /\ pc'[t] \notin MakePoints /\ pc[t] \notin MakePoints
      /\ \A q \in Procs : q # t => pc'[q] = pc[q]
  BY <1>2 DEF TypeOK, MakePoints, HalfPoints, Procs
<1> QED
  BY <1>1, <1>3, <1>4, AsideHeld

\* A start() of the consumer that comes to its end schedules a renewal or fails
LEMMA ConsumerStartTimers ==
    ASSUME NEW c \in Consumers, StartStep(c)
    PROVE  UNCHANGED armed \/ wish' = IF wish = "starting" THEN "run" ELSE wish
<1>1. c \notin Tasks
  BY IdentityAssumption
<1>2. CASE MakeService(c)
  BY <1>1, <1>2 DEF MakeService, MakeUnsupported, MakeReuse, MakeFresh, MakeReplace,
     StartRaises, EndStart, timerVars
<1>3. CASE ~MakeService(c)
  BY <1>1, <1>3 DEF StartStep, CheckTimes, OpenEvents, SubscribeAnswered, SubscribeUnusable,
     SubscribeFails, ServiceClosed, TimesSound, TimesBroken, TimesMixed, FixAnswered,
     FixFails, StartReturns, StartRaises, EndStart, timerVars
<1> QED
  BY <1>2, <1>3

LEMMA AddressStep ==
    ASSUME Factory, ~Rediscovery, TaskInv, FirstStart, AddressInv, [Next]_vars
    PROVE  AddressInv'
<1> DEFINE Goal == AddressInv'
<1>0. /\ TypeOK /\ pc \in [Procs -> Points] /\ cancelled \subseteq Tasks
      /\ CancelledActive /\ SingleTask /\ QuietBefore /\ CancelledDown
      /\ Tasks \subseteq Procs /\ Consumers \subseteq Procs
      /\ \A c \in Consumers : c \notin Tasks
      /\ ~shutdown => HeldInv /\ cancelled = {}
  BY IdentityAssumption DEF TaskInv, TypeOK, Procs, AddressInv, CancelledDown
<1> USE DEF AddressInv
<1>1. ASSUME NEW h \in Timers, TimerFires(h) PROVE Goal
  <2>1. /\ UNCHANGED <<cancelled, shutdown, want, wish>> /\ SameAddresses
    BY <1>1 DEF TimerFires, SameAddresses, attrVars, poolVars, addrVars, localVars, ghostVars
  <2>2. \A q \in Procs : \/ pc'[q] = pc[q]
                         \/ pc[q] = "idle" /\ pc'[q] = "spawned"
    BY <1>0, <1>1 DEF TimerFires, First, Active
  <2>3. HeldInv => HeldInv'
    BY <1>0, <2>1, <2>2, AsideHeld DEF MakePoints, HalfPoints
  <2>4. QuietBefore'
    BY <1>0, <1>1, <2>1 DEF TimerFires, QuietBefore, Before
  <2> QED
    BY <1>0, <2>1, <2>3, <2>4 DEF CancelledDown
<1>2. ASSUME NEW t \in Tasks, TaskStep(t) \/ StartStep(t) PROVE Goal
  <2>1. t \in cancelled => Active(t)
    BY <1>0 DEF CancelledActive
  <2>2. Active(t) /\ shutdown' = shutdown /\ cancelled' \subseteq cancelled /\ wish' = wish
    BY <1>0, <1>2, <2>1, StartStepLocal, TaskStepLocal, TaskWish
  <2>3. QuietBefore'
    BY <1>0, <2>2 DEF QuietBefore, Before
  <2>4. ASSUME ~shutdown PROVE HeldInv'
    <3>1. CASE TaskStep(t)
      BY <1>0, <2>4, <3>1, TaskStepHeld
    <3>2. CASE StartStep(t)
      <4>1. pc[t] \in StartPoints
        BY <3>2 DEF StartStep, CheckTimes, OpenEvents, SubscribeAnswered, SubscribeUnusable,
           SubscribeFails, MakeService, ServiceClosed, TimesSound, TimesBroken,
           TimesMixed, FixAnswered, FixFails, StartPoints
      <4>2. \A q \in Procs : q # t => pc[q] \notin StartPoints
        BY <1>0, <4>1, OneStarter
      <4> QED
        BY <1>0, <2>4, <3>2, <4>2, StartStepHeld
    <3> QED
      BY <1>2, <3>1, <3>2
  <2> QED
    BY <1>0, <2>2, <2>3, <2>4 DEF CancelledDown
<1>3. ASSUME NEW c \in Consumers, StartStep(c) PROVE Goal
  <2>1. pc[c] \in StartPoints
    BY <1>3 DEF StartStep, CheckTimes, OpenEvents, SubscribeAnswered, SubscribeUnusable,
       SubscribeFails, MakeService, ServiceClosed, TimesSound, TimesBroken,
       TimesMixed, FixAnswered, FixFails, StartPoints
  <2>2. wish = "starting"
    BY <2>1 DEF FirstStart
  <2>3. PICK point \in Points : pc' = [pc EXCEPT ![c] = point]
    BY <1>0, <1>3, StartStepLocal
  <2>4. shutdown' = shutdown /\ cancelled' \subseteq cancelled
    BY <1>0, <1>3, StartStepLocal
  <2>5. QuietBefore'
    <3>1. \A t \in Tasks : pc'[t] = pc[t]
      BY <1>0, <2>3
    <3> QED
      BY <1>0, <1>3, <2>2, <3>1, ConsumerStartTimers DEF QuietBefore, Before, Active
  <2>6. \A q \in Procs : q # c => pc[q] \notin StartPoints
    BY <1>0, <2>1, OneStarter
  <2>7. ~shutdown => HeldInv'
    BY <1>0, <1>3, <2>6, StartStepHeld
  <2> QED
    BY <1>0, <2>4, <2>5, <2>7 DEF CancelledDown
<1>4. ASSUME NEW c \in Consumers, Start(c) PROVE Goal
  <2>1. /\ wish = "off" /\ wish' = "starting" /\ pc' = [pc EXCEPT ![c] = "events"]
        /\ subscription' = None /\ UNCHANGED <<armed, shutdown, cancelled>>
    BY <1>4 DEF Start, Continue, timerVars
  <2>2. \A q \in Procs : pc'[q] \notin MakePoints
    <3>1. \A q \in Procs : pc[q] \notin MakePoints
      BY <1>0, <2>1 DEF FirstStart, QuietBefore, Before, Active, Procs, MakePoints,
         HalfPoints, StartPoints
    <3> QED
      BY <1>0, <2>1, <3>1 DEF MakePoints, HalfPoints
  <2>3. HeldInv'
    BY <2>1, <2>2 DEF HeldInv, Current, Paired, Held, Knows, MakePoints, HalfPoints
  <2>4. QuietBefore'
    BY <1>0, <2>1 DEF QuietBefore, Before, Active
  <2> QED
    BY <1>0, <2>1, <2>3, <2>4 DEF CancelledDown
<1>5. ASSUME NEW c \in Consumers, Stop(c) \/ Shutdown(c) PROVE Goal
  <2>0. wish' = "stopped" /\ UNCHANGED <<want>> /\ SameAddresses
    BY <1>5 DEF Stop, Shutdown, StopBody, Suspend, SameAddresses, attrVars, poolVars, addrVars
  <2>1. \/ pc' = pc
        \/ pc[c] = "idle" /\ pc' = [pc EXCEPT ![c] = "unsubscribe"]
    BY <1>5 DEF Stop, Shutdown, StopBody, Suspend, localVars
  <2>2. \A q \in Procs : \/ pc'[q] = pc[q]
                         \/ pc[q] = "idle" /\ pc'[q] = "unsubscribe"
    BY <1>0, <2>1
  <2>3. HeldInv => HeldInv'
    BY <1>0, <2>0, <2>2, AsideHeld DEF MakePoints, HalfPoints
  <2>4. QuietBefore'
    BY <2>0 DEF QuietBefore, Before
  <2>5. CancelledDown' /\ (~shutdown' => ~shutdown)
    BY <1>0, <1>5 DEF Stop, Shutdown, CancelledDown
  <2> QED
    BY <1>0, <2>3, <2>4, <2>5
<1>6. ASSUME NEW c \in Consumers, UnsubscribeReturns(c) PROVE Goal
  <2>1. /\ pc[c] = "unsubscribe" /\ pc' = [pc EXCEPT ![c] = "idle"] /\ SameAddresses
        /\ UNCHANGED <<shutdown, cancelled, wish, armed>>
        /\ want' = [want EXCEPT ![c] = None]
    BY <1>6 DEF UnsubscribeReturns, Suspend, Forget, SameAddresses, attrVars, poolVars,
       addrVars, ghostVars, timerVars
  <2>2. \A q \in Procs : \/ pc'[q] = pc[q] /\ want'[q] = want[q]
                         \/ pc[q] = "unsubscribe" /\ pc'[q] = "idle"
    BY <1>0, <2>1 DEF TypeOK
  <2>3. HeldInv => HeldInv'
    BY <1>0, <2>1, <2>2, AsideHeld DEF MakePoints, HalfPoints
  <2>4. QuietBefore'
    BY <1>0, <2>1, <2>2 DEF QuietBefore, Before, Active
  <2> QED
    BY <1>0, <2>1, <2>3, <2>4 DEF CancelledDown
<1>7. CASE Pause \/ Resume
  <2>1. /\ wish' \notin {"off", "starting"} /\ SameAddresses
        /\ UNCHANGED <<pc, want, shutdown, cancelled>>
    BY <1>7 DEF Pause, Resume, SameAddresses, attrVars, poolVars, addrVars, localVars
  <2>2. HeldInv => HeldInv'
    BY <1>0, <2>1, AsideHeld
  <2> QED
    BY <1>0, <2>1, <2>2 DEF QuietBefore, Before, CancelledDown
<1>8. CASE (\E k \in Keys : CloseService(k)) \/ CameraForgets \/ UNCHANGED vars
  <2>1. UNCHANGED <<pc, want, shutdown, cancelled, wish, armed>>
    BY <1>8 DEF CloseService, CameraForgets, vars, localVars, timerVars, ghostVars
  <2>2. SameAddresses
    <3>1. CASE svc' = svc
      BY <1>8, <3>1 DEF CloseService, CameraForgets, vars, SameAddresses, attrVars, poolVars,
         addrVars
    <3>2. ASSUME NEW k \in Keys, CloseService(k) PROVE SameAddresses
      BY <1>0, <3>2 DEF CloseService, SameAddresses, attrVars, addrVars, TypeOK
    <3> QED
      BY <1>8, <3>1, <3>2 DEF CameraForgets, vars, poolVars
  <2>3. HeldInv => HeldInv'
    BY <1>0, <2>1, <2>2, AsideHeld
  <2> QED
    BY <1>0, <2>1, <2>3 DEF QuietBefore, Before, Active, CancelledDown
<1>9. ~Rediscover
  BY DEF Rediscover
<1> QED
  BY <1>1, <1>2, <1>3, <1>4, <1>5, <1>6, <1>7, <1>8, <1>9 DEF Next, ConsumerStep

\* If nobody calls start() but create_*_manager() and no update_xaddrs() runs beside the
\* manager, both services it holds are at one address, that of the last subscription the
\* camera gave out, after every start, renewal, restart and failure of one of them.
THEOREM CurrentServices == Factory /\ ~Rediscovery => (Spec => []HeldServicesCurrent)
<1> SUFFICES ASSUME Factory, ~Rediscovery PROVE Spec => []HeldServicesCurrent
  OBVIOUS
<1>1. Init => AddressInv
  <2> SUFFICES ASSUME Init PROVE AddressInv
    OBVIOUS
  <2>1. QuietBefore /\ CancelledDown
    BY DEF Init, QuietBefore, CancelledDown, Active, Procs
  <2>2. HeldInv
    BY DEF Init, HeldInv, Current, Paired, Held, Knows, MakePoints, HalfPoints
  <2> QED
    BY <2>1, <2>2 DEF AddressInv
<1>2. TaskInv /\ FirstStart /\ AddressInv /\ [Next]_vars => AddressInv'
  BY AddressStep
<1>3. AddressInv => HeldServicesCurrent
  BY DEF AddressInv, HeldInv, HeldServicesCurrent, Making, Starting, MakePoints, HalfPoints,
     StartPoints, Current, Paired, Held
<1>4. Init => FirstStart /\ ShutdownDisarms
  BY DEF Init, FirstStart, ShutdownDisarms, StartPoints, Procs
<1>5. TaskInv /\ SingleTimer /\ FirstStart /\ ShutdownDisarms /\ [Next]_vars
         => FirstStart' /\ ShutdownDisarms'
  BY FactoryStep DEF FactoryInv
<1> QED
  BY <1>1, <1>2, <1>3, <1>4, <1>5, TaskInvariant, OneTimer, PTL DEF Spec

=============================================================================
