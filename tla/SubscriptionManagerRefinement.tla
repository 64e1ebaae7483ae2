-------------------- MODULE SubscriptionManagerRefinement --------------------
(***************************************************************************)
(* A manager that create_*_manager() gave out implements RenewalLoop, for  *)
(* every value of the constants: what the timers, the background tasks and *)
(* the coroutines of the consumer amount to is the loop it is promised.    *)
(***************************************************************************)
EXTENDS SubscriptionManagerProofs

-----------------------------------------------------------------------------
(* The finally clause re-arms the timer unless the session of the           *)
(* subscription is closed, so the loop stays alive if only a restart closes  *)
(* that session, and builds another one before it can fail.                  *)

\* p is closing the session of the service at k, which it is about to replace
Replacing(p, k) == pc[p] \in {"closing1", "closing2"} /\ KeyAt(pc[p]) = k

\* The manager holds the two services registered under its binding keys, which are
\* not the same, and their sessions are open unless they are being replaced
SessionInv ==
    /\ cancelled # {} => shutdown
    /\ subscription # None => subscription = services["sub"]
    /\ service # None => service = services["pull"]
    /\ services["sub"] # None => services["sub"] # services["pull"]
    /\ ~shutdown /\ ~consumerClosed =>
          \A k \in Keys : services[k] # None =>
             svc[services[k]].open \/ \E p \in Procs : Replacing(p, k)

\* A step that leaves the services alone
LEMMA ServicesKept ==
    ASSUME SessionInv, subscription' \in {subscription, None},
           service' \in {service, None}, UNCHANGED <<services, svc>>,
           shutdown => shutdown', consumerClosed => consumerClosed',
           cancelled' \subseteq cancelled \/ shutdown',
           ~shutdown' => \A q \in Procs, k \in Keys : Replacing(q, k) => Replacing(q, k)'
    PROVE  SessionInv'
  BY DEF SessionInv

LEMMA BuildKeepsSession ==
    ASSUME TypeOK, SessionInv, NEW p \in Procs, NEW a \in Addr \cup {None},
           pc[p] \in {"make1", "make2", "closing1", "closing2"},
           Build(p, KeyAt(pc[p]), a),
           UNCHANGED <<shutdown, cancelled, consumerClosed>>
    PROVE  SessionInv'
<1>0. PICK k \in Keys : k = KeyAt(pc[p])
  BY KeyAtTyped
<1>1. PICK s \in Svc :
         /\ s \in Unreferenced
         /\ svc' = [svc EXCEPT ![s] = [addr |-> a, open |-> TRUE]]
         /\ services' = [services EXCEPT ![k] = s]
         /\ Assign(k, s)
         /\ pc' = [pc EXCEPT ![p] = AfterMake(pc[p])]
  BY <1>0 DEF Build, First, Continue
<1>2. /\ k \in Keys
      /\ services \in [Keys -> Svc \cup {None}] /\ pc \in [Procs -> Points]
      /\ svc \in [Svc -> [addr : Addr \cup {None}, open : BOOLEAN]]
      /\ None \notin Svc
  BY IdentityAssumption, KeyAtTyped DEF TypeOK
<1>3. \A j \in Keys : services[j] # s
  BY <1>1 DEF Unreferenced
<1>4. PICK j \in Keys : j # k /\ Keys = {j, k}
  BY <1>2 DEF Keys
<1>5. services'[k] = s /\ services'[j] = services[j]
  BY <1>1, <1>2, <1>4
<1>6. svc'[s].open /\ (services[j] # None => svc'[services[j]] = svc[services[j]])
  BY <1>1, <1>2, <1>3
<1>7. \A q \in Procs : Replacing(q, j) => Replacing(q, j)'
  BY <1>0, <1>1, <1>2, <1>4 DEF Replacing
<1>8. /\ k = "sub" => subscription' = s /\ service' = service
      /\ k = "pull" => service' = s /\ subscription' = subscription
  BY <1>1 DEF Assign
<1>9. /\ subscription' # None => subscription' = services'["sub"]
      /\ service' # None => service' = services'["pull"]
      /\ services'["sub"] # None => services'["sub"] # services'["pull"]
  BY <1>3, <1>4, <1>5, <1>8 DEF SessionInv, Keys
<1> QED
  BY <1>4, <1>5, <1>6, <1>7, <1>9 DEF SessionInv

LEMMA ReplaceKeepsSession ==
    ASSUME TypeOK, SessionInv, NEW p \in Procs, MakeService(p), MakeReplace(p)
    PROVE  SessionInv'
<1>0. PICK k \in Keys : k = KeyAt(pc[p])
  BY KeyAtTyped
<1> DEFINE point == IF pc[p] = "make1" THEN "closing1" ELSE "closing2"
<1>1. /\ services[k] # None
      /\ svc' = [svc EXCEPT ![services[k]].open = FALSE]
      /\ pc' = [pc EXCEPT ![p] = point]
      /\ pc[p] \in {"make1", "make2"}
      /\ UNCHANGED <<attrVars, services, shutdown, cancelled, consumerClosed>>
  BY <1>0 DEF MakeReplace, MakeService, Suspend
<1>2. /\ k \in Keys
      /\ services \in [Keys -> Svc \cup {None}] /\ pc \in [Procs -> Points]
      /\ svc \in [Svc -> [addr : Addr \cup {None}, open : BOOLEAN]]
  BY KeyAtTyped DEF TypeOK
<1>3. Replacing(p, k)'
  BY <1>0, <1>1, <1>2 DEF Replacing, KeyAt
<1>4. \A q \in Procs, j \in Keys : Replacing(q, j) => Replacing(q, j)'
  BY <1>1, <1>2 DEF Replacing
<1>5. \A j \in Keys : j # k /\ services[j] # None => svc'[services[j]] = svc[services[j]]
  BY <1>1, <1>2 DEF SessionInv, Keys
<1>6. \A j \in Keys : ~shutdown /\ ~consumerClosed /\ services[j] # None =>
         svc'[services[j]].open \/ \E q \in Procs : Replacing(q, j)'
  BY <1>3, <1>4, <1>5 DEF SessionInv
<1> QED
  BY <1>1, <1>6 DEF SessionInv, attrVars

LEMMA StartKeepsSession ==
    ASSUME TypeOK, SessionInv, NEW p \in Procs, StartStep(p)
    PROVE  SessionInv'
<1>0. /\ cancelled \subseteq Tasks /\ pc \in [Procs -> Points]
      /\ xaddr \in Addr \cup {None} /\ want \in [Procs -> Addr \cup {None}]
  BY DEF TypeOK
<1>1. PICK point \in Points :
        /\ pc' = [pc EXCEPT ![p] = point]
        /\ cancelled' \subseteq cancelled /\ shutdown' = shutdown
  BY <1>0, StartStepLocal
<1>2. CASE pc[p] \notin {"closing1", "closing2"}
           /\ UNCHANGED <<subscription, service, services, svc, consumerClosed>>
  <2>1. \A q \in Procs, k \in Keys : Replacing(q, k) => Replacing(q, k)'
    BY <1>0, <1>1, <1>2 DEF Replacing
  <2> QED
    BY <1>1, <1>2, <2>1, ServicesKept
<1>3. CASE MakeService(p)
  <2>1. pc[p] \in {"make1", "make2"}
        /\ UNCHANGED <<shutdown, consumerClosed>>
    BY <1>3 DEF MakeService
  <2>2. CASE MakeUnsupported(p)
    BY <1>2, <2>1, <2>2 DEF MakeUnsupported, attrVars
  <2>3. CASE MakeReuse(p)
    <3>1. \A q \in Procs, k \in Keys : Replacing(q, k) => Replacing(q, k)'
      BY <1>0, <1>1, <2>1 DEF Replacing
    <3>2. /\ subscription' \in {subscription, services["sub"]}
          /\ service' \in {service, services["pull"]}
      BY <2>3 DEF MakeReuse, Assign
    <3>3. UNCHANGED <<services, svc, cancelled>>
      BY <2>3 DEF MakeReuse
    <3> QED
      BY <1>1, <2>1, <3>1, <3>2, <3>3 DEF SessionInv
  <2>4. CASE MakeFresh(p)
    BY <1>0, <2>1, <2>4, BuildKeepsSession DEF MakeFresh
  <2>5. CASE MakeReplace(p)
    BY <1>3, <2>5, ReplaceKeepsSession
  <2> QED
    BY <1>3, <2>2, <2>3, <2>4, <2>5 DEF MakeService
<1>4. CASE ServiceClosed(p)
  BY <1>0, <1>4, BuildKeepsSession DEF ServiceClosed, ghostVars
<1>5. CASE OpenEvents(p) \/ SubscribeAnswered(p) \/ SubscribeUnusable(p)
           \/ SubscribeFails(p) \/ CheckTimes(p) \/ FixAnswered(p) \/ FixFails(p)
  <2>1. pc[p] \in {"events", "subscribe", "check", "fixing"}
    BY <1>5 DEF OpenEvents, SubscribeAnswered, SubscribeUnusable, SubscribeFails,
       CheckTimes, TimesSound, TimesBroken, TimesMixed, FixAnswered, FixFails
  <2>2. UNCHANGED <<subscription, service, services, svc, consumerClosed>>
    BY <1>5 DEF OpenEvents, SubscribeAnswered, SubscribeUnusable, SubscribeFails,
       CheckTimes, TimesSound, TimesBroken, TimesMixed, FixAnswered, FixFails,
       attrVars, poolVars, ghostVars
  <2> QED
    BY <1>2, <2>1, <2>2
<1> QED
  BY <1>3, <1>4, <1>5 DEF StartStep

LEMMA TaskKeepsSession ==
    ASSUME TypeOK, SessionInv, NEW t \in Tasks, TaskStep(t),
           t \in cancelled => Active(t)
    PROVE  SessionInv'
<1>0. pc \in [Procs -> Points] /\ t \in Procs
  BY DEF TypeOK, Procs
<1>1. PICK point \in Points :
        /\ pc' = [pc EXCEPT ![t] = point]
        /\ cancelled' \subseteq cancelled /\ shutdown' = shutdown
  BY TaskStepLocal
<1>2. UNCHANGED <<subscription, service, services, svc, consumerClosed>>
  BY DEF TaskStep, TaskGivesUp, TaskRestarts, TaskRenews, BackoffOver, SendRenew,
     RenewAnswered, RenewRetried, RenewFails, RenewEscapes, TaskCancelled, attrVars,
     poolVars, ghostVars
<1>3. ~shutdown => pc[t] \notin {"closing1", "closing2"}
  <2>1. ~shutdown => ~TaskCancelled(t)
    BY DEF SessionInv, TaskCancelled
  <2> QED
    BY <2>1 DEF TaskStep, TaskGivesUp, TaskRestarts, TaskRenews, BackoffOver,
       RenewAnswered, RenewRetried, RenewFails, RenewEscapes, RenewPoints
<1>4. ~shutdown' => \A q \in Procs, k \in Keys : Replacing(q, k) => Replacing(q, k)'
  BY <1>0, <1>1, <1>3 DEF Replacing
<1> QED
  BY <1>1, <1>2, <1>4, ServicesKept

LEMMA SessionStep == TaskInv /\ SessionInv /\ [Next]_vars => SessionInv'
<1> SUFFICES ASSUME TaskInv, SessionInv, [Next]_vars PROVE SessionInv'
  OBVIOUS
<1>0. /\ TypeOK /\ pc \in [Procs -> Points] /\ cancelled \subseteq Tasks
      /\ Tasks \subseteq Procs /\ Consumers \subseteq Procs /\ CancelledActive
  BY DEF TaskInv, TypeOK, Procs
<1>1. CASE /\ subscription' \in {subscription, None} /\ service' \in {service, None}
           /\ UNCHANGED <<services, svc, consumerClosed>>
           /\ shutdown => shutdown'
           /\ cancelled' \subseteq cancelled \/ shutdown'
           /\ \A q \in Procs : pc[q] \in {"closing1", "closing2"} => pc'[q] = pc[q]
  BY <1>1, ServicesKept DEF Replacing
<1>2. ASSUME NEW h \in Timers, TimerFires(h) PROVE SessionInv'
  <2>1. \A q \in Procs : pc[q] # "idle" => pc'[q] = pc[q]
    BY <1>0, <1>2 DEF TimerFires, First, Active
  <2> QED
    BY <1>1, <1>2, <2>1 DEF TimerFires, Replacing, attrVars, poolVars, ghostVars
<1>3. ASSUME NEW t \in Tasks, TaskStep(t) PROVE SessionInv'
  BY <1>0, <1>3, TaskKeepsSession DEF CancelledActive
<1>4. ASSUME NEW p \in Procs, StartStep(p) PROVE SessionInv'
  BY <1>0, <1>4, StartKeepsSession
<1>5. ASSUME NEW c \in Consumers,
             Start(c) \/ Stop(c) \/ Shutdown(c) \/ UnsubscribeReturns(c)
      PROVE  SessionInv'
  <2>1. \A q \in Procs : pc[q] \in {"closing1", "closing2"} => pc'[q] = pc[q]
    BY <1>0, <1>5 DEF Start, Stop, Shutdown, StopBody, UnsubscribeReturns, Continue,
       Suspend, Replacing
  <2>2. CASE Start(c) \/ UnsubscribeReturns(c)
    BY <1>1, <2>1, <2>2 DEF Start, UnsubscribeReturns, attrVars, poolVars, ghostVars
  <2>3. CASE Stop(c) \/ Shutdown(c)
    BY <1>1, <2>1, <2>3 DEF Stop, Shutdown, StopBody, attrVars, poolVars
  <2> QED
    BY <1>5, <2>2, <2>3
<1>6. ASSUME NEW k \in Keys, CloseService(k) PROVE SessionInv'
  BY <1>6 DEF CloseService, attrVars, SessionInv
<1>7. CASE Pause \/ Resume \/ Rediscover \/ CameraForgets \/ UNCHANGED vars
  BY <1>1, <1>7 DEF Pause, Resume, Rediscover, CameraForgets, vars, attrVars, poolVars,
     ghostVars
<1> QED
  BY <1>0, <1>2, <1>3, <1>4, <1>5, <1>6, <1>7 DEF Next, ConsumerStep

LEMMA SessionInvariant == Spec => []SessionInv
<1>1. Init => SessionInv
  BY DEF Init, SessionInv, Keys
<1> QED
  BY <1>1, SessionStep, TaskInvariant, PTL DEF Spec

\* However a restart fails, and whoever calls start() beside it, the manager is not
\* left with a service whose session the library has closed: the one it replaces is
\* closed and replaced, or the manager is shut down.
THEOREM SessionsHeldOpen == Spec => []HeldSessionsOpen
<1>1. SessionInv => HeldSessionsOpen
  BY DEF SessionInv, HeldSessionsOpen, Starting, Replacing, StartPoints, Keys
<1> QED
  BY <1>1, SessionInvariant, PTL

-----------------------------------------------------------------------------
(* The steps of the manager as RenewalLoop sees them *)

LoopWanted == IF wish \in {"off", "starting"} THEN "none" ELSE wish
LoopStarting == \E c \in Consumers : pc[c] \in StartPoints
LoopLives == armed # {} \/ \E t \in Tasks : Active(t)
LoopRuns == wish = "run" /\ ~shutdown /\ ~consumerClosed

RefInv == Factory /\ FactoryInv /\ SessionInv

LEMMA RefFacts ==
    ASSUME RefInv
    PROVE  /\ TypeOK /\ pc \in [Procs -> Points] /\ cancelled \subseteq Tasks
           /\ SingleTask /\ CancelledActive /\ NoneAtWork /\ SingleTimer
           /\ FirstStart /\ ShutdownDisarms /\ SessionInv /\ Factory
           /\ wish \in Wishes
           /\ Tasks \subseteq Procs /\ Consumers \subseteq Procs
           /\ \A c \in Consumers : c \notin Tasks
  BY IdentityAssumption DEF RefInv, FactoryInv, TaskInv, TypeOK, Procs

\* A task that ends while the loop is to run finds the session open
LEMMA SessionStaysOpen ==
    ASSUME RefInv, LoopRuns, NEW t \in Tasks, Active(t), t \notin cancelled,
           pc[t] \notin {"closing1", "closing2"}
    PROVE  ~SessionClosed
<1> USE RefFacts
<1>1. \A p \in Procs : ~Replacing(p, "sub")
  <2>1. \A u \in Tasks : u # t => pc[u] = "idle"
    BY DEF SingleTask, Active
  <2>2. \A c \in Consumers : pc[c] \notin StartPoints
    BY DEF FirstStart, LoopRuns
  <2> QED
    BY <2>1, <2>2 DEF Procs, Replacing, StartPoints
<1> QED
  BY <1>1 DEF SessionInv, LoopRuns, SessionClosed, Keys

LEMMA RearmsOrRests ==
    ASSUME RefInv, NEW t \in Tasks, Active(t), EndTask(t),
           pc[t] \notin {"closing1", "closing2"} \/ t \in cancelled
    PROVE  LoopRuns => LoopLives'
<1> SUFFICES ASSUME LoopRuns PROVE armed' # {}
  BY DEF LoopLives
<1>1. t \notin cancelled
  BY RefFacts DEF SessionInv, LoopRuns
<1>2. MayRearm
  BY <1>1, SessionStaysOpen DEF MayRearm, LoopRuns
<1> QED
  BY <1>2 DEF EndTask, ScheduleRenew

\* No step of a background task ends the loop
LEMMA TaskKeepsLoop ==
    ASSUME RefInv, NEW t \in Tasks, TaskStep(t) \/ StartStep(t)
    PROVE  /\ Active(t)
           /\ LoopRuns => LoopLives'
<1> USE RefFacts DEF CancelledActive
<1>1. Active(t) /\ \E point \in Points : pc' = [pc EXCEPT ![t] = point]
  BY StartStepLocal, TaskStepLocal
<1>2. CASE pc'[t] # "idle"
  BY <1>1, <1>2 DEF LoopLives, Active
<1>3. ASSUME EndTask(t), pc[t] \notin {"closing1", "closing2"} \/ t \in cancelled
      PROVE  LoopRuns => LoopLives'
  BY <1>1, <1>3, RearmsOrRests
<1>4. CASE TaskGivesUp(t)
  BY <1>1, <1>4, SessionStaysOpen DEF TaskGivesUp, MayWork, LoopRuns
<1>5. CASE TaskCancelled(t)
  BY <1>5 DEF TaskCancelled, SessionInv, LoopRuns
<1>6. CASE TaskStep(t) /\ ~TaskGivesUp(t) /\ ~TaskCancelled(t)
  <2>1. (EndTask(t) /\ pc[t] \in RenewPoints) \/ pc'[t] # "idle"
    BY <1>1, <1>6 DEF TaskStep, TaskRestarts, TaskRenews, BackoffOver, SendRenew,
       RenewAnswered, RenewRetried, RenewFails, RenewEscapes, Restart, Suspend, Continue,
       RenewPoints
  <2> QED
    BY <1>1, <1>2, <1>3, <2>1 DEF RenewPoints
<1>7. CASE StartStep(t)
  <2>1. \/ EndTask(t) /\ pc[t] \notin {"closing1", "closing2"}
        \/ pc'[t] # "idle"
    <3>1. CASE MakeService(t)
      BY <1>1, <3>1 DEF MakeService, MakeUnsupported, MakeReuse, MakeFresh, MakeReplace,
         Build, StartRaises, Continue, Suspend, AfterMake
    <3>2. CASE ServiceClosed(t)
      BY <1>1, <3>2 DEF ServiceClosed, Build, Continue, AfterMake
    <3>3. CASE OpenEvents(t) \/ SubscribeAnswered(t) \/ SubscribeUnusable(t)
               \/ SubscribeFails(t)
      BY <1>1, <3>3 DEF OpenEvents, SubscribeAnswered, SubscribeUnusable,
         SubscribeFails, StartRaises, Continue, Suspend
    <3>4. CASE CheckTimes(t) \/ FixAnswered(t) \/ FixFails(t)
      BY <1>1, <3>4 DEF CheckTimes, TimesSound, TimesBroken, TimesMixed, FixAnswered,
         FixFails, StartReturns, StartRaises, Suspend
    <3> QED
      BY <1>7, <3>1, <3>2, <3>3, <3>4 DEF StartStep
  <2> QED
    BY <1>1, <1>2, <1>3, <2>1
<1> QED
  BY <1>1, <1>4, <1>5, <1>6, <1>7

\* start() goes from one of its points to another, or ends
LEMMA ConsumerPoints ==
    ASSUME RefInv, NEW c \in Consumers, StartStep(c)
    PROVE  pc' = [pc EXCEPT ![c] = "idle"]
              \/ \E point \in StartPoints : pc' = [pc EXCEPT ![c] = point]
<1>0. c \notin Tasks
  BY RefFacts
<1> USE DEF Continue, Suspend, StartPoints, AfterMake, EndStart
<1>1. CASE MakeService(c)
  BY <1>0, <1>1 DEF MakeService, MakeUnsupported, MakeReuse, MakeFresh, MakeReplace,
     Build, StartRaises
<1>2. CASE ServiceClosed(c)
  BY <1>2 DEF ServiceClosed, Build
<1>3. CASE OpenEvents(c) \/ SubscribeAnswered(c) \/ SubscribeUnusable(c)
           \/ SubscribeFails(c)
  BY <1>0, <1>3 DEF OpenEvents, SubscribeAnswered, SubscribeUnusable, SubscribeFails,
     StartRaises
<1>4. CASE CheckTimes(c) \/ FixAnswered(c) \/ FixFails(c)
  BY <1>0, <1>4 DEF CheckTimes, TimesSound, TimesBroken, TimesMixed, FixAnswered,
     FixFails, StartRaises, StartReturns
<1> QED
  BY <1>1, <1>2, <1>3, <1>4 DEF StartStep

\* How start() goes on, fails or returns
LEMMA ConsumerStartMove ==
    ASSUME RefInv, NEW c \in Consumers, StartStep(c)
    PROVE  \/ /\ pc' # [pc EXCEPT ![c] = "idle"]
              /\ UNCHANGED <<armed, wish>>
           \/ EndStart(c)
           \/ StartReturns(c) /\ UNCHANGED <<attrVars, svc, camera>>
<1> USE RefFacts
<1>1. CASE MakeService(c)
  BY <1>1 DEF MakeService, MakeUnsupported, MakeReuse, MakeFresh, MakeReplace, Build,
     StartRaises, Continue, Suspend, AfterMake, timerVars
<1>2. CASE ServiceClosed(c)
  BY <1>2 DEF ServiceClosed, Build, Continue, AfterMake, timerVars, ghostVars
<1>3. CASE OpenEvents(c) \/ SubscribeAnswered(c) \/ SubscribeUnusable(c)
           \/ SubscribeFails(c)
  BY <1>3 DEF OpenEvents, SubscribeAnswered, SubscribeUnusable, SubscribeFails,
     StartRaises, Continue, Suspend, timerVars, ghostVars
<1>4. CASE CheckTimes(c) \/ FixAnswered(c) \/ FixFails(c)
  BY <1>4 DEF CheckTimes, TimesSound, TimesBroken, TimesMixed, FixAnswered, FixFails,
     StartRaises, Suspend, timerVars, ghostVars, poolVars
<1> QED
  BY <1>1, <1>2, <1>3, <1>4 DEF StartStep

-----------------------------------------------------------------------------
(* Each of them is a step of RenewalLoop or changes nothing it can see *)

LoopStep == [Loop!Next]_(Loop!vars)

LEMMA WorkIsLoopStep ==
    ASSUME UNCHANGED <<wish, LoopStarting, shutdown, consumerClosed>>,
           LoopLives \/ LoopStarting,
           LoopLives' = LoopLives \/ (LoopLives /\ ~LoopRuns)
    PROVE  LoopStep
<1>0. Subscribed \in BOOLEAN /\ Subscribed' \in BOOLEAN
  BY DEF Subscribed
<1>1. CASE LoopLives' = LoopLives /\ Subscribed' = Subscribed
  BY <1>1 DEF LoopStep, LoopStarting, LoopLives, Loop!vars
<1>2. CASE LoopLives' = LoopLives /\ Subscribed /\ ~Subscribed'
  BY <1>0, <1>2 DEF LoopStep, LoopStarting, LoopLives, Loop!Next, Loop!Lose
<1>3. CASE LoopLives' = LoopLives /\ ~Subscribed /\ Subscribed'
  BY <1>0, <1>3 DEF LoopStep, LoopStarting, LoopLives, Loop!Next, Loop!Serve
<1>4. CASE LoopLives /\ ~LoopLives' /\ ~LoopRuns
  BY <1>0, <1>4 DEF LoopStep, LoopStarting, LoopLives, LoopRuns, Loop!Next, Loop!Rest,
     Loop!Running
<1> QED
  BY <1>0, <1>1, <1>2, <1>3, <1>4 DEF LoopLives

LEMMA TaskIsLoopStep ==
    ASSUME RefInv, NEW t \in Tasks, TaskStep(t) \/ StartStep(t)
    PROVE  LoopStep
<1> USE RefFacts
<1>1. LoopLives /\ (LoopRuns => LoopLives')
  BY TaskKeepsLoop DEF LoopLives
<1>2. \E point \in Points : pc' = [pc EXCEPT ![t] = point]
  BY StartStepLocal, TaskStepLocal DEF CancelledActive
<1>3. LoopStarting' = LoopStarting
  BY <1>2 DEF LoopStarting
<1>4. UNCHANGED <<shutdown, consumerClosed>>
  <2>1. CASE TaskStep(t)
    BY <2>1 DEF TaskStep, TaskGivesUp, TaskRestarts, TaskRenews, BackoffOver, SendRenew,
       RenewAnswered, RenewRetried, RenewFails, RenewEscapes, TaskCancelled, ghostVars
  <2>2. CASE StartStep(t)
    BY <2>2 DEF StartStep, CheckTimes, OpenEvents, SubscribeAnswered, SubscribeUnusable,
       SubscribeFails, MakeService, ServiceClosed, TimesSound, TimesBroken, TimesMixed,
       FixAnswered, FixFails, ghostVars
  <2> QED
    BY <2>1, <2>2
<1>5. wish' = wish
  BY TaskWish
<1>6. LoopLives' = LoopLives \/ (LoopLives /\ ~LoopRuns)
  BY <1>1 DEF LoopLives
<1> QED
  BY <1>1, <1>3, <1>4, <1>5, <1>6, WorkIsLoopStep

LEMMA StartIsLoopStep ==
    ASSUME RefInv, NEW c \in Consumers, StartStep(c)
    PROVE  LoopStep
<1> USE RefFacts
<1>1. PICK point \in Points : pc' = [pc EXCEPT ![c] = point]
  BY StartStepLocal
<1>2. pc[c] \in StartPoints
  BY DEF StartStep, CheckTimes, OpenEvents, SubscribeAnswered, SubscribeUnusable,
     SubscribeFails, MakeService, ServiceClosed, TimesSound, TimesBroken, TimesMixed,
     FixAnswered, FixFails, StartPoints
<1>3. wish = "starting" /\ LoopStarting /\ \A d \in Consumers \ {c} : pc[d] \notin StartPoints
  BY <1>2 DEF FirstStart, LoopStarting
<1>4. UNCHANGED <<shutdown, consumerClosed>>
  BY DEF StartStep, CheckTimes, OpenEvents, SubscribeAnswered, SubscribeUnusable,
     SubscribeFails, MakeService, ServiceClosed, TimesSound, TimesBroken, TimesMixed,
     FixAnswered, FixFails, ghostVars
<1>5. \A t \in Tasks : pc'[t] = pc[t]
  BY <1>1
<1>6. Subscribed \in BOOLEAN /\ Subscribed' \in BOOLEAN
  BY DEF Subscribed
<1>7. CASE pc' # [pc EXCEPT ![c] = "idle"] /\ UNCHANGED <<armed, wish>>
  <2>1. LoopLives' = LoopLives
    BY <1>5, <1>7 DEF LoopLives, Active
  <2>2. pc'[c] \in StartPoints
    BY <1>1, <1>2, <1>7, ConsumerPoints
  <2>3. LoopStarting' = LoopStarting
    BY <1>3, <2>2 DEF LoopStarting
  <2> QED
    BY <1>3, <1>4, <1>7, <2>1, <2>3, WorkIsLoopStep
<1>8. CASE EndStart(c)
  <2>1. wish' = "off" /\ UNCHANGED armed /\ pc' = [pc EXCEPT ![c] = "idle"]
    BY <1>3, <1>8 DEF EndStart, Suspend, timerVars
  <2>2. LoopLives' = LoopLives /\ LoopStarting' = FALSE
    BY <1>3, <1>5, <2>1 DEF LoopLives, LoopStarting, Active, StartPoints
  <2> QED
    BY <1>3, <1>4, <1>6, <2>1, <2>2 DEF LoopStep, LoopLives, LoopStarting, Loop!Next,
       Loop!StartFails
<1>9. CASE StartReturns(c) /\ UNCHANGED <<attrVars, svc, camera>>
  <2>1. wish' = "run" /\ ScheduleRenew /\ pc' = [pc EXCEPT ![c] = "idle"]
    BY <1>3, <1>9 DEF StartReturns, Suspend
  <2>2. LoopLives' = TRUE /\ LoopStarting' = FALSE /\ Subscribed' = Subscribed
    <3>1. armed' # {}
      BY <2>1 DEF ScheduleRenew
    <3>2. LoopStarting' = FALSE
      BY <1>3, <2>1 DEF LoopStarting, StartPoints
    <3> QED
      BY <1>9, <3>1, <3>2 DEF LoopLives, Subscribed, attrVars
  <2> QED
    BY <1>3, <1>4, <2>1, <2>2 DEF LoopStep, LoopLives, LoopStarting, Loop!Next,
       Loop!Started
<1> QED
  BY <1>7, <1>8, <1>9, ConsumerStartMove

\* The camera may forget a subscription at any time
LEMMA LossIsLoopStep ==
    ASSUME UNCHANGED <<wish, LoopStarting, LoopLives, shutdown, consumerClosed>>,
           Subscribed' => Subscribed
    PROVE  LoopStep
<1>0. Subscribed \in BOOLEAN /\ Subscribed' \in BOOLEAN
  BY DEF Subscribed
<1>1. CASE Subscribed' = Subscribed
  BY <1>1 DEF LoopStep, LoopStarting, LoopLives, Loop!vars
<1>2. CASE Subscribed /\ ~Subscribed'
  BY <1>0, <1>2 DEF LoopStep, LoopStarting, LoopLives, Loop!Next, Loop!Lose
<1> QED
  BY <1>0, <1>1, <1>2

\* What the consumer calls, the camera's loss of a subscription and the timer
LEMMA CallIsLoopStep ==
    ASSUME RefInv, NEW c \in Consumers,
           Start(c) \/ Stop(c) \/ Shutdown(c) \/ UnsubscribeReturns(c)
    PROVE  LoopStep
<1> USE RefFacts
<1>1. \A t \in Tasks : pc'[t] = pc[t]
  BY DEF Start, Stop, Shutdown, StopBody, UnsubscribeReturns, Continue, Suspend
<1>2. Subscribed \in BOOLEAN /\ Subscribed' \in BOOLEAN
  BY DEF Subscribed
<1>3. CASE Start(c)
  <2>1. /\ wish = "off" /\ wish' = "starting" /\ subscription' = None
        /\ pc' = [pc EXCEPT ![c] = "events"]
        /\ UNCHANGED <<armed, shutdown, consumerClosed>>
    BY <1>3 DEF Start, Continue, timerVars
  <2>2. LoopStarting = FALSE /\ LoopStarting' = TRUE /\ LoopLives' = LoopLives
    BY <1>1, <2>1 DEF FirstStart, LoopStarting, LoopLives, Active, StartPoints
  <2>3. Subscribed' = FALSE
    BY <2>1 DEF Subscribed
  <2> QED
    BY <2>1, <2>2, <2>3 DEF LoopStep, LoopLives, LoopStarting, Loop!Next, Loop!Start
<1>4. CASE Stop(c) \/ Shutdown(c)
  <2>1. /\ wish \notin {"off", "starting"} /\ wish' = "stopped"
        /\ armed' \subseteq armed /\ shutdown' \in {shutdown, TRUE}
        /\ pc' = pc \/ pc' = [pc EXCEPT ![c] = "unsubscribe"]
        /\ UNCHANGED <<subscription, svc, camera, consumerClosed>> /\ pc[c] = "idle"
    BY <1>4 DEF Stop, Shutdown, Handed, StopBody, CancelRenewals, Suspend, attrVars,
       poolVars
  <2>2. LoopStarting' = LoopStarting /\ (LoopLives' => LoopLives)
    BY <1>1, <2>1 DEF LoopStarting, LoopLives, Active, StartPoints
  <2>3. Subscribed' = Subscribed
    BY <2>1 DEF Subscribed
  <2>4. LoopLives' \in {LoopLives, FALSE}
    BY <2>2 DEF LoopLives
  <2> QED
    BY <2>1, <2>2, <2>3, <2>4 DEF LoopStep, LoopLives, LoopStarting, Loop!Next,
       Loop!Stop, Loop!Held, Wishes
<1>5. CASE UnsubscribeReturns(c)
  <2>1. /\ pc[c] = "unsubscribe" /\ pc' = [pc EXCEPT ![c] = "idle"]
        /\ camera' \subseteq camera
        /\ UNCHANGED <<subscription, svc, armed, wish, shutdown, consumerClosed>>
    BY <1>5 DEF UnsubscribeReturns, Suspend, attrVars, timerVars, poolVars, ghostVars
  <2>2. LoopStarting' = LoopStarting /\ LoopLives' = LoopLives
    <3>1. \A d \in Consumers : pc'[d] \in StartPoints <=> pc[d] \in StartPoints
      BY <2>1 DEF StartPoints
    <3> QED
      BY <1>1, <2>1, <3>1 DEF LoopStarting, LoopLives, Active
  <2>3. Subscribed' => Subscribed
    BY <2>1 DEF Subscribed
  <2> QED
    BY <2>1, <2>2, <2>3, LossIsLoopStep
<1> QED
  BY <1>3, <1>4, <1>5

LEMMA OtherIsLoopStep ==
    ASSUME RefInv,
           \/ \E h \in Timers : TimerFires(h)
           \/ Pause \/ Resume \/ (\E k \in Keys : CloseService(k))
           \/ Rediscover \/ CameraForgets \/ UNCHANGED vars
    PROVE  LoopStep
<1> USE RefFacts
<1>0. Subscribed \in BOOLEAN /\ Subscribed' \in BOOLEAN
  BY DEF Subscribed
<1>1. ASSUME NEW h \in Timers, TimerFires(h) PROVE LoopStep
  <2>1. /\ \A c \in Consumers : pc'[c] = pc[c]
        /\ UNCHANGED <<wish, shutdown, consumerClosed, subscription, svc, camera>>
        /\ h \in armed
    BY <1>1 DEF TimerFires, ghostVars, attrVars, poolVars
  <2>2. \E t \in Tasks : Active(t)'
    <3>1. CASE TaskInProgress
      BY <1>1, <3>1, IdentityAssumption DEF TimerFires, TaskInProgress, Active, TypeOK
    <3>2. CASE ~TaskInProgress
      BY <1>1, <3>2 DEF TimerFires, Active, First
    <3> QED
      BY <3>1, <3>2
  <2>3. LoopLives' = LoopLives /\ LoopStarting' = LoopStarting
    BY <2>1, <2>2 DEF LoopLives, LoopStarting
  <2>4. Subscribed' = Subscribed
    BY <2>1 DEF Subscribed
  <2> QED
    BY <2>1, <2>3, <2>4, LossIsLoopStep
<1>2. CASE Pause
  <2>1. /\ wish \notin {"off", "starting"} /\ wish' = "paused" /\ armed' \subseteq armed
        /\ UNCHANGED <<pc, shutdown, consumerClosed, subscription, svc, camera>>
    BY <1>2 DEF Pause, Handed, CancelRenewals, attrVars, poolVars
  <2>2. LoopStarting' = LoopStarting /\ LoopLives' \in {LoopLives, FALSE}
    BY <2>1 DEF LoopLives, LoopStarting, Active
  <2>3. Subscribed' = Subscribed
    BY <2>1 DEF Subscribed
  <2> QED
    BY <2>1, <2>2, <2>3 DEF LoopStep, LoopLives, LoopStarting, Loop!Next, Loop!Pause,
       Loop!Held, Wishes
<1>3. CASE Resume
  <2>1. /\ wish \notin {"off", "starting"} /\ wish' = "run" /\ armed' # {}
        /\ UNCHANGED <<pc, shutdown, consumerClosed, subscription, svc, camera>>
    BY <1>3 DEF Resume, Handed, ScheduleRenew, attrVars, poolVars
  <2>2. LoopStarting' = LoopStarting /\ LoopLives' = TRUE
    BY <2>1 DEF LoopLives, LoopStarting
  <2>3. Subscribed' = Subscribed
    BY <2>1 DEF Subscribed
  <2> QED
    BY <2>1, <2>2, <2>3 DEF LoopStep, LoopLives, LoopStarting, Loop!Next, Loop!Resume,
       Loop!Held, Wishes
<1>4. ASSUME NEW k \in Keys, CloseService(k) PROVE LoopStep
  <2>1. /\ svc' = [svc EXCEPT ![services[k]].open = FALSE]
        /\ UNCHANGED <<pc, armed, wish, shutdown, subscription, camera>>
        /\ consumerClosed' = TRUE
    BY <1>4 DEF CloseService, attrVars, timerVars
  <2>2. LoopStarting' = LoopStarting /\ LoopLives' = LoopLives
    BY <2>1 DEF LoopLives, LoopStarting, Active
  <2>3. Subscribed' \in {Subscribed, FALSE}
    <3>1. Subscribed' => Subscribed
      BY <2>1 DEF Subscribed, TypeOK
    <3> QED
      BY <1>0, <3>1
  <2> QED
    BY <2>1, <2>2, <2>3 DEF LoopStep, LoopLives, LoopStarting, Loop!Next, Loop!Sever
<1>5. CASE Rediscover \/ CameraForgets \/ UNCHANGED vars
  <2>1. /\ camera' \subseteq camera
        /\ UNCHANGED <<pc, armed, wish, shutdown, consumerClosed, subscription, svc>>
    BY <1>5 DEF Rediscover, CameraForgets, vars, attrVars, timerVars, poolVars, ghostVars
  <2>2. LoopStarting' = LoopStarting /\ LoopLives' = LoopLives
    BY <2>1 DEF LoopLives, LoopStarting, Active
  <2>3. Subscribed' => Subscribed
    BY <2>1 DEF Subscribed
  <2> QED
    BY <2>1, <2>2, <2>3, LossIsLoopStep
<1> QED
  BY <1>1, <1>2, <1>3, <1>4, <1>5

LEMMA NextIsLoopStep == RefInv /\ [Next]_vars => LoopStep
<1> SUFFICES ASSUME RefInv, [Next]_vars PROVE LoopStep
  OBVIOUS
<1> QED
  BY TaskIsLoopStep, StartIsLoopStep, CallIsLoopStep, OtherIsLoopStep
  DEF Next, ConsumerStep

LEMMA RefInvariant == Factory => (Spec => []RefInv)
<1> SUFFICES ASSUME Factory PROVE Spec => []RefInv
  OBVIOUS
<1>1. Init => FirstStart /\ ShutdownDisarms
  BY DEF Init, FirstStart, ShutdownDisarms, StartPoints, Procs
<1>2. TaskInv /\ SingleTimer /\ FirstStart /\ ShutdownDisarms /\ [Next]_vars
         => FirstStart' /\ ShutdownDisarms'
  BY FactoryStep DEF FactoryInv
<1>3. TaskInv /\ SingleTimer /\ FirstStart /\ ShutdownDisarms /\ SessionInv => RefInv
  BY DEF RefInv, FactoryInv
<1> QED
  BY <1>1, <1>2, <1>3, SessionInvariant, TaskInvariant, OneTimer, PTL DEF Spec

\* The manager that create_*_manager() gave out is the loop of RenewalLoop: it
\* starts, pauses, resumes and stops when it is told to, and never comes to rest by
\* itself while it is wanted.
THEOREM ImplementsLoop == Factory => (Spec => LoopKept)
<1> SUFFICES ASSUME Factory PROVE Spec => LoopKept
  OBVIOUS
<1>1. Init => Loop!Init
  BY DEF Init, Loop!Init, StartPoints, Procs, Active, Subscribed
<1>2. RefInv /\ [Next]_vars => [Loop!Next]_(Loop!vars)
  BY NextIsLoopStep DEF LoopStep
<1> QED
  BY <1>1, <1>2, RefInvariant, PTL DEF Spec, LoopKept, Loop!Spec

\* As long as the consumer wants the manager to run and has closed nothing, a timer
\* is armed or a task at work, whatever fails.
THEOREM LoopStaysAlive == Factory => (Spec => []LoopAlive)
<1> SUFFICES ASSUME Factory PROVE Spec => []LoopAlive
  OBVIOUS
<1>1. Init => LoopAlive
  BY DEF Init, LoopAlive
<1>2. LoopAlive /\ RefInv /\ [Next]_vars => LoopAlive'
  <2>1. LoopAlive <=> (LoopRuns => LoopLives)
    BY DEF LoopAlive, LoopRuns, LoopLives
  <2>2. LoopAlive' <=> (LoopRuns' => LoopLives')
    BY DEF LoopAlive, LoopRuns, LoopLives
  <2>3. LoopStep /\ (LoopRuns => LoopLives) => (LoopRuns' => LoopLives')
    <3> SUFFICES ASSUME LoopStep, LoopRuns => LoopLives, LoopRuns' PROVE LoopLives'
      OBVIOUS
    <3> USE DEF LoopRuns, LoopLives
    <3>1. CASE UNCHANGED Loop!vars
      BY <3>1 DEF Loop!vars
    <3>2. CASE Loop!Start \/ Loop!StartFails \/ Loop!Sever \/ Loop!Lose \/ Loop!Serve
      BY <3>2 DEF Loop!Start, Loop!StartFails, Loop!Sever, Loop!Lose, Loop!Serve
    <3>3. CASE Loop!Started \/ Loop!Resume
      BY <3>3 DEF Loop!Started, Loop!Resume
    <3>4. CASE Loop!Pause \/ Loop!Stop
      BY <3>4 DEF Loop!Pause, Loop!Stop
    <3>5. CASE Loop!Rest
      BY <3>5 DEF Loop!Rest, Loop!Running
    <3> QED
      BY <3>1, <3>2, <3>3, <3>4, <3>5 DEF LoopStep, Loop!Next
  <2> QED
    BY <2>1, <2>2, <2>3, NextIsLoopStep
<1> QED
  BY <1>1, <1>2, RefInvariant, PTL DEF Spec

-----------------------------------------------------------------------------
(* No session is lost.  close() of ONVIFCamera closes the services that are   *)
(* registered; a service that is replaced has been closed before it is        *)
(* dropped, because two coroutines are never inside _start() together.        *)

QuietInv ==
    wish \in {"off", "starting"} => armed = {} /\ \A t \in Tasks : pc[t] = "idle"

LeakInv ==
    /\ NoSessionLeak
    /\ \A p \in Procs, k \in Keys :
          Replacing(p, k) /\ services[k] # None => ~svc[services[k]].open

LEMMA QuietStep == RefInv /\ QuietInv /\ [Next]_vars => QuietInv'
<1> SUFFICES ASSUME RefInv, QuietInv, [Next]_vars PROVE QuietInv'
  OBVIOUS
<1> USE RefFacts DEF QuietInv
<1>1. ASSUME NEW h \in Timers, TimerFires(h) PROVE QuietInv'
  BY <1>1 DEF TimerFires, ghostVars
<1>2. ASSUME NEW t \in Tasks, TaskStep(t) \/ StartStep(t) PROVE QuietInv'
  BY <1>2, TaskKeepsLoop, TaskWish DEF Active
<1>3. ASSUME NEW c \in Consumers, StartStep(c) PROVE QuietInv'
  <2>1. \A t \in Tasks : pc'[t] = pc[t]
    BY <1>3, StartStepLocal
  <2>2. wish = "starting"
    BY <1>3 DEF FirstStart, StartStep, CheckTimes, OpenEvents, SubscribeAnswered,
       SubscribeUnusable, SubscribeFails, MakeService, ServiceClosed, TimesSound,
       TimesBroken, TimesMixed, FixAnswered, FixFails, StartPoints
  <2>3. UNCHANGED armed \/ wish' = "run"
    BY <1>3, <2>2, ConsumerStartMove DEF EndStart, StartReturns, timerVars
  <2> QED
    BY <2>1, <2>2, <2>3
<1>4. ASSUME NEW c \in Consumers,
             Start(c) \/ Stop(c) \/ Shutdown(c) \/ UnsubscribeReturns(c)
      PROVE  QuietInv'
  <2>1. \A t \in Tasks : pc'[t] = pc[t]
    BY <1>4 DEF Start, Stop, Shutdown, StopBody, UnsubscribeReturns, Continue, Suspend
  <2>2. \/ wish' = "stopped"
        \/ armed' = armed /\ (wish' = wish \/ wish = "off")
    BY <1>4 DEF Start, Stop, Shutdown, StopBody, UnsubscribeReturns, timerVars, ghostVars
  <2> QED
    BY <2>1, <2>2
<1>5. CASE Pause \/ Resume
  BY <1>5 DEF Pause, Resume
<1>6. CASE (\E k \in Keys : CloseService(k)) \/ Rediscover \/ CameraForgets
           \/ UNCHANGED vars
  BY <1>6 DEF CloseService, Rediscover, CameraForgets, vars, timerVars, ghostVars
<1> QED
  BY <1>1, <1>2, <1>3, <1>4, <1>5, <1>6 DEF Next, ConsumerStep, Procs

LEMMA SoleStart ==
    ASSUME RefInv, QuietInv, NEW p \in Procs, NEW q \in Procs,
           pc[p] \in StartPoints, pc[q] \in StartPoints
    PROVE  p = q
  BY RefFacts DEF QuietInv, FirstStart, SingleTask, Active, StartPoints, Procs

\* A step that opens no session and drops no service
LEMMA LeakKept ==
    ASSUME LeakInv, UNCHANGED services,
           \A s \in Svc : svc'[s].open => svc[s].open,
           services \in [Keys -> Svc \cup {None}],
           \A q \in Procs, k \in Keys : Replacing(q, k)' => Replacing(q, k)
    PROVE  LeakInv'
  BY DEF LeakInv, NoSessionLeak

LEMMA BuildKeepsLeakInv ==
    ASSUME RefInv, QuietInv, LeakInv, NEW p \in Procs, NEW k \in Keys,
           NEW a \in Addr \cup {None}, pc[p] \in StartPoints, k = KeyAt(pc[p]),
           Build(p, k, a), services[k] = None \/ Replacing(p, k)
    PROVE  LeakInv'
<1> USE RefFacts
<1>1. PICK s \in Svc :
         /\ s \in Unreferenced
         /\ svc' = [svc EXCEPT ![s] = [addr |-> a, open |-> TRUE]]
         /\ services' = [services EXCEPT ![k] = s]
         /\ pc' = [pc EXCEPT ![p] = AfterMake(pc[p])]
  BY DEF Build, First, Continue
<1>2. /\ services \in [Keys -> Svc \cup {None}] /\ None \notin Svc
      /\ svc \in [Svc -> [addr : Addr \cup {None}, open : BOOLEAN]]
  BY IdentityAssumption DEF TypeOK
<1>3. \A q \in Procs : pc'[q] \notin {"closing1", "closing2"}
  BY <1>1, SoleStart DEF AfterMake, StartPoints
<1>4. ASSUME NEW u \in Svc, svc'[u].open PROVE \E j \in Keys : services'[j] = u
  <2>1. CASE u = s
    BY <1>1, <1>2, <2>1
  <2>2. CASE u # s
    <3>1. PICK j \in Keys : services[j] = u
      BY <1>1, <1>2, <1>4, <2>2 DEF LeakInv, NoSessionLeak
    <3>2. j # k
      BY <1>1, <1>2, <1>4, <2>2, <3>1 DEF LeakInv
    <3> QED
      BY <1>1, <1>2, <3>1, <3>2
  <2> QED
    BY <2>1, <2>2
<1> QED
  BY <1>3, <1>4 DEF LeakInv, NoSessionLeak, Replacing

LEMMA LeakStep == RefInv /\ QuietInv /\ LeakInv /\ [Next]_vars => LeakInv'
<1> SUFFICES ASSUME RefInv, QuietInv, LeakInv, [Next]_vars PROVE LeakInv'
  OBVIOUS
<1> USE RefFacts
<1>0. /\ services \in [Keys -> Svc \cup {None}]
      /\ svc \in [Svc -> [addr : Addr \cup {None}, open : BOOLEAN]]
      /\ xaddr \in Addr \cup {None} /\ want \in [Procs -> Addr \cup {None}]
  BY DEF TypeOK
<1>1. CASE /\ UNCHANGED <<services, svc>>
           /\ \A q \in Procs : pc'[q] \in {"closing1", "closing2"} => pc'[q] = pc[q]
  BY <1>0, <1>1, LeakKept DEF Replacing
<1>2. ASSUME NEW h \in Timers, TimerFires(h) PROVE LeakInv'
  BY <1>1, <1>2 DEF TimerFires, First, poolVars
<1>3. ASSUME NEW t \in Tasks, TaskStep(t) PROVE LeakInv'
  <2>1. UNCHANGED <<services, svc>>
    BY <1>3 DEF TaskStep, TaskGivesUp, TaskRestarts, TaskRenews, BackoffOver, SendRenew,
       RenewAnswered, RenewRetried, RenewFails, RenewEscapes, TaskCancelled, poolVars
  <2>2. \E point \in Points \ {"closing1", "closing2"} : pc' = [pc EXCEPT ![t] = point]
    BY <1>3 DEF TaskStep, TaskGivesUp, TaskRestarts, TaskRenews, BackoffOver, SendRenew,
       RenewAnswered, RenewRetried, RenewFails, RenewEscapes, TaskCancelled, EndTask,
       Restart, Suspend, Continue, Points, StartPoints, RenewPoints
  <2> QED
    BY <1>1, <2>1, <2>2
<1>4. ASSUME NEW p \in Procs, StartStep(p) PROVE LeakInv'
  <2>1. CASE MakeService(p)
    <3>0. pc[p] \in {"make1", "make2"}
      BY <2>1 DEF MakeService
    <3>1. CASE MakeUnsupported(p)
      BY <1>1, <3>1 DEF MakeUnsupported, StartRaises, EndTask, EndStart, Suspend
    <3>2. CASE MakeReuse(p)
      BY <1>1, <3>2 DEF MakeReuse, Continue, AfterMake
    <3>3. CASE MakeFresh(p)
      BY <1>0, <3>0, <3>3, KeyAtTyped, BuildKeepsLeakInv DEF MakeFresh, StartPoints
    <3>4. CASE MakeReplace(p)
      <4>0. PICK k \in Keys : k = KeyAt(pc[p])
        BY KeyAtTyped
      <4>1. /\ svc' = [svc EXCEPT ![services[k]].open = FALSE] /\ services' = services
            /\ pc' = [pc EXCEPT ![p] = IF pc[p] = "make1" THEN "closing1" ELSE "closing2"]
        BY <3>4, <4>0 DEF MakeReplace, Suspend
      <4>2. \A s \in Svc : svc'[s].open => svc[s].open
        BY <1>0, <4>1
      <4>3. services[k] # None => ~svc'[services[k]].open
        BY <1>0, <4>1
      <4>4. \A q \in Procs, j \in Keys : Replacing(q, j)' => Replacing(q, j) \/ j = k
        BY <3>0, <4>0, <4>1 DEF Replacing, KeyAt
      <4> QED
        BY <1>0, <4>1, <4>2, <4>3, <4>4 DEF LeakInv, NoSessionLeak
    <3> QED
      BY <2>1, <3>1, <3>2, <3>3, <3>4 DEF MakeService
  <2>2. CASE ServiceClosed(p)
    BY <1>0, <2>2, KeyAtTyped, BuildKeepsLeakInv DEF ServiceClosed, Replacing, StartPoints
  <2>3. CASE OpenEvents(p) \/ SubscribeAnswered(p) \/ SubscribeUnusable(p)
             \/ SubscribeFails(p)
    BY <1>1, <2>3 DEF OpenEvents, SubscribeAnswered, SubscribeUnusable, SubscribeFails,
       StartRaises, EndTask, EndStart, Continue, Suspend, poolVars
  <2>4. CASE CheckTimes(p) \/ FixAnswered(p) \/ FixFails(p)
    BY <1>1, <2>4 DEF CheckTimes, TimesSound, TimesBroken, TimesMixed, FixAnswered,
       FixFails, StartRaises, StartReturns, EndTask, EndStart, Suspend, poolVars
  <2> QED
    BY <1>4, <2>1, <2>2, <2>3, <2>4 DEF StartStep
<1>5. ASSUME NEW c \in Consumers,
             Start(c) \/ Stop(c) \/ Shutdown(c) \/ UnsubscribeReturns(c)
      PROVE  LeakInv'
  BY <1>1, <1>5 DEF Start, Stop, Shutdown, StopBody, UnsubscribeReturns, Continue, Suspend,
     poolVars
<1>6. ASSUME NEW k \in Keys, CloseService(k) PROVE LeakInv'
  <2>1. \A s \in Svc : svc'[s].open => svc[s].open
    BY <1>0, <1>6 DEF CloseService
  <2> QED
    BY <1>0, <1>6, <2>1, LeakKept DEF CloseService, Replacing
<1>7. CASE Pause \/ Resume \/ Rediscover \/ CameraForgets \/ UNCHANGED vars
  BY <1>1, <1>7 DEF Pause, Resume, Rediscover, CameraForgets, vars, poolVars
<1> QED
  BY <1>2, <1>3, <1>4, <1>5, <1>6, <1>7 DEF Next, ConsumerStep, Procs

\* Every open session belongs to a registered service, whatever a restart was doing
\* when it failed or was cancelled.
THEOREM SessionsReachable == Factory => (Spec => []NoSessionLeak)
<1> SUFFICES ASSUME Factory PROVE Spec => []NoSessionLeak
  OBVIOUS
<1>1. Init => QuietInv /\ LeakInv
  BY DEF Init, QuietInv, LeakInv, NoSessionLeak, Procs
<1>2. LeakInv => NoSessionLeak
  BY DEF LeakInv
<1> QED
  BY <1>1, <1>2, QuietStep, LeakStep, RefInvariant, PTL DEF Spec

=============================================================================
