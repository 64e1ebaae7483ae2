------------------------- MODULE SubscriptionManager -------------------------
(***************************************************************************)
(* onvif/managers.py: one notification or pull-point manager, the asyncio  *)
(* timer and background task that keep its subscription alive, the part of *)
(* ONVIFCamera it goes through to build its two services, the consumer     *)
(* coroutines that drive it and the camera that answers.                   *)
(*                                                                         *)
(* Everything runs on one event loop.  A coroutine keeps the loop from the *)
(* point where it is resumed to its next suspension: `turn' names the      *)
(* coroutine that is in the middle of such a segment, and nobody else      *)
(* moves until it is None again.                                           *)
(***************************************************************************)
EXTENDS Naturals

CONSTANTS
    Kind,         \* "PullPoint" or "Notification": the subclass of BaseManager
    Consumers,    \* coroutines of the program that uses the manager
    Tasks,        \* identities of background tasks
    Timers,       \* identities of event-loop timer handles
    Svc,          \* identities of ONVIFService objects
    Addr,         \* subscription addresses the camera may hand out
    None,
    Budget,       \* bound: faults of the camera and of the network, and
                  \* calls of start() other than the one of create_*_manager()
    Calls,        \* what the consumer calls: a subset of AllCalls
    Factory,      \* whether the consumer has the manager from create_*_manager()
    Rediscovery   \* whether update_xaddrs() may run beside the manager

Keys == {"sub", "pull"}  \* the subscription service, the service pulled from
Procs == Tasks \cup Consumers
AllCalls == {"pause", "resume", "stop", "shutdown", "close"}

ASSUME KindAssumption == Kind \in {"PullPoint", "Notification"}
ASSUME IdentityAssumption ==
    /\ Tasks \subseteq Nat /\ Timers \subseteq Nat /\ Svc \subseteq Nat
    /\ None \notin Tasks \cup Consumers \cup Timers \cup Svc \cup Addr
    /\ Tasks \cap Consumers = {}
ASSUME BoundAssumption == Budget \in Nat
ASSUME UseAssumption ==
    Calls \subseteq AllCalls /\ Factory \in BOOLEAN /\ Rediscovery \in BOOLEAN

VARIABLES
    subscription, \* _subscription: the subscription-manager service, or None
    service,      \* _service: the pull-point or consumer service, or None
    shutdown,     \* _shutdown
    handle,       \* _cancel_subscription_renew: the last timer handle, or None
    taskRef,      \* _restart_or_renew_task: the last background task, or None
    armed,        \* the timers the event loop still holds
    services,     \* ONVIFCamera.services at the manager's two binding keys
    xaddr,        \* ONVIFCamera.xaddrs at the manager's namespace, or None
    discovering,  \* update_xaddrs() has emptied ONVIFCamera.xaddrs
    svc,          \* the service objects: address and whether the session is open
    camera,       \* external: the addresses at which the camera knows a subscription
    pc,           \* where each coroutine is
    cancelled,    \* tasks with a CancelledError on its way
    target,       \* the service a pending Renew or Unsubscribe was sent through
    want,         \* the address a pending create_onvif_service() read
    turn,         \* the coroutine that holds the event loop, or None
    spent,
    wish,           \* history: what the consumer asked for last
    consumerClosed  \* history: the consumer closed a service itself

attrVars   == <<subscription, service>>
timerVars  == <<armed, handle>>
addrVars   == <<xaddr, discovering>>
poolVars   == <<services, svc, addrVars>>
localVars  == <<target, want>>
ghostVars  == <<wish, consumerClosed>>
vars == <<attrVars, timerVars, poolVars, localVars, ghostVars, spent,
          shutdown, taskRef, camera, pc, cancelled, turn>>

(***************************************************************************)
(* Control points.  A coroutine at a point of StartPoints is inside        *)
(* _start().                                                               *)
(***************************************************************************)
RenewPoints == {"renew1", "renew2"}
StartPoints == {"events", "subscribe", "make1", "closing1", "make2", "closing2",
                "check", "fixing"}
RequestPoints == RenewPoints \cup {"subscribe", "fixing"}
Points == {"idle", "spawned", "backoff", "unsubscribe"}
              \cup RenewPoints \cup StartPoints

Wishes == {"off", "starting", "run", "paused", "stopped"}

TypeOK ==
    /\ subscription \in Svc \cup {None}
    /\ service \in Svc \cup {None}
    /\ shutdown \in BOOLEAN
    /\ handle \in Timers \cup {None}
    /\ taskRef \in Tasks \cup {None}
    /\ armed \subseteq Timers
    /\ services \in [Keys -> Svc \cup {None}]
    /\ xaddr \in Addr \cup {None}
    /\ discovering \in BOOLEAN
    /\ svc \in [Svc -> [addr : Addr \cup {None}, open : BOOLEAN]]
    /\ camera \subseteq Addr
    /\ pc \in [Procs -> Points]
    /\ cancelled \subseteq Tasks
    /\ target \in [Procs -> Svc \cup {None}]
    /\ want \in [Procs -> Addr \cup {None}]
    /\ turn \in Procs \cup {None}
    /\ spent \in 0..Budget
    /\ wish \in Wishes
    /\ consumerClosed \in BOOLEAN

Active(p) == pc[p] # "idle"
First(x, S) == x \in S /\ \A y \in S : x <= y

-----------------------------------------------------------------------------
(* Predicates of the code *)

\* _session_closed
SessionClosed == subscription # None /\ ~svc[subscription].open

\* Slips: the finally clause forgets the shutdown; it takes a timer that
\* _cancel_renewals() removed for a pause
RearmShutDown == ~SessionClosed
RearmUnlessCancelled == ~shutdown /\ ~SessionClosed /\ handle # None

\* The guard of the finally clause of _renew_or_restart_subscription()
MayRearm == ~shutdown /\ ~SessionClosed

\* Slip: the entry guard forgets the shutdown
WorkShutDown == ~SessionClosed

\* The entry guard of _renew_or_restart_subscription()
MayWork == ~shutdown /\ ~SessionClosed

\* Slip: a task counts only until its first step
TaskNotStarted == taskRef # None /\ pc[taskRef] = "spawned"

\* _restart_or_renew_task is set and not done()
TaskInProgress == taskRef # None /\ Active(taskRef)

-----------------------------------------------------------------------------
(* Timers *)

\* _cancel_renewals()
CancelRenewals ==
    /\ armed' = armed \ {handle}
    /\ handle' = None

\* Slip: call_at() without cancelling the handle held
ScheduleBeside ==
    \E h \in Timers : /\ First(h, Timers \ armed)
                     /\ armed' = armed \cup {h} /\ handle' = h

\* _schedule_subscription_renew(): cancel the handle held, then call_at()
ScheduleRenew ==
    \E h \in Timers :
        /\ First(h, Timers \ (armed \ {handle}))
        /\ armed' = (armed \ {handle}) \cup {h}
        /\ handle' = h

-----------------------------------------------------------------------------
(* How a coroutine moves *)

\* p stops at a suspension point (or ends) and gives the loop back
Suspend(p, point) == pc' = [pc EXCEPT ![p] = point] /\ turn' = None

\* p goes on in the same segment
Continue(p, point) == pc' = [pc EXCEPT ![p] = point] /\ turn' = p

Forget(p) == /\ target' = [target EXCEPT ![p] = None]
             /\ want' = [want EXCEPT ![p] = None]

\* The finally clause of _renew_or_restart_subscription(), and the task is done
EndTask(t) ==
    /\ IF MayRearm THEN ScheduleRenew ELSE UNCHANGED timerVars
    /\ cancelled' = cancelled \ {t}
    /\ Suspend(t, "idle") /\ Forget(t)

\* start() fails: the exception reaches the consumer and nothing is scheduled
EndStart(c) ==
    /\ Suspend(c, "idle") /\ Forget(c)
    /\ wish' = IF wish = "starting" THEN "off" ELSE wish
    /\ UNCHANGED <<timerVars, cancelled>>

\* _start() returned the next renewal time
StartReturns(p) ==
    \/ /\ p \in Tasks
       /\ EndTask(p)
       /\ UNCHANGED wish
    \/ /\ p \in Consumers
       /\ ScheduleRenew
       /\ Suspend(p, "idle") /\ Forget(p)
       /\ wish' = IF wish = "starting" THEN "run" ELSE wish
       /\ UNCHANGED cancelled

\* _start() raised: the exception reaches the consumer of start(), or the finally
\* clause of the task, on which it makes no difference whether RENEW_ERRORS has it
StartRaises(p) ==
    \/ p \in Tasks /\ EndTask(p) /\ UNCHANGED wish
    \/ p \in Consumers /\ EndStart(p)

\* A fault of the camera or the network, drawn from the bounded supply
Spend == spent < Budget /\ spent' = spent + 1
Fault == Spend

-----------------------------------------------------------------------------
(* create_onvif_service() for the manager's two binding keys *)

\* The order in which _start() builds its services
KeyAt(point) ==
    IF (Kind = "PullPoint") = (point \in {"make1", "closing1"})
    THEN "sub" ELSE "pull"

AfterMake(point) == IF point \in {"make1", "closing1"} THEN "make2" ELSE "check"

\* Slip: the attribute is assigned only the first time
AssignOnce(k, s) ==
    /\ subscription' = IF k = "sub" /\ subscription = None THEN s ELSE subscription
    /\ service' = IF k = "pull" /\ service = None THEN s ELSE service

\* _start() stores the service create_onvif_service() returned
Assign(k, s) ==
    \/ k = "sub"  /\ subscription' = s /\ UNCHANGED service
    \/ k = "pull" /\ service' = s /\ UNCHANGED subscription

Unreferenced ==
    {s \in Svc : /\ ~svc[s].open
                 /\ s \notin {subscription, service}
                 /\ \A k \in Keys : services[k] # s
                 /\ \A p \in Procs : target[p] # s}

\* A new ONVIFService is built, registered and handed to _start().  Its wsdl
\* document and the sqlite cache were loaded by the service _start() subscribed
\* through, so setup() does not suspend.
Build(p, k, addr) ==
    \E s \in Svc :
        /\ First(s, Unreferenced)
        /\ svc' = [svc EXCEPT ![s] = [addr |-> addr, open |-> TRUE]]
        /\ services' = [services EXCEPT ![k] = s]
        /\ Assign(k, s)
        /\ Continue(p, AfterMake(pc[p]))
        /\ Forget(p)

\* Slip: a registered service is returned whatever its address
ReuseAnyAddress(k) == services[k] # None

\* The service registered under k is already at the address
Reusable(k) == services[k] # None /\ svc[services[k]].addr = xaddr

\* get_definition() finds no address for the namespace: ONVIFError
MakeUnsupported(p) ==
    /\ xaddr = None
    /\ StartRaises(p)
    /\ UNCHANGED <<attrVars, services, svc>>

MakeReuse(p) ==
    LET k == KeyAt(pc[p]) IN
    /\ xaddr # None /\ Reusable(k)
    /\ Assign(k, services[k])
    /\ Continue(p, AfterMake(pc[p]))
    /\ UNCHANGED <<services, svc, localVars, timerVars, cancelled, wish>>

MakeFresh(p) ==
    LET k == KeyAt(pc[p]) IN
    /\ xaddr # None /\ services[k] = None
    /\ Build(p, k, xaddr)
    /\ UNCHANGED <<timerVars, cancelled, wish>>

\* Slip: the old service is dropped without close()
ReplaceUnclosed(p) ==
    /\ xaddr # None /\ services[KeyAt(pc[p])] # None /\ ~Reusable(KeyAt(pc[p]))
    /\ want' = [want EXCEPT ![p] = xaddr]
    /\ Suspend(p, IF pc[p] = "make1" THEN "closing1" ELSE "closing2")
    /\ UNCHANGED <<attrVars, services, svc, target, timerVars, cancelled, wish>>

\* The address changed: close() of the old service, which suspends with the
\* session already closed and the service still registered
MakeReplace(p) ==
    LET k == KeyAt(pc[p]) IN
    /\ xaddr # None /\ services[k] # None /\ ~Reusable(k)
    /\ svc' = [svc EXCEPT ![services[k]].open = FALSE]
    /\ want' = [want EXCEPT ![p] = xaddr]
    /\ Suspend(p, IF pc[p] = "make1" THEN "closing1" ELSE "closing2")
    /\ UNCHANGED <<attrVars, services, target, timerVars, cancelled, wish>>

MakeService(p) ==
    /\ turn = p /\ pc[p] \in {"make1", "make2"}
    /\ MakeUnsupported(p) \/ MakeReuse(p) \/ MakeFresh(p) \/ MakeReplace(p)
    /\ UNCHANGED <<shutdown, taskRef, addrVars, camera, spent, consumerClosed>>

\* close() is over: the old service is popped and its successor built
ServiceClosed(p) ==
    /\ turn = None /\ pc[p] \in {"closing1", "closing2"} /\ p \notin cancelled
    /\ services[KeyAt(pc[p])] # None
    /\ Build(p, KeyAt(pc[p]), want[p])
    /\ UNCHANGED <<shutdown, taskRef, timerVars, addrVars, camera, cancelled,
                   spent, ghostVars>>

-----------------------------------------------------------------------------
(* _start(): Subscribe or CreatePullPointSubscription, the two services, and *)
(* a Renew when the camera's relative times turn out to be broken            *)

\* The service to subscribe through was opened by an earlier call, or is found
\* to have no address in a dictionary that update_xaddrs() has just emptied:
\* ONVIFError
OpenEvents(p) ==
    /\ turn = p /\ pc[p] = "events"
    /\ \/ discovering /\ StartRaises(p)
       \/ /\ ~discovering
          /\ Suspend(p, "subscribe")
          /\ UNCHANGED <<timerVars, localVars, cancelled, wish>>
    /\ UNCHANGED <<attrVars, poolVars, shutdown, taskRef, camera, spent,
                   consumerClosed>>

\* The request of a subscription that ends without its answer may have been
\* carried out
MaybeSubscribed == camera' \in {camera} \cup {camera \cup {a} : a \in Addr}

SubscribeAnswered(p) ==
    /\ turn = None /\ pc[p] = "subscribe" /\ p \notin cancelled
    /\ \E a \in Addr : camera' = camera \cup {a} /\ xaddr' = a
    /\ Continue(p, "make1")
    /\ UNCHANGED <<attrVars, timerVars, services, svc, discovering, localVars,
                   spent, ghostVars, shutdown, taskRef, cancelled>>

\* An answer whose address is empty or not a string: normalize_url() makes it
\* None, and get_definition() will find no address
SubscribeUnusable(p) ==
    /\ turn = None /\ pc[p] = "subscribe" /\ p \notin cancelled
    /\ Fault
    /\ MaybeSubscribed /\ xaddr' = None
    /\ Continue(p, "make1")
    /\ UNCHANGED <<attrVars, timerVars, services, svc, discovering, localVars,
                   ghostVars, shutdown, taskRef, cancelled>>

\* The request fails or its answer has no SubscriptionReference; without a fault
\* when the consumer closed the sessions
SubscribeFails(p) ==
    /\ turn = None /\ pc[p] = "subscribe" /\ p \notin cancelled
    /\ Fault \/ (consumerClosed /\ UNCHANGED spent)
    /\ MaybeSubscribed
    /\ StartRaises(p)
    /\ UNCHANGED <<attrVars, poolVars, shutdown, taskRef, consumerClosed>>

\* The times of the answer are consistent: _start() is over
TimesSound(p) ==
    /\ turn = p /\ pc[p] = "check"
    /\ StartReturns(p)
    /\ UNCHANGED <<attrVars, poolVars, shutdown, taskRef, camera, spent,
                   consumerClosed>>

\* has_broken_relative_time(): Renew with an absolute time
TimesBroken(p) ==
    /\ turn = p /\ pc[p] = "check"
    /\ Suspend(p, "fixing")
    /\ target' = [target EXCEPT ![p] = subscription]
    /\ UNCHANGED <<attrVars, timerVars, poolVars, want, spent, ghostVars,
                   shutdown, taskRef, camera, cancelled>>

\* One time with a zone, one without: has_broken_relative_time() lets it pass
\* and the subtraction in _calculate_next_renewal_call_at() is a TypeError
TimesMixed(p) ==
    /\ turn = p /\ pc[p] = "check"
    /\ Fault
    /\ StartRaises(p)
    /\ UNCHANGED <<attrVars, poolVars, shutdown, taskRef, camera, consumerClosed>>

CheckTimes(p) == TimesSound(p) \/ TimesBroken(p) \/ TimesMixed(p)

\* The camera can answer a request sent through the pending service
Answerable(p) == svc[target[p]].open /\ svc[target[p]].addr \in camera

FixAnswered(p) ==
    /\ turn = None /\ pc[p] = "fixing" /\ p \notin cancelled
    /\ Answerable(p)
    /\ StartReturns(p)
    /\ UNCHANGED <<attrVars, poolVars, shutdown, taskRef, camera, spent,
                   consumerClosed>>

FixFails(p) ==
    /\ turn = None /\ pc[p] = "fixing" /\ p \notin cancelled
    /\ Fault \/ (~Answerable(p) /\ UNCHANGED spent)
    /\ StartRaises(p)
    /\ UNCHANGED <<attrVars, poolVars, shutdown, taskRef, camera, consumerClosed>>

StartStep(p) ==
    \/ OpenEvents(p) \/ SubscribeAnswered(p) \/ SubscribeUnusable(p)
    \/ SubscribeFails(p)
    \/ MakeService(p) \/ ServiceClosed(p) \/ CheckTimes(p)
    \/ FixAnswered(p) \/ FixFails(p)

-----------------------------------------------------------------------------
(* The background task: _run_restart_or_renew() and                         *)
(* _renew_or_restart_subscription()                                         *)

\* The timer h is due: a task is created unless the last one is not done.  The
\* manager keeps the handle of the timer that has fired.
TimerFires(h) ==
    /\ turn = None /\ h \in armed
    /\ armed' = armed \ {h}
    /\ \/ TaskInProgress /\ UNCHANGED <<pc, taskRef>>
       \/ /\ ~TaskInProgress
          /\ \E t \in Tasks : /\ First(t, {u \in Tasks : ~Active(u)})
                             /\ pc' = [pc EXCEPT ![t] = "spawned"]
                             /\ taskRef' = t
    /\ UNCHANGED <<attrVars, handle, poolVars, localVars, spent, ghostVars,
                   shutdown, camera, cancelled, turn>>

\* Shut down or session closed: the task returns before its try
TaskGivesUp(t) ==
    /\ turn = None /\ pc[t] = "spawned" /\ t \notin cancelled
    /\ ~MayWork
    /\ Suspend(t, "idle")
    /\ UNCHANGED <<attrVars, timerVars, poolVars, localVars, spent, ghostVars,
                   shutdown, taskRef, camera, cancelled>>

\* _restart_subscription(): cancel the timer and enter _start()
Restart(t) == CancelRenewals /\ Continue(t, "events") /\ Forget(t)

\* There is nothing to renew
TaskRestarts(t) ==
    /\ turn = None /\ pc[t] = "spawned" /\ t \notin cancelled
    /\ MayWork /\ subscription = None
    /\ Restart(t)
    /\ UNCHANGED <<attrVars, poolVars, spent, ghostVars, shutdown, taskRef,
                   camera, cancelled>>

\* An attempt of _call_subscription_renew(): Renew through the service the
\* manager holds now
SendRenew(t, point) ==
    /\ Suspend(t, point)
    /\ target' = [target EXCEPT ![t] = subscription]
    /\ UNCHANGED <<attrVars, timerVars, poolVars, want, spent, ghostVars,
                   shutdown, taskRef, camera, cancelled>>

TaskRenews(t) ==
    /\ turn = None /\ pc[t] = "spawned" /\ t \notin cancelled
    /\ MayWork /\ subscription # None
    /\ SendRenew(t, "renew1")

BackoffOver(t) ==
    /\ turn = None /\ pc[t] = "backoff" /\ t \notin cancelled
    /\ SendRenew(t, "renew2")

RenewAnswered(t) ==
    /\ turn = None /\ pc[t] \in RenewPoints /\ t \notin cancelled
    /\ Answerable(t)
    /\ EndTask(t)
    /\ UNCHANGED <<attrVars, poolVars, spent, ghostVars, shutdown, taskRef,
                   camera>>

\* aiohttp.ClientError at the first attempt: retry_connection_error() backs off
RenewRetried(t) ==
    /\ turn = None /\ pc[t] = "renew1" /\ t \notin cancelled
    /\ Fault \/ (~svc[target[t]].open /\ UNCHANGED spent)
    /\ Suspend(t, "backoff") /\ Forget(t)
    /\ UNCHANGED <<attrVars, timerVars, poolVars, ghostVars, shutdown, taskRef,
                   camera, cancelled>>

\* Slip: the loss is reported but nothing is restarted before the next timer
FailUnrestarted(t) ==
    /\ turn = None /\ pc[t] \in RenewPoints /\ t \notin cancelled
    /\ Fault \/ (~Answerable(t) /\ UNCHANGED spent)
    /\ EndTask(t)
    /\ UNCHANGED <<attrVars, poolVars, ghostVars, shutdown, taskRef, camera>>

\* Another of RENEW_ERRORS, or a ClientError at the second attempt: the consumer
\* is told that the subscription is lost and the task restarts it
RenewFails(t) ==
    /\ turn = None /\ pc[t] \in RenewPoints /\ t \notin cancelled
    /\ \/ Fault
       \/ /\ ~Answerable(t)
          /\ svc[target[t]].open \/ pc[t] = "renew2"
          /\ UNCHANGED spent
    /\ Restart(t)
    /\ UNCHANGED <<attrVars, poolVars, ghostVars, shutdown, taskRef, camera,
                   cancelled>>

\* A RuntimeError of the transport, times that cannot be subtracted: only the
\* finally clause sees it
RenewEscapes(t) ==
    /\ turn = None /\ pc[t] \in RenewPoints /\ t \notin cancelled
    /\ Fault
    /\ EndTask(t)
    /\ UNCHANGED <<attrVars, poolVars, shutdown, taskRef, camera, ghostVars>>

\* CancelledError is raised where the task is suspended.  A task that has not
\* run yet ends without entering its body.
TaskCancelled(t) ==
    /\ turn = None /\ t \in cancelled
    /\ IF pc[t] = "subscribe" THEN MaybeSubscribed ELSE UNCHANGED camera
    /\ \/ /\ pc[t] = "spawned"
          /\ Suspend(t, "idle")
          /\ cancelled' = cancelled \ {t}
          /\ UNCHANGED <<timerVars, localVars>>
       \/ pc[t] # "spawned" /\ EndTask(t)
    /\ UNCHANGED <<attrVars, poolVars, spent, ghostVars, shutdown, taskRef>>

TaskStep(t) ==
    \/ TaskGivesUp(t) \/ TaskRestarts(t) \/ TaskRenews(t)
    \/ BackoffOver(t) \/ RenewAnswered(t) \/ RenewRetried(t)
    \/ RenewFails(t) \/ RenewEscapes(t) \/ TaskCancelled(t)

-----------------------------------------------------------------------------
(* The consumer *)

\* start(), by create_*_manager() on a manager it has just built, or by a
\* consumer that built its manager itself
Start(c) ==
    /\ turn = None /\ pc[c] = "idle"
    /\ \/ Factory /\ wish = "off"
          /\ subscription' = None /\ service' = None
          /\ UNCHANGED spent
       \/ ~Factory /\ Spend /\ UNCHANGED attrVars
    /\ Continue(c, "events")
    /\ wish' = "starting"
    /\ UNCHANGED <<timerVars, poolVars, localVars, consumerClosed,
                   shutdown, taskRef, camera, cancelled>>

\* create_*_manager() gives the manager away when start() has returned
Handed == Factory => wish \notin {"off", "starting"}

\* pause() and resume() do not suspend: any coroutine may call them while
\* another one is inside start() or stop()
Pause ==
    /\ "pause" \in Calls /\ turn = None /\ Handed
    /\ CancelRenewals
    /\ wish' = "paused"
    /\ UNCHANGED <<attrVars, poolVars, localVars, spent, consumerClosed, shutdown, taskRef, camera, pc, cancelled, turn>>

Resume ==
    /\ "resume" \in Calls /\ turn = None /\ Handed
    /\ ScheduleRenew
    /\ wish' = "run"
    /\ UNCHANGED <<attrVars, poolVars, localVars, spent, consumerClosed, shutdown, taskRef, camera, pc, cancelled, turn>>

\* stop() up to its await: with no subscription it is an AssertionError
StopBody(c) ==
    /\ CancelRenewals
    /\ wish' = "stopped"
    /\ \/ subscription = None /\ UNCHANGED <<pc, target, turn>>
       \/ /\ subscription # None
          /\ Suspend(c, "unsubscribe")
          /\ target' = [target EXCEPT ![c] = subscription]
    /\ UNCHANGED <<attrVars, poolVars, want, spent, consumerClosed,
                   taskRef, camera>>

Stop(c) ==
    /\ "stop" \in Calls /\ turn = None /\ Handed /\ pc[c] = "idle"
    /\ StopBody(c)
    /\ UNCHANGED <<shutdown, cancelled>>

\* Slips: the task is left to end by itself; cancel() without a task
ShutdownUncancelled(c) ==
    /\ "shutdown" \in Calls /\ turn = None /\ Handed /\ pc[c] = "idle"
    /\ shutdown' = TRUE
    /\ StopBody(c) /\ UNCHANGED cancelled
ShutdownUnchecked(c) ==
    /\ "shutdown" \in Calls /\ turn = None /\ Handed /\ pc[c] = "idle"
    /\ shutdown' = TRUE /\ cancelled' = cancelled \cup {taskRef}
    /\ StopBody(c)

Shutdown(c) ==
    /\ "shutdown" \in Calls /\ turn = None /\ Handed /\ pc[c] = "idle"
    /\ shutdown' = TRUE
    /\ cancelled' = IF TaskInProgress THEN cancelled \cup {taskRef} ELSE cancelled
    /\ StopBody(c)

\* Unsubscribe is answered, or fails with an error that stop() swallows or not;
\* the camera may have carried it out in each case
UnsubscribeReturns(c) ==
    /\ turn = None /\ pc[c] = "unsubscribe"
    /\ camera' \in {camera, camera \ {svc[target[c]].addr}}
    /\ Suspend(c, "idle") /\ Forget(c)
    /\ UNCHANGED <<attrVars, timerVars, poolVars, spent, ghostVars, shutdown,
                   taskRef, cancelled>>

\* The consumer closes a service it can reach, as ONVIFCamera.close() does for
\* each of them
CloseService(k) ==
    /\ "close" \in Calls /\ turn = None /\ services[k] # None
    /\ svc' = [svc EXCEPT ![services[k]].open = FALSE]
    /\ consumerClosed' = TRUE
    /\ UNCHANGED <<attrVars, timerVars, services, addrVars, localVars, spent,
                   wish, shutdown, taskRef, camera, pc, cancelled, turn>>

\* update_xaddrs() replaces the dictionary of addresses by an empty one and
\* fills it from GetServices or GetCapabilities, which do not know the
\* subscription's address
Rediscover ==
    /\ Rediscovery /\ turn = None
    /\ \/ xaddr' = None /\ discovering' = TRUE
       \/ discovering /\ discovering' = FALSE /\ UNCHANGED xaddr
    /\ UNCHANGED <<attrVars, timerVars, services, svc, localVars, spent,
                   ghostVars, shutdown, taskRef, camera, pc, cancelled, turn>>

\* The camera reboots or lets subscriptions expire
CameraForgets ==
    /\ turn = None /\ Fault
    /\ \E gone \in SUBSET camera : gone # {} /\ camera' = camera \ gone
    /\ UNCHANGED <<attrVars, timerVars, poolVars, localVars, ghostVars,
                   shutdown, taskRef, pc, cancelled, turn>>

-----------------------------------------------------------------------------
Init ==
    /\ subscription = None /\ service = None
    /\ shutdown = FALSE
    /\ handle = None /\ armed = {} /\ taskRef = None
    /\ services = [k \in Keys |-> None] /\ xaddr = None /\ discovering = FALSE
    /\ svc = [s \in Svc |-> [addr |-> None, open |-> FALSE]]
    /\ camera = {}
    /\ pc = [p \in Procs |-> "idle"]
    /\ cancelled = {}
    /\ target = [p \in Procs |-> None] /\ want = [p \in Procs |-> None]
    /\ turn = None
    /\ spent = 0
    /\ wish = "off" /\ consumerClosed = FALSE

ConsumerStep(c) == UnsubscribeReturns(c) \/ StartStep(c)

Next ==
    \/ \E h \in Timers : TimerFires(h)
    \/ \E t \in Tasks : TaskStep(t) \/ StartStep(t)
    \/ \E c \in Consumers : Start(c) \/ Stop(c) \/ Shutdown(c) \/ ConsumerStep(c)
    \/ Pause \/ Resume
    \/ \E k \in Keys : CloseService(k)
    \/ Rediscover
    \/ CameraForgets

Spec == Init /\ [][Next]_vars

\* The event loop runs every callback that is due and resumes every coroutine
\* that can go on, and each request ends within ClientTimeout(total=90): an
\* answer, an error or the timeout.
Fairness ==
    /\ WF_vars(\E h \in Timers : TimerFires(h))
    /\ \A t \in Tasks : WF_vars(TaskStep(t) \/ StartStep(t))
    /\ \A c \in Consumers : WF_vars(ConsumerStep(c))

FairSpec == Spec /\ Fairness

-----------------------------------------------------------------------------
(* Properties *)

\* Every timer the event loop holds is the one the manager can cancel: no path
\* that schedules a renewal leaves an earlier timer behind.
SingleTimer == armed \subseteq {handle}

\* Every unfinished background task is the one shutdown() can cancel.
SingleTask == \A t \in Tasks : Active(t) => t = taskRef

Starting == \E p \in Procs : pc[p] \in StartPoints

\* The renewal loop does not die by itself: as long as the consumer wants the
\* manager to run and has closed nothing, a timer is armed or a task at work.
LoopAlive ==
    wish = "run" /\ ~shutdown /\ ~consumerClosed =>
        armed # {} \/ \E t \in Tasks : Active(t)

\* After shutdown(), whatever was in flight when it was called, no timer is
\* armed until the consumer itself asks for one.
ShutdownDisarms == shutdown /\ wish = "stopped" => armed = {}

\* The renewals and the pulls go to one subscription, the last one the camera gave
\* out: both services the manager holds are at its address, however the attempts
\* before went wrong.
HeldServicesCurrent ==
    ~Starting /\ ~shutdown /\ subscription # None /\ service # None =>
        /\ svc[subscription].addr = svc[service].addr
        /\ xaddr \in {None, svc[subscription].addr}

\* The manager is never left with a service whose session the library closed.
HeldSessionsOpen ==
    ~Starting /\ ~shutdown /\ ~consumerClosed =>
        /\ subscription # None => svc[subscription].open
        /\ service # None => svc[service].open

\* Every open session belongs to a registered service, so that
\* ONVIFCamera.close() reaches it.
NoSessionLeak ==
    \A s \in Svc : svc[s].open => \E k \in Keys : services[k] = s

\* Once shut down, no background task sends a request to the camera.
ShutdownQuiet ==
    [][\A t \in Tasks : shutdown /\ pc'[t] \in RequestPoints => pc'[t] = pc[t]]_vars

\* Once shut down, the background tasks come to rest for good: all that is ever
\* left of them is a task that returns at its first step.
ShutdownQuiesces ==
    \A t \in Tasks : shutdown ~> [](pc[t] \in {"idle", "spawned"})

\* When faults cease and the consumer keeps the manager running, the manager
\* ends up with a subscription that the camera knows and an open session to it.
Subscribed ==
    /\ subscription # None
    /\ svc[subscription].open /\ svc[subscription].addr \in camera
Recovers ==
    <>[](wish = "run" /\ ~shutdown /\ ~consumerClosed) => <>[]Subscribed

\* What the program sees of the manager is the loop RenewalLoop promises: it is
\* what the timers and the background tasks amount to
Loop == INSTANCE RenewalLoop WITH
    wanted   <- IF wish \in {"off", "starting"} THEN "none" ELSE wish,
    starting <- \E c \in Consumers : pc[c] \in StartPoints,
    alive    <- armed # {} \/ \E t \in Tasks : Active(t),
    down     <- shutdown,
    severed  <- consumerClosed,
    served   <- Subscribed

\* No interleaving of pause(), resume(), stop(), shutdown(), a closed service,
\* faults and rediscovery lets the loop end while the program wants it, start it
\* before start() returned or after a failed start(), or find a subscription when
\* nothing is at work.
LoopKept == Loop!Spec

\* And when the program goes on wanting it, the loop that has lost its
\* subscription finds a new one.
LoopServes == Loop!FairSpec

\* "Stop the manager.": once stop() has returned and every task is done, nothing
\* is armed until the next start() or resume().
StopDisarms ==
    wish = "stopped" /\ (\A p \in Procs : ~Active(p)) => armed = {}

=============================================================================
