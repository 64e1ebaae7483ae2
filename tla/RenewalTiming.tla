---------------------------- MODULE RenewalTiming ----------------------------
(***************************************************************************)
(* When the renewals of one subscription happen: the renewal loop of       *)
(* onvif/managers.py and the termination times of onvif/client.py, against *)
(* a camera whose subscription runs out.                                   *)
(*                                                                         *)
(* Time is counted in ticks and every clock of the model counts down.      *)
(* SubscriptionManager has the same loop with the coroutines that disturb  *)
(* it and without the time.                                                *)
(***************************************************************************)
EXTENDS Integers

CONSTANTS
    Interval,   \* _interval
    Minimum,    \* MINIMUM_SUBSCRIPTION_SECONDS
    Rest,       \* SUBSCRIPTION_RESTART_INTERVAL_ON_ERROR
    Attempts,   \* DEFAULT_ATTEMPTS
    Backoff,    \* BACKOFF_TIME
    Latency,    \* bound: a request is answered, or lost, within so many ticks
    Cameras,    \* the cameras: cap, relative and tells of each
    Errs,       \* dt_diff less the true offset of the camera's clock
    Losses,     \* bound: connection errors since a request last succeeded
    Budget,     \* bound: reboots and timeouts
    None, Refused

\* cap: the longest subscription granted; relative: the one granted for a
\* relative time; tells: whether answers carry CurrentTime
CameraKinds == [cap : Nat, relative : Nat, tells : BOOLEAN]

ASSUME TimingAssumption ==
    /\ Interval \in Nat /\ Minimum \in Nat /\ Rest \in Nat
    /\ Attempts \in Nat \ {0} /\ Backoff \in Nat /\ Latency \in Nat
    /\ Cameras \subseteq CameraKinds /\ Errs \subseteq Int
    /\ Losses \in Nat /\ Budget \in Nat
    /\ None \notin Int /\ Refused \notin Int /\ None # Refused

VARIABLES
    camera,    \* the camera
    err,       \* the error of dt_diff
    broken,    \* _has_broken_relative_timestamps
    running,   \* start() has returned: the loop schedules itself from here on
    phase,     \* what the manager waits for
    timer,     \* ticks to the renewal, or to the end of the backoff
    attempt,   \* attempts of this renewal that are over
    age,       \* ticks since the pending request was sent
    asked,     \* its termination time in ticks from now, or None if relative
    told,      \* the interval in the camera's answer, Refused, or None
    left,      \* ticks left of the subscription the manager holds
    fresh,     \* ticks left of the one that Subscribe made
    losses, spent,
    dark       \* history: ticks without a subscription since the last fault

requestVars == <<age, asked, told>>
vars == <<camera, err, broken, running, phase, timer, attempt, requestVars,
          left, fresh, losses, spent, dark>>

InFlight == phase \in {"subscribe", "fix", "renew"}

TypeOK ==
    /\ camera \in Cameras /\ err \in Errs
    /\ broken \in BOOLEAN /\ running \in BOOLEAN
    /\ phase \in {"off", "subscribe", "fix", "renew", "backoff", "wait"}
    /\ timer \in Nat /\ attempt \in 0..Attempts - 1 /\ age \in 0..Latency
    /\ asked \in Int \cup {None} /\ told \in Nat \cup {None, Refused}
    /\ left \in Nat /\ fresh \in Nat
    /\ losses \in 0..Losses /\ spent \in 0..Budget
    /\ dark \in Nat

-----------------------------------------------------------------------------
Larger(a, b) == IF a > b THEN a ELSE b
Smaller(a, b) == IF a < b THEN a ELSE b
Less(n) == IF n = 0 THEN 0 ELSE n - 1

\* _calculate_next_renewal_call_at(), in whole ticks
Delay(cam, g) ==
    LET d == IF cam.tells THEN g ELSE Interval IN (4 * Larger(d, Minimum) + 4) \div 5

\* has_broken_relative_time()
Broken(cam, g) == cam.tells /\ 2 * g < Interval

\* Slip: the termination time stays relative
SendRelative(p) ==
    /\ phase' = p /\ age' = 0 /\ told' = None
    /\ asked' = None

\* A request leaves, with the time of get_next_termination_time()
Send(p) ==
    /\ phase' = p /\ age' = 0 /\ told' = None
    /\ asked' = IF broken' THEN Interval + err ELSE None

\* No request is pending
Still(p) == phase' = p /\ age' = 0 /\ asked' = None /\ told' = None

\* What the camera grants, 0 for a time that is over
Grant == IF asked = None THEN Smaller(camera.cap, camera.relative)
         ELSE Larger(0, Smaller(camera.cap, asked))

-----------------------------------------------------------------------------
\* The consumer starts the manager
Start ==
    /\ phase = "off"
    /\ UNCHANGED broken
    /\ Send("subscribe")
    /\ UNCHANGED <<camera, err, running, timer, attempt, left, fresh, losses, spent, dark>>

\* The camera handles the request.  It knows a subscription until it runs out.
Handled ==
    /\ InFlight /\ told = None
    /\ LET known == phase = "subscribe" \/ left > 0
           granted == known /\ Grant > 0 IN
       /\ told' = IF granted THEN Grant ELSE Refused
       /\ fresh' = IF granted /\ phase = "subscribe" THEN Grant ELSE fresh
       /\ left' = IF granted /\ phase # "subscribe" THEN Grant ELSE left
    /\ UNCHANGED <<camera, err, broken, running, phase, timer, attempt, age, asked,
                   losses, spent, dark>>

\* The renewal is scheduled
Schedule ==
    /\ Still("wait")
    /\ timer' = Delay(camera, told)
    /\ attempt' = 0 /\ losses' = 0
    /\ running' = TRUE

\* The answer to Subscribe: the manager holds the new subscription, and renews it
\* at once with an absolute time if the camera got the relative one wrong
Subscribed ==
    /\ phase = "subscribe" /\ told \in Nat
    /\ left' = fresh /\ fresh' = 0
    /\ \/ /\ Broken(camera, told)
          /\ broken' = TRUE
          /\ Send("fix")
          /\ UNCHANGED <<timer, attempt, losses, running>>
       \/ /\ ~Broken(camera, told)
          /\ UNCHANGED broken
          /\ Schedule
    /\ UNCHANGED <<camera, err, spent, dark>>

Renewed ==
    /\ phase \in {"fix", "renew"} /\ told \in Nat
    /\ Schedule
    /\ UNCHANGED <<camera, err, broken, left, fresh, spent, dark>>

\* _start() raised: start() raises, the background task tries again later
StartFails ==
    /\ IF running THEN Still("wait") /\ timer' = Rest
                  ELSE Still("off") /\ UNCHANGED timer
    /\ attempt' = 0 /\ fresh' = 0
    /\ UNCHANGED <<broken, running>>

\* Slip: a renewal that failed is tried again later
RenewRests ==
    /\ Still("wait") /\ timer' = Rest
    /\ attempt' = 0
    /\ UNCHANGED <<broken, running, fresh>>

\* Renew raised: subscribe again
RenewFails ==
    /\ UNCHANGED broken
    /\ Send("subscribe")
    /\ attempt' = 0
    /\ UNCHANGED <<running, timer, fresh>>

RequestRefused ==
    /\ told = Refused
    /\ IF phase = "renew" THEN RenewFails ELSE StartFails
    /\ UNCHANGED <<camera, err, left, losses, spent, dark>>

\* Slip: a connection error of Renew is never retried
LostForGood ==
    /\ InFlight /\ losses < Losses
    /\ losses' = losses + 1
    /\ IF phase = "renew" THEN RenewFails ELSE StartFails
    /\ UNCHANGED <<camera, err, left, spent, dark>>

\* Slip: one attempt too many
LostOnceMore ==
    /\ InFlight /\ losses < Losses
    /\ losses' = losses + 1
    /\ \/ /\ phase = "renew" /\ attempt < Attempts
          /\ Still("backoff") /\ timer' = Backoff
          /\ attempt' = attempt + 1
          /\ UNCHANGED <<broken, running, fresh>>
       \/ phase # "renew" /\ StartFails
    /\ UNCHANGED <<camera, err, left, spent, dark>>

\* A connection error: only a Renew of the loop is attempted again
ConnectionLost ==
    /\ InFlight /\ losses < Losses
    /\ losses' = losses + 1
    /\ \/ /\ phase = "renew" /\ attempt + 1 < Attempts
          /\ Still("backoff") /\ timer' = Backoff
          /\ attempt' = attempt + 1
          /\ UNCHANGED <<broken, running, fresh>>
       \/ phase = "renew" /\ attempt + 1 = Attempts /\ RenewFails
       \/ phase # "renew" /\ StartFails
    /\ UNCHANGED <<camera, err, left, spent, dark>>

\* A TimeoutError is not a connection error
TimedOut ==
    /\ InFlight /\ age = Latency /\ spent < Budget
    /\ spent' = spent + 1 /\ dark' = 0
    /\ IF phase = "renew" THEN RenewFails ELSE StartFails
    /\ UNCHANGED <<camera, err, left, losses>>

TimerFires ==
    /\ phase \in {"wait", "backoff"} /\ timer = 0
    /\ UNCHANGED broken
    /\ Send("renew")
    /\ UNCHANGED <<camera, err, running, timer, attempt, left, fresh, losses, spent, dark>>

\* The camera reboots and forgets its subscriptions
Reboots ==
    /\ spent < Budget /\ left > 0
    /\ spent' = spent + 1
    /\ left' = 0 /\ fresh' = 0 /\ dark' = 0
    /\ told' = IF phase = "subscribe" /\ told # None THEN Refused ELSE told
    /\ UNCHANGED <<camera, err, broken, running, phase, timer, attempt, age, asked,
                   losses>>

Tick ==
    /\ \/ phase \in {"wait", "backoff"} /\ timer > 0 /\ timer' = timer - 1
       \/ (InFlight \/ phase = "off") /\ UNCHANGED timer
    /\ IF InFlight THEN age < Latency /\ age' = age + 1 ELSE UNCHANGED age
    /\ asked' = IF asked = None THEN None ELSE asked - 1
    /\ left' = Less(left) /\ fresh' = Less(fresh)
    /\ dark' = IF left > 0 \/ ~running THEN 0 ELSE dark + 1
    /\ UNCHANGED <<camera, err, broken, running, phase, attempt, told, losses, spent>>

Init ==
    /\ camera \in Cameras /\ err \in Errs
    /\ broken = FALSE /\ running = FALSE
    /\ phase = "off" /\ timer = 0 /\ attempt = 0
    /\ age = 0 /\ asked = None /\ told = None
    /\ left = 0 /\ fresh = 0 /\ losses = 0 /\ spent = 0 /\ dark = 0

Next ==
    \/ Start \/ Handled \/ Subscribed \/ Renewed \/ RequestRefused
    \/ ConnectionLost \/ TimedOut \/ TimerFires \/ Reboots \/ Tick

Spec == Init /\ [][Next]_vars

-----------------------------------------------------------------------------
(* Properties *)

\* What the camera may grant at the end of a start or to a renewal
Grants(cam) ==
    LET relative == Smaller(cam.cap, cam.relative) IN
    {g \in {relative} : ~Broken(cam, g)} \cup
    IF Broken(cam, relative)
    THEN {Larger(0, Smaller(cam.cap, Interval + e - a)) : e \in Errs, a \in 0..Latency}
    ELSE {}

\* What must be left of a grant when its renewal is due: the answer took up to
\* Latency, and so does every attempt, a backoff after each that is lost
Reserve == 2 * Latency + (Attempts - 1) * (Latency + Backoff)
Supported == \A cam \in Cameras : \A g \in Grants(cam) : g - Delay(cam, g) > Reserve

\* So far the camera has stayed up, and the retry can still absorb the connection
\* errors since a request last succeeded
Settled == spent = 0 /\ losses < Attempts

\* Renewal at _RENEWAL_PERCENTAGE of the granted time is early enough: with a
\* supported camera, and while nothing worse happens than connection errors that
\* the retry absorbs, the subscription never runs out once start() has returned.
NeverLapses == running /\ Settled => left > 0

\* "to prevent subscribing over and over again": as long as that is so, the manager
\* renews the subscription it has.
NeverResubscribes == [][running /\ Settled' => phase' # "subscribe"]_vars

\* After the last reboot or timeout the manager is without a subscription no longer
\* than it takes the renewal it had scheduled to come and to be refused, and then,
\* for each connection error, a rest and another renewal that is refused.
LongestGrant == CHOOSE g \in {Interval} \cup {Interval + e : e \in Errs} :
                    \A e \in Errs \cup {0} : Interval + e <= g
LongestDelay == Delay([tells |-> TRUE], LongestGrant)
DarkMax == LongestDelay + 3 * Latency + Losses * (Rest + 2 * Latency)
BrieflyDark == dark <= DarkMax

\* What that counts on: no camera grants more than it is asked for, the errors of the
\* offset have a limit, and neither a rest nor a backoff outlasts what it stands in for
Paced ==
    /\ \A cam \in Cameras : cam.relative <= Interval
    /\ \E e \in Errs \cup {0} : \A f \in Errs : f <= e
    /\ Rest <= LongestDelay /\ Backoff <= Rest + Latency

=============================================================================
