-------------------------- MODULE RenewalTimingProofs --------------------------
(***************************************************************************)
(* Proofs about RenewalTiming: the types of its state, that the            *)
(* subscription neither runs out nor is made again while the camera stays  *)
(* up, and how long it is missing after anything else.                     *)
(***************************************************************************)
EXTENDS RenewalTiming, TLAPS

\* What the camera grants for a relative time
Rel == Smaller(camera.cap, camera.relative)
Safe(g) == g - Delay(camera, g) > Reserve
\* The ticks that the connection errors still to be absorbed may cost
Spare == (Attempts - 1 - losses) * (Latency + Backoff)

\* Between a request and its answer
Pending ==
    /\ InFlight => asked = IF broken THEN Interval + err - age ELSE None
    /\ ~InFlight => asked = None /\ told = None /\ age = 0
    /\ told \in Nat => told > 0 /\ IF broken THEN told \in Grants(camera) ELSE told = Rel
    /\ phase = "subscribe" /\ told \in Nat => fresh + age >= told

\* broken is what the camera's relative answer makes it, and the loop is under way
\* once there is something to renew
Judged ==
    /\ broken => Broken(camera, Rel)
    /\ phase = "fix" => broken
    /\ phase \in {"wait", "renew", "backoff"} => running
    /\ running /\ ~broken => ~Broken(camera, Rel)

\* Whatever happens to the camera
FrameInv == TypeOK /\ Pending /\ Judged

\* The subscription is still there when the answer to its renewal arrives
Held == phase \in {"fix", "renew"} /\ told \in Nat => left + age >= told

\* The subscription outlasts all that may come before its renewal
Outlasts ==
    /\ phase \in {"wait", "renew", "backoff"}
    /\ attempt = losses /\ told # Refused
    /\ phase \in {"wait", "backoff"} => left > timer + Latency + Spare
    /\ phase = "renew" /\ told = None => left > (Latency - age) + Spare

\* While the camera has stayed up; the last part as long as the retry can absorb
\* the connection errors
LeaseInv ==
    /\ FrameInv
    /\ spent = 0 => Held
    /\ spent = 0 /\ losses < Attempts /\ running => Outlasts

-----------------------------------------------------------------------------
LEMMA DelayNat == ASSUME NEW cam \in CameraKinds, NEW g \in Nat
                  PROVE  Delay(cam, g) \in Nat
  BY TimingAssumption DEF Delay, Larger, CameraKinds

LEMMA GrantNat == TypeOK => Grant \in Nat
  BY TimingAssumption DEF TypeOK, Grant, Smaller, Larger, CameraKinds

\* The type of a request that leaves
LEMMA SendType ==
    ASSUME TypeOK, NEW p \in {"subscribe", "fix", "renew"}, broken' \in BOOLEAN, Send(p)
    PROVE  /\ phase' \in {"subscribe", "fix", "renew"}
           /\ age' \in 0..Latency /\ asked' \in Int \cup {None}
           /\ told' \in Nat \cup {None, Refused}
  BY TimingAssumption DEF TypeOK, Send

LEMMA StartFailsType ==
    ASSUME TypeOK, StartFails
    PROVE  /\ broken' \in BOOLEAN /\ running' \in BOOLEAN
           /\ phase' \in {"off", "wait"} /\ timer' \in Nat /\ attempt' \in 0..Attempts - 1
           /\ age' \in 0..Latency /\ asked' \in Int \cup {None}
           /\ told' \in Nat \cup {None, Refused} /\ fresh' \in Nat
<1>1. attempt' \in 0..Attempts - 1 /\ timer' \in Nat /\ age' \in 0..Latency /\ fresh' \in Nat
  BY TimingAssumption DEF TypeOK, StartFails, Still
<1>2. /\ broken' \in BOOLEAN /\ running' \in BOOLEAN /\ phase' \in {"off", "wait"}
      /\ asked' \in Int \cup {None} /\ told' \in Nat \cup {None, Refused}
  BY Zenon DEF TypeOK, StartFails, Still
<1> QED
  BY <1>1, <1>2

LEMMA RenewFailsType ==
    ASSUME TypeOK, RenewFails
    PROVE  /\ broken' \in BOOLEAN /\ running' \in BOOLEAN
           /\ phase' \in {"subscribe", "fix", "renew"} /\ timer' \in Nat
           /\ attempt' \in 0..Attempts - 1
           /\ age' \in 0..Latency /\ asked' \in Int \cup {None}
           /\ told' \in Nat \cup {None, Refused} /\ fresh' \in Nat
<1>1. broken' \in BOOLEAN /\ running' \in BOOLEAN
  BY DEF TypeOK, RenewFails
<1>2. attempt' \in 0..Attempts - 1 /\ timer' \in Nat /\ fresh' \in Nat
  BY TimingAssumption DEF TypeOK, RenewFails
<1> QED
  BY <1>1, <1>2, SendType DEF RenewFails

LEMMA ScheduleType ==
    ASSUME TypeOK, told \in Nat, Schedule
    PROVE  /\ running' \in BOOLEAN
           /\ phase' = "wait" /\ timer' \in Nat /\ attempt' \in 0..Attempts - 1
           /\ age' \in 0..Latency /\ asked' \in Int \cup {None}
           /\ told' \in Nat \cup {None, Refused} /\ losses' \in 0..Losses
<1>1. timer' \in Nat
  BY TimingAssumption, DelayNat DEF TypeOK, Schedule
<1>2. attempt' \in 0..Attempts - 1 /\ age' \in 0..Latency /\ losses' \in 0..Losses
  BY TimingAssumption DEF Schedule, Still
<1> QED
  BY <1>1, <1>2, Zenon DEF Schedule, Still

LEMMA TypeStep == TypeOK /\ [Next]_vars => TypeOK'
<1> SUFFICES ASSUME TypeOK, [Next]_vars PROVE TypeOK'
  OBVIOUS
<1> USE TimingAssumption
<1>1. CASE Start
  BY <1>1, SendType DEF Start, TypeOK
<1>2. CASE Handled
  BY <1>2, GrantNat DEF Handled, TypeOK
<1>3. CASE Subscribed
  <2>1. CASE Broken(camera, told) /\ Send("fix")
    BY <1>3, <2>1, SendType DEF Subscribed, TypeOK
  <2>2. CASE ~Broken(camera, told) /\ Schedule
    BY <1>3, <2>2, ScheduleType DEF Subscribed, TypeOK
  <2> QED
    BY <1>3, <2>1, <2>2 DEF Subscribed
<1>4. CASE Renewed
  BY <1>4, ScheduleType DEF Renewed, TypeOK
<1>5. CASE RequestRefused
  BY <1>5, StartFailsType, RenewFailsType DEF RequestRefused, TypeOK
<1>6. CASE ConnectionLost
  BY <1>6, StartFailsType, RenewFailsType DEF ConnectionLost, TypeOK, Still
<1>7. CASE TimedOut
  BY <1>7, StartFailsType, RenewFailsType DEF TimedOut, TypeOK
<1>8. CASE TimerFires
  BY <1>8, SendType DEF TimerFires, TypeOK
<1>9. CASE Reboots
  BY <1>9 DEF Reboots, TypeOK
<1>10. CASE Tick
  <2>1. timer' \in Nat
    BY <1>10 DEF Tick, TypeOK
  <2>2. age' \in 0..Latency /\ asked' \in Int \cup {None}
    BY <1>10 DEF Tick, TypeOK
  <2>3. left' \in Nat /\ fresh' \in Nat /\ dark' \in Nat
    BY <1>10 DEF Tick, TypeOK, Less
  <2>4. /\ UNCHANGED <<camera, err, broken, running, phase, attempt, told, losses, spent>>
    BY <1>10 DEF Tick
  <2> QED
    BY <2>1, <2>2, <2>3, <2>4 DEF TypeOK
<1>11. CASE UNCHANGED vars
  BY <1>11 DEF TypeOK, vars, requestVars
<1> QED
  BY <1>1, <1>2, <1>3, <1>4, <1>5, <1>6, <1>7, <1>8, <1>9, <1>10, <1>11 DEF Next

LEMMA TypeInit == Init => TypeOK
<1> SUFFICES ASSUME Init PROVE TypeOK
  OBVIOUS
<1>1. /\ timer \in Nat /\ attempt \in 0..Attempts - 1 /\ age \in 0..Latency
      /\ left \in Nat /\ fresh \in Nat /\ dark \in Nat
      /\ losses \in 0..Losses /\ spent \in 0..Budget
  BY TimingAssumption DEF Init
<1>2. /\ camera \in Cameras /\ err \in Errs /\ broken \in BOOLEAN /\ running \in BOOLEAN
      /\ phase = "off" /\ asked = None /\ told = None
  BY Zenon DEF Init
<1> QED
  BY <1>1, <1>2 DEF TypeOK

\* The state is correctly typed, for every camera, latency and number of faults.
THEOREM TimingTyped == Spec => []TypeOK
  BY TypeInit, TypeStep, PTL DEF Spec

-----------------------------------------------------------------------------
(* What is pending, asked and told, in every state *)

\* The request that leaves is one that Pending allows
LEMMA SendPending ==
    ASSUME NEW p \in {"subscribe", "fix", "renew"}, Send(p),
           broken' \in BOOLEAN, UNCHANGED <<camera, err>>, err \in Errs
    PROVE  /\ Pending' /\ phase' = p /\ told' = None /\ age' = 0
<1>1. /\ phase' = p /\ age' = 0 /\ told' = None
      /\ asked' = IF broken' THEN Interval + err ELSE None
  BY DEF Send
<1>2. Interval + err' - age' = Interval + err
  BY <1>1, TimingAssumption
<1>3. asked' = IF broken' THEN Interval + err' - age' ELSE None
  BY <1>1, <1>2
<1>4. told' \notin Nat /\ InFlight'
  BY <1>1, TimingAssumption DEF InFlight
<1> QED
  BY <1>1, <1>3, <1>4 DEF Pending

\* Nothing is pending
LEMMA StillPending ==
    ASSUME NEW p \in {"off", "wait", "backoff"}, Still(p)
    PROVE  Pending' /\ phase' = p /\ told' = None
  BY TimingAssumption DEF Still, Pending, InFlight

\* What the camera grants is one of its grants
LEMMA GrantListed ==
    ASSUME TypeOK, Pending, Judged, InFlight, ~broken => ~Broken(camera, Rel)
    PROVE  Grant \in Grants(camera)
<1>1. camera \in Cameras /\ err \in Errs /\ age \in 0..Latency
  BY DEF TypeOK
<1>2. CASE broken
  <2>1. Broken(camera, Rel) /\ asked = Interval + err - age
    BY <1>2 DEF Judged, Pending
  <2>2. asked # None
    BY <1>1, <2>1, TimingAssumption
  <2>3. Grant = Larger(0, Smaller(camera.cap, Interval + err - age))
    BY <2>1, <2>2 DEF Grant
  <2> QED
    BY <1>1, <2>1, <2>3 DEF Grants, Rel
<1>3. CASE ~broken
  <2>1. asked = None /\ Grant = Rel
    BY <1>3 DEF Pending, Grant, Rel
  <2> QED
    BY <1>3, <2>1 DEF Grants, Rel
<1> QED
  BY <1>2, <1>3

\* What it has granted, too
LEMMA ToldListed ==
    ASSUME TypeOK, Pending, Judged, told \in Nat, ~broken => ~Broken(camera, Rel)
    PROVE  told \in Grants(camera)
  BY DEF Pending, Grants, Rel

LEMMA FailureFrames ==
    ASSUME FrameInv, StartFails \/ RenewFails, UNCHANGED <<camera, err>>
    PROVE  Pending' /\ Judged'
<1>1. UNCHANGED <<broken, running>> /\ TypeOK
  BY DEF StartFails, RenewFails, FrameInv
<1>2. Pending' /\ phase' \in {"subscribe", "off", "wait"} /\ (phase' = "wait" => running)
  BY <1>1, SendPending, StillPending DEF StartFails, RenewFails, TypeOK
<1>3. Judged'
  BY <1>1, <1>2 DEF FrameInv, Judged, Rel
<1> QED
  BY <1>2, <1>3

LEMMA HandledFrames ==
    ASSUME FrameInv, Handled
    PROVE  Pending' /\ Judged'
<1>0. TypeOK /\ Pending /\ Judged
  BY DEF FrameInv
<1> DEFINE granted == (phase = "subscribe" \/ left > 0) /\ Grant > 0
<1>1. /\ InFlight /\ told = None
      /\ told' = (IF granted THEN Grant ELSE Refused)
      /\ fresh' = (IF granted /\ phase = "subscribe" THEN Grant ELSE fresh)
      /\ UNCHANGED <<camera, err, broken, running, phase, timer, attempt, age, asked,
                     losses>>
  BY DEF Handled
<1>2. Grant \in Nat /\ age \in Nat /\ Refused \notin Nat
  BY <1>0, GrantNat, TimingAssumption DEF TypeOK
<1>3. told' \in Nat => told' = Grant /\ granted
  BY <1>1, <1>2
<1>4. InFlight' /\ (InFlight' <=> InFlight)
  BY <1>1 DEF InFlight
<1>5. broken => Grant \in Grants(camera)
  BY <1>0, <1>1, GrantListed
<1>6. ~broken => Grant = Rel
  BY <1>0, <1>1 DEF Pending, Grant, Rel
<1>7. UNCHANGED <<Rel, Grants(camera)>>
  BY <1>1 DEF Rel, Grants
<1>8. told' \in Nat => told' > 0 /\ IF broken' THEN told' \in Grants(camera)' ELSE told' = Rel'
  BY <1>1, <1>2, <1>3, <1>5, <1>6, <1>7
<1>9. phase' = "subscribe" /\ told' \in Nat => fresh' + age' >= told'
  BY <1>1, <1>2, <1>3
<1>a. Pending'
  BY <1>0, <1>1, <1>4, <1>8, <1>9 DEF Pending
<1>b. Judged'
  BY <1>0, <1>1 DEF Judged, Rel
<1> QED
  BY <1>a, <1>b

LEMMA AnswerFrames ==
    ASSUME FrameInv, Subscribed \/ Renewed
    PROVE  Pending' /\ Judged'
<1>0. /\ TypeOK /\ Pending /\ Judged /\ told \in Nat
      /\ UNCHANGED <<camera, err>>
  BY DEF FrameInv, Subscribed, Renewed
<1>1. UNCHANGED Rel
  BY <1>0 DEF Rel
<1>2. CASE Subscribed /\ Broken(camera, told) /\ broken' = TRUE /\ Send("fix")
             /\ UNCHANGED running
  <2>1. Pending' /\ phase' = "fix"
    BY <1>0, <1>2, SendPending DEF TypeOK
  <2>2. Broken(camera, Rel)
    BY <1>0, <1>2 DEF Pending, Judged
  <2> QED
    BY <1>1, <1>2, <2>1, <2>2, <1>0 DEF Judged
<1>3. ASSUME Schedule, UNCHANGED broken, ~broken => ~Broken(camera, Rel)
      PROVE  Pending' /\ Judged'
  <2>1. Pending' /\ phase' = "wait" /\ running' = TRUE
    BY <1>3, StillPending DEF Schedule
  <2> QED
    BY <1>0, <1>1, <1>3, <2>1 DEF Judged
<1>4. CASE Subscribed /\ ~Broken(camera, told) /\ UNCHANGED broken /\ Schedule
  BY <1>0, <1>3, <1>4 DEF Pending
<1>5. CASE Renewed
  BY <1>0, <1>3, <1>5 DEF Renewed, Judged
<1> QED
  BY <1>2, <1>4, <1>5 DEF Subscribed

LEMMA TickFrames ==
    ASSUME FrameInv, Tick
    PROVE  Pending' /\ Judged'
<1>0. TypeOK /\ Pending /\ Judged
  BY DEF FrameInv
<1>1. /\ asked' = IF asked = None THEN None ELSE asked - 1
      /\ fresh' = Less(fresh)
      /\ UNCHANGED <<camera, err, broken, running, phase, attempt, told, losses, spent>>
  BY DEF Tick
<1>2. InFlight => age < Latency /\ age' = age + 1
  BY DEF Tick
<1>3. ~InFlight => age' = age
  BY DEF Tick
<1>4. InFlight' <=> InFlight
  BY <1>1 DEF InFlight
<1>t. /\ age \in Nat /\ fresh \in Nat /\ err \in Int /\ Interval \in Int
  BY <1>0, TimingAssumption DEF TypeOK
<1>5. fresh' + 1 >= fresh /\ fresh' \in Nat
  BY <1>1, <1>t DEF Less
<1>6. InFlight => asked' = IF broken' THEN Interval + err' - age' ELSE None
  <2> SUFFICES ASSUME InFlight
               PROVE  asked' = IF broken' THEN Interval + err' - age' ELSE None
    OBVIOUS
  <2>1. CASE broken
    <3>1. asked = Interval + err - age /\ asked # None
      BY <1>0, <1>t, <2>1, TimingAssumption DEF Pending
    <3>2. asked' = Interval + err - (age + 1)
      BY <1>1, <1>t, <3>1
    <3> QED
      BY <1>1, <1>2, <2>1, <3>2
  <2>2. CASE ~broken
    BY <1>0, <1>1, <2>2 DEF Pending
  <2> QED
    BY <2>1, <2>2
<1>7. ~InFlight => asked' = None /\ told' = None /\ age' = 0
  BY <1>0, <1>1, <1>3 DEF Pending
<1>8. phase = "subscribe" /\ told \in Nat => fresh' + age' >= told
  <2>1. phase = "subscribe" /\ told \in Nat => fresh + age >= told /\ age' = age + 1
    BY <1>0, <1>2 DEF Pending, InFlight
  <2>2. \A x, y, i, j, k \in Nat : y + 1 >= x /\ x + i >= k /\ j = i + 1 => y + j >= k
    OBVIOUS
  <2>3. age + 1 \in Nat
    BY <1>t
  <2> QED
    BY <1>t, <1>5, <2>1, <2>2, <2>3
<1>9. told' \in Nat => told' > 0 /\ IF broken' THEN told' \in Grants(camera)' ELSE told' = Rel'
  BY <1>0, <1>1 DEF Pending, Rel, Grants
<1>a. Pending'
  BY <1>1, <1>4, <1>6, <1>7, <1>8, <1>9 DEF Pending
<1>b. Judged'
  BY <1>0, <1>1 DEF Judged, Rel
<1> QED
  BY <1>a, <1>b

LEMMA FrameStep == FrameInv /\ [Next]_vars => FrameInv'
<1> SUFFICES ASSUME FrameInv, [Next]_vars PROVE Pending' /\ Judged'
  BY TypeStep DEF FrameInv
<1>0. TypeOK /\ Pending /\ Judged
  BY DEF FrameInv
<1>1. CASE Start
  <2>1. Pending' /\ phase' = "subscribe" /\ UNCHANGED <<camera, broken, running>>
    BY <1>0, <1>1, SendPending DEF Start, TypeOK
  <2> QED
    BY <1>0, <2>1 DEF Judged, Rel
<1>2. CASE TimerFires
  <2>1. Pending' /\ phase' = "renew" /\ UNCHANGED <<camera, broken, running>>
    BY <1>0, <1>2, SendPending DEF TimerFires, TypeOK
  <2>2. running
    BY <1>0, <1>2 DEF TimerFires, Judged
  <2> QED
    BY <1>0, <2>1, <2>2 DEF Judged, Rel
<1>3. CASE RequestRefused \/ TimedOut
  BY <1>3, FailureFrames DEF RequestRefused, TimedOut
<1>4. CASE ConnectionLost
  <2>1. CASE phase = "renew" /\ Still("backoff") /\ UNCHANGED <<camera, broken, running>>
    <3>1. Pending' /\ phase' = "backoff"
      BY <2>1, StillPending
    <3> QED
      BY <1>0, <2>1, <3>1 DEF Judged, Rel
  <2> QED
    BY <1>4, <2>1, FailureFrames DEF ConnectionLost
<1>5. CASE Reboots
  <2>1. /\ told' \in Nat => told' = told /\ phase # "subscribe"
        /\ told = None => told' = None
        /\ UNCHANGED <<camera, err, broken, running, phase, age, asked>>
    BY <1>0, <1>5, TimingAssumption DEF Reboots, TypeOK
  <2>2. UNCHANGED <<InFlight, Rel, Grants(camera)>>
    BY <2>1 DEF InFlight, Rel, Grants
  <2> QED
    BY <1>0, <2>1, <2>2 DEF Pending, Judged
<1>6. CASE UNCHANGED vars
  BY <1>0, <1>6 DEF Pending, Judged, InFlight, Rel, Grants, vars, requestVars
<1> QED
  BY <1>1, <1>2, <1>3, <1>4, <1>5, <1>6, HandledFrames, AnswerFrames, TickFrames DEF Next

LEMMA FrameInvariant == Spec => []FrameInv
<1>1. Init => FrameInv
  BY TypeInit, TimingAssumption DEF Init, FrameInv, Pending, Judged, InFlight
<1> QED
  BY <1>1, FrameStep, PTL DEF Spec

-----------------------------------------------------------------------------
(* The subscription never runs out while the camera stays up *)

\* What a step has to keep
Kept ==
    /\ Held'
    /\ losses' < Attempts /\ running' => Outlasts'

\* A connection error costs a request and a backoff
LEMMA SpareFalls ==
    ASSUME TypeOK, losses + 1 < Attempts, losses' = losses + 1
    PROVE  /\ Spare = Spare' + Latency + Backoff
           /\ Spare' \in Nat /\ Spare \in Nat
<1> DEFINE n == Attempts - 1 - losses
           c == Latency + Backoff
<1>1. n \in Nat /\ n - 1 \in Nat /\ c \in Nat
  BY TimingAssumption DEF TypeOK
<1>2. \A i, j \in Nat : i * j \in Nat
  OBVIOUS
<1>3. n * c = (n - 1) * c + c
  BY <1>1
<1>4. Attempts - 1 - losses' = n - 1
  BY TimingAssumption DEF TypeOK
<1>5. Spare = n * c /\ Spare' = (n - 1) * c
  BY <1>4 DEF Spare
<1> QED
  BY <1>1, <1>2, <1>3, <1>5, TimingAssumption

LEMMA SpareNat == ASSUME TypeOK, losses < Attempts PROVE Spare \in Nat
<1>1. Attempts - 1 - losses \in Nat /\ Latency + Backoff \in Nat
  BY TimingAssumption DEF TypeOK
<1>2. \A i, j \in Nat : i * j \in Nat
  OBVIOUS
<1> QED
  BY <1>1, <1>2 DEF Spare

LEMMA ReserveNat == Reserve \in Nat /\ Reserve >= 2 * Latency
<1>1. \A i, j \in Nat : i * j \in Nat
  OBVIOUS
<1>2. Attempts - 1 \in Nat /\ (Attempts - 1) * (Latency + Backoff) \in Nat
  BY <1>1, TimingAssumption
<1> QED
  BY <1>2, TimingAssumption DEF Reserve

LEMMA ReserveSpare == ASSUME TypeOK, losses < Attempts
                      PROVE  Reserve >= 2 * Latency + Spare
<1> DEFINE c == Latency + Backoff
           n == Attempts - 1
<1>1. c \in Nat /\ n - losses \in Nat /\ losses \in Nat /\ n \in Nat
  BY TimingAssumption DEF TypeOK
<1>2. n * c = (n - losses) * c + losses * c
  BY <1>1
<1>3. losses * c \in Nat /\ (n - losses) * c \in Nat
  BY <1>1
<1>4. n * c >= (n - losses) * c
  BY <1>1, <1>2, <1>3
<1> QED
  BY <1>1, <1>3, <1>4, TimingAssumption DEF Reserve, Spare

\* What the camera grants, and has granted, leaves the reserve
LEMMA GrantSafe ==
    ASSUME Supported, FrameInv, ~broken => ~Broken(camera, Rel)
    PROVE  /\ InFlight => Safe(Grant) /\ Grant > Reserve
           /\ told \in Nat => Safe(told) /\ told > Reserve
<1>0. TypeOK /\ Pending /\ Judged /\ camera \in Cameras /\ camera \in CameraKinds
  BY TimingAssumption DEF FrameInv, TypeOK
<1>1. ASSUME NEW g \in Nat, g \in Grants(camera)
      PROVE  Safe(g) /\ g > Reserve
  <2>1. g - Delay(camera, g) > Reserve
    BY <1>0, <1>1 DEF Supported
  <2> QED
    BY <1>0, <2>1, DelayNat, ReserveNat DEF Safe
<1> QED
  BY <1>0, <1>1, GrantNat, GrantListed, ToldListed

\* What is scheduled by a safe answer leaves time for the renewal
LEMMA ScheduleOutlasts ==
    ASSUME TypeOK, TypeOK', told \in Nat, Safe(told), Schedule, age \in 0..Latency,
           UNCHANGED <<camera, err>>, left' + age >= told
    PROVE  Outlasts'
<1>1. Reserve = 2 * Latency + (Attempts - 1) * (Latency + Backoff)
  BY DEF Reserve
<1>2. losses' = 0 /\ attempt' = 0 /\ phase' = "wait" /\ told' = None
  BY DEF Schedule, Still
<1>3. Spare' = (Attempts - 1) * (Latency + Backoff)
  BY <1>2, TimingAssumption DEF Spare
<1>a. \A i, j \in Nat : i * j \in Nat
  OBVIOUS
<1>4. Spare' \in Nat /\ left' \in Nat /\ timer' \in Nat /\ Latency \in Nat
  BY <1>3, <1>a, TimingAssumption DEF TypeOK
<1>5. timer' = Delay(camera, told) /\ Delay(camera, told) \in Nat
  BY DelayNat, TimingAssumption DEF Schedule, TypeOK
<1>6. told - timer' > 2 * Latency + Spare'
  BY <1>1, <1>3, <1>5 DEF Safe
<1>7. left' > timer' + Latency + Spare'
  <2> DEFINE l == left'
             t == timer'
             r == Spare'
  <2>1. l \in Nat /\ t \in Nat /\ r \in Nat /\ Latency \in Nat /\ told \in Nat
    BY <1>4
  <2>2. age \in 0..Latency /\ l + age >= told
    OBVIOUS
  <2>3. told - t > 2 * Latency + r
    BY <1>6
  <2> HIDE DEF l, t, r
  <2>4. l > t + Latency + r
    BY <2>1, <2>2, <2>3
  <2> QED
    BY <2>4 DEF l, t, r
<1> QED
  BY <1>2, <1>7, TimingAssumption DEF Outlasts

LEMMA HandledKeeps ==
    ASSUME Supported, LeaseInv, spent = 0, TypeOK', Handled
    PROVE  Kept
<1>0. /\ FrameInv /\ TypeOK /\ Pending /\ Judged
      /\ losses < Attempts /\ running => Outlasts
  BY DEF LeaseInv, FrameInv
<1> DEFINE granted == (phase = "subscribe" \/ left > 0) /\ Grant > 0
<1>1. /\ InFlight /\ told = None
      /\ told' = (IF granted THEN Grant ELSE Refused)
      /\ left' = (IF granted /\ phase # "subscribe" THEN Grant ELSE left)
      /\ UNCHANGED <<camera, err, broken, running, phase, timer, attempt, age, asked,
                     losses>>
  BY DEF Handled
<1>2. Grant \in Nat /\ age \in Nat /\ Refused \notin Nat
  BY <1>0, GrantNat, TimingAssumption DEF TypeOK
<1>3. Held'
  BY <1>1, <1>2 DEF Held
<1>4. ASSUME losses < Attempts, running PROVE Outlasts'
  <2>0. Outlasts /\ phase = "renew"
    BY <1>0, <1>1, <1>4 DEF Outlasts, InFlight
  <2>1. left > 0
    <3>1. left > (Latency - age) + Spare /\ Spare \in Nat /\ age \in 0..Latency
      BY <1>0, <1>1, <1>4, <2>0, SpareNat DEF Outlasts, TypeOK
    <3> QED
      BY <1>0, <3>1, TimingAssumption DEF TypeOK
  <2>2. Grant > 0
    BY <1>0, <1>1, <1>2, <1>4, GrantSafe, ReserveNat, TimingAssumption DEF Judged
  <2>3. told' # Refused /\ told' # None
    BY <1>1, <1>2, <2>1, <2>2, TimingAssumption
  <2> QED
    BY <1>1, <2>0, <2>3 DEF Outlasts
<1> QED
  BY <1>1, <1>3, <1>4 DEF Kept

LEMMA AnswerKeeps ==
    ASSUME Supported, LeaseInv, spent = 0, TypeOK', Subscribed \/ Renewed
    PROVE  Kept
<1>0. /\ FrameInv /\ TypeOK /\ Pending /\ Judged /\ Held
      /\ losses < Attempts /\ running => Outlasts
  BY DEF LeaseInv, FrameInv
<1>1. told \in Nat /\ InFlight /\ UNCHANGED <<camera, err>> /\ age \in 0..Latency
  BY <1>0 DEF Subscribed, Renewed, InFlight, TypeOK
<1>2. CASE Subscribed /\ Send("fix") /\ UNCHANGED <<timer, attempt, losses, running>>
  <2>1. told' \notin Nat
    BY <1>2, TimingAssumption DEF Send
  <2>2. ~(losses < Attempts /\ running)
    BY <1>0, <1>2 DEF Outlasts, Subscribed
  <2> QED
    BY <1>2, <2>1, <2>2 DEF Kept, Held
<1>3. ASSUME ~broken => ~Broken(camera, Rel), Schedule, left' + age >= told
      PROVE  Kept
  <2>1. Outlasts'
    BY <1>0, <1>1, <1>3, GrantSafe, ScheduleOutlasts
  <2>2. Held'
    BY <1>3 DEF Schedule, Still, Held
  <2> QED
    BY <2>1, <2>2 DEF Kept
<1>4. CASE Subscribed /\ ~Broken(camera, told) /\ Schedule
  <2>1. left' = fresh /\ fresh + age >= told
    BY <1>0, <1>1, <1>4 DEF Subscribed, Pending
  <2>2. ~broken => ~Broken(camera, Rel)
    BY <1>0, <1>1, <1>4 DEF Pending
  <2> QED
    BY <1>3, <1>4, <2>1, <2>2
<1>5. CASE Renewed
  <2>1. left' = left /\ left + age >= told
    BY <1>0, <1>5 DEF Renewed, Held
  <2>2. ~broken => ~Broken(camera, Rel)
    BY <1>0, <1>5 DEF Renewed, Judged
  <2> QED
    BY <1>3, <1>5, <2>1, <2>2 DEF Renewed
<1> QED
  BY <1>2, <1>4, <1>5 DEF Subscribed

\* An answer to Renew that has not arrived yet
LEMMA AnswerLarge ==
    ASSUME Supported, FrameInv, Held, phase = "renew", told \in Nat, losses < Attempts
    PROVE  left >= 2 * Latency + Spare - age /\ told > Reserve
<1>1. left + age >= told
  BY DEF Held
<1>2. told > Reserve
  BY GrantSafe DEF FrameInv, Judged
<1> QED
  BY <1>1, <1>2, ReserveNat, ReserveSpare, SpareNat, TimingAssumption DEF FrameInv, TypeOK

LEMMA FailureKeeps ==
    ASSUME Supported, LeaseInv, spent = 0, TypeOK', RequestRefused \/ ConnectionLost
    PROVE  Kept
<1>0. /\ FrameInv /\ TypeOK /\ Pending /\ Judged /\ Held
      /\ losses < Attempts /\ running => Outlasts
  BY DEF LeaseInv, FrameInv
<1>1. Held'
  <2>1. told' \notin Nat
    BY TimingAssumption DEF RequestRefused, ConnectionLost, StartFails, RenewFails, Still, Send
  <2> QED
    BY <2>1 DEF Held
<1>2. CASE RequestRefused
  <2>1. losses' = losses /\ running' = running
    BY <1>2 DEF RequestRefused, StartFails, RenewFails
  <2>2. ~(losses' < Attempts /\ running')
    BY <1>0, <1>2, <2>1 DEF RequestRefused, Outlasts
  <2> QED
    BY <1>1, <2>2 DEF Kept
<1>3. CASE ConnectionLost /\ losses' < Attempts /\ running'
  <2>0. running
    BY <1>3 DEF ConnectionLost, StartFails, RenewFails
  <2>1. losses' = losses + 1 /\ losses + 1 < Attempts /\ losses < Attempts
    BY <1>0, <1>3, TimingAssumption DEF ConnectionLost, TypeOK
  <2>2. phase = "renew" /\ attempt = losses /\ Outlasts
    BY <1>0, <1>3, <2>0, <2>1 DEF ConnectionLost, Outlasts, InFlight
  <2>3. /\ phase' = "backoff" /\ told' = None
        /\ timer' = Backoff /\ attempt' = attempt + 1 /\ UNCHANGED left
    <3>1. attempt + 1 < Attempts /\ attempt + 1 # Attempts
      BY <1>0, <2>1, <2>2, TimingAssumption DEF TypeOK
    <3> QED
      BY <1>3, <2>2, <3>1 DEF ConnectionLost, Still
  <2>6. Spare = Spare' + Latency + Backoff /\ Spare' \in Nat /\ Spare \in Nat
    BY <1>0, <2>1, SpareFalls
  <2>7. left > Backoff + Latency + Spare'
    <3>0. age \in 0..Latency /\ left \in Nat /\ Latency \in Nat /\ Backoff \in Nat
      BY <1>0, TimingAssumption DEF TypeOK
    <3> DEFINE r == Spare
               q == Spare'
    <3>r. r = q + Latency + Backoff /\ q \in Nat /\ r \in Nat
      BY <2>6
    <3> SUFFICES left > Backoff + Latency + q
      OBVIOUS
    <3>1. CASE told = None
      <4>1. left > (Latency - age) + r
        BY <2>2, <3>1 DEF Outlasts
      <4> HIDE DEF r, q
      <4> QED
        BY <3>0, <3>r, <4>1
    <3>2. CASE told # None
      <4>1. told \in Nat /\ left + age >= told
        BY <1>0, <2>2, <3>2 DEF Outlasts, TypeOK, Held
      <4>2. told > Reserve /\ Reserve \in Nat /\ Reserve >= 2 * Latency + r
        BY <1>0, <2>1, <2>2, <4>1, AnswerLarge, ReserveNat, ReserveSpare
      <4> HIDE DEF r, q
      <4> QED
        BY <3>0, <3>r, <4>1, <4>2
    <3> QED
      BY <3>1, <3>2
  <2>8. Outlasts'
    BY <2>1, <2>2, <2>3, <2>7, TimingAssumption DEF Outlasts
  <2> QED
    BY <1>1, <2>8 DEF Kept
<1> QED
  BY <1>1, <1>2, <1>3 DEF Kept

LEMMA SendKeeps ==
    ASSUME Supported, LeaseInv, spent = 0, TypeOK', Start \/ TimerFires
    PROVE  Kept
<1>0. /\ TypeOK /\ Pending /\ Judged
      /\ losses < Attempts /\ running => Outlasts
  BY DEF LeaseInv, FrameInv
<1>1. /\ UNCHANGED <<running, attempt, left, losses>>
      /\ told' = None /\ age' = 0
  BY DEF Start, TimerFires, Send
<1>2. Held'
  BY <1>1, TimingAssumption DEF Held
<1>3. CASE Start
  <2>1. ~(losses < Attempts /\ running)
    BY <1>0, <1>3 DEF Start, Outlasts
  <2> QED
    BY <1>1, <1>2, <2>1 DEF Kept
<1>4. ASSUME TimerFires, losses < Attempts, running PROVE Outlasts'
  <2>1. phase \in {"wait", "backoff"} /\ timer = 0 /\ phase' = "renew"
    BY <1>4 DEF TimerFires, Send
  <2>2. Outlasts
    BY <1>0, <1>4
  <2>3. left > timer + Latency + Spare /\ Spare' = Spare
    BY <1>1, <2>1, <2>2 DEF Outlasts, Spare
  <2>4. left' > (Latency - age') + Spare'
    BY <1>0, <1>1, <1>4, <2>1, <2>3, SpareNat, TimingAssumption DEF TypeOK
  <2>5. attempt' = losses' /\ told' # Refused
    BY <1>1, <2>2, TimingAssumption DEF Outlasts
  <2> QED
    BY <2>1, <2>4, <2>5 DEF Outlasts
<1> QED
  BY <1>1, <1>2, <1>3, <1>4 DEF Kept

LEMMA TickKeeps ==
    ASSUME Supported, LeaseInv, spent = 0, TypeOK', Tick
    PROVE  Kept
<1>0. /\ TypeOK /\ Held
      /\ losses < Attempts /\ running => Outlasts
  BY DEF LeaseInv, FrameInv
<1>1. /\ left' = Less(left)
      /\ UNCHANGED <<camera, err, broken, running, phase, attempt, told, losses, spent>>
  BY DEF Tick
<1>2. InFlight => age < Latency /\ age' = age + 1
  BY DEF Tick
<1>t. age \in Nat /\ left \in Nat /\ timer \in Nat /\ Latency \in Nat
  BY <1>0, TimingAssumption DEF TypeOK
<1>3. left' + 1 >= left /\ left' \in Nat
  BY <1>1, <1>t DEF Less
<1>4. Held'
  <2>1. phase \in {"fix", "renew"} /\ told \in Nat => left + age >= told /\ age' = age + 1
    BY <1>0, <1>2 DEF Held, InFlight
  <2>2. \A x, y, i, j, k \in Nat : y + 1 >= x /\ x + i >= k /\ j = i + 1 => y + j >= k
    OBVIOUS
  <2>3. age + 1 \in Nat
    BY <1>t
  <2> QED
    BY <1>1, <1>t, <1>3, <2>1, <2>2, <2>3 DEF Held
<1>c. Spare' = Spare
  BY <1>1 DEF Spare
<1>d. ASSUME losses < Attempts, running PROVE Outlasts'
  <2>0. Outlasts /\ Spare \in Nat
    BY <1>0, <1>d, SpareNat
  <2>1. ASSUME phase \in {"wait", "backoff"} PROVE left' > timer' + Latency + Spare
    <3>1. timer > 0 /\ timer' = timer - 1
      BY <2>1 DEF Tick, InFlight
    <3>2. left > timer + Latency + Spare
      BY <2>0, <2>1 DEF Outlasts
    <3> DEFINE l == left'
               t == timer'
               r == Spare
    <3>3. l \in Nat /\ l + 1 >= left /\ t = timer - 1 /\ r \in Nat /\ left > timer + Latency + r
      BY <1>3, <2>0, <3>1, <3>2
    <3> HIDE DEF l, t, r
    <3>4. l > t + Latency + r
      BY <1>t, <3>3
    <3> QED
      BY <3>4 DEF l, t, r
  <2>2. ASSUME phase = "renew", told = None PROVE left' > (Latency - age') + Spare
    <3>1. age' = age + 1 /\ left > (Latency - age) + Spare
      BY <1>2, <2>0, <2>2 DEF Outlasts, InFlight
    <3> DEFINE l == left'
               a == age'
               r == Spare
    <3>2. l \in Nat /\ l + 1 >= left /\ a = age + 1 /\ r \in Nat /\ left > (Latency - age) + r
      BY <1>3, <2>0, <3>1
    <3> HIDE DEF l, a, r
    <3>3. l > (Latency - a) + r
      BY <1>t, <3>2
    <3> QED
      BY <3>3 DEF l, a, r
  <2> QED
    BY <1>1, <1>c, <2>0, <2>1, <2>2 DEF Outlasts
<1> QED
  BY <1>1, <1>4, <1>d DEF Kept

LEMMA LeaseStep == Supported /\ LeaseInv /\ [Next]_vars => LeaseInv'
<1> SUFFICES ASSUME Supported, LeaseInv, [Next]_vars PROVE LeaseInv'
  OBVIOUS
<1>1. FrameInv' /\ TypeOK /\ TypeOK'
  BY FrameStep DEF LeaseInv, FrameInv
<1>2. Kept => LeaseInv'
  BY <1>1 DEF Kept, LeaseInv
<1>3. spent' # 0 => LeaseInv'
  BY <1>1 DEF LeaseInv
<1>4. CASE spent = 0
  <2>1. CASE Handled
    BY <1>1, <1>2, <1>4, <2>1, HandledKeeps
  <2>2. CASE Subscribed \/ Renewed
    BY <1>1, <1>2, <1>4, <2>2, AnswerKeeps
  <2>3. CASE RequestRefused \/ ConnectionLost
    BY <1>1, <1>2, <1>4, <2>3, FailureKeeps
  <2>4. CASE Start \/ TimerFires
    BY <1>1, <1>2, <1>4, <2>4, SendKeeps
  <2>5. CASE Tick
    BY <1>1, <1>2, <1>4, <2>5, TickKeeps
  <2>6. CASE TimedOut \/ Reboots
    BY <1>3, <1>4, <2>6 DEF TimedOut, Reboots
  <2>7. CASE UNCHANGED vars
    BY <1>1, <2>7 DEF LeaseInv, Held, Outlasts, Spare, vars, requestVars
  <2> QED
    BY <2>1, <2>2, <2>3, <2>4, <2>5, <2>6, <2>7 DEF Next
<1>5. CASE spent # 0
  <2>1. spent' # 0
    BY <1>1, <1>5 DEF Next, Start, Handled, Subscribed, Renewed, RequestRefused,
       ConnectionLost, TimedOut, TimerFires, Reboots, Tick, vars, TypeOK
  <2> QED
    BY <1>3, <2>1
<1> QED
  BY <1>4, <1>5

LEMMA LeaseInvariant == Supported => (Spec => []LeaseInv)
<1> SUFFICES ASSUME Supported PROVE Spec => []LeaseInv
  OBVIOUS
<1>1. Init /\ FrameInv => LeaseInv
  BY DEF Init, LeaseInv, Held
<1>2. LeaseInv /\ [Next]_vars => LeaseInv'
  BY LeaseStep
<1> QED
  BY <1>1, <1>2, FrameInvariant, PTL DEF Spec

\* With cameras that leave the reserve, the subscription never runs out once start()
\* has returned, until the camera reboots, a request times out or more connection
\* errors come in a row than the retry absorbs.
THEOREM LeaseKept == Supported => (Spec => []NeverLapses)
<1> SUFFICES ASSUME Supported PROVE Spec => []NeverLapses
  OBVIOUS
<1>1. LeaseInv => NeverLapses
  <2> SUFFICES ASSUME LeaseInv, running, spent = 0, losses < Attempts PROVE left > 0
    BY DEF NeverLapses, Settled
  <2>0. /\ FrameInv /\ TypeOK /\ Held /\ Outlasts
        /\ age \in 0..Latency /\ left \in Nat /\ timer \in Nat /\ Spare \in Nat
        /\ Latency \in Nat /\ told \in Nat \cup {None, Refused}
    BY SpareNat, TimingAssumption DEF LeaseInv, FrameInv, TypeOK
  <2>1. CASE phase \in {"wait", "backoff"}
    BY <2>0, <2>1 DEF Outlasts
  <2>2. CASE phase = "renew" /\ told = None
    BY <2>0, <2>2 DEF Outlasts
  <2>3. CASE phase = "renew" /\ told # None
    <3>1. told \in Nat
      BY <2>0, <2>3 DEF Outlasts
    <3>2. left + age >= told
      BY <2>0, <2>3, <3>1 DEF Held
    <3>3. told > Reserve
      BY <2>0, <2>3, <3>1, AnswerLarge
    <3> QED
      BY <2>0, <3>1, <3>2, <3>3, ReserveNat
  <2> QED
    BY <2>0, <2>1, <2>2, <2>3 DEF Outlasts
<1> QED
  BY <1>1, LeaseInvariant, PTL

\* Under the same conditions the manager renews the subscription it has and never
\* makes another one.
THEOREM RenewsOnly == Supported => (Spec => NeverResubscribes)
<1> SUFFICES ASSUME Supported PROVE Spec => NeverResubscribes
  OBVIOUS
<1> DEFINE Renews == running /\ Settled' => phase' # "subscribe"
<1>1. LeaseInv' /\ [Next]_vars => [Renews]_vars
  <2> SUFFICES ASSUME LeaseInv', Next, running, Settled' PROVE phase' # "subscribe"
    OBVIOUS
  <2>1. running'
    BY DEF Next, Start, Handled, Subscribed, Renewed, Schedule, RequestRefused, StartFails,
       RenewFails, ConnectionLost, TimedOut, TimerFires, Reboots, Tick
  <2>2. Outlasts'
    BY <2>1 DEF LeaseInv, Settled
  <2> QED
    BY <2>2 DEF Outlasts
<1> QED
  BY <1>1, LeaseInvariant, PTL DEF Spec, NeverResubscribes

-----------------------------------------------------------------------------
(* How long the manager is without a subscription after the last fault       *)

Loss == Rest + 2 * Latency
\* What the connection errors to come may cost, and what all of them may
Coming == (Losses - losses) * Loss
Most == Losses * Loss

\* Unless a fault comes in between, the manager holds a subscription in n ticks.  A
\* renewal of a subscription that has run out will be refused, a new one is made; an
\* answer that was under way when the camera rebooted is taken for good.
Soon(n) ==
    /\ phase \in {"wait", "backoff"} => timer + 2 * Latency + Coming <= n
    /\ phase = "renew" => (Latency - age) + Latency + Coming <= n
    /\ phase \in {"renew", "fix"} /\ told \in Nat
          => (Latency - age) + Delay(camera, told) + 2 * Latency + Most <= n
    /\ phase = "fix" \/ (phase = "subscribe" /\ told = Refused)
          => (Latency - age) + Rest + 2 * Latency + Coming <= n
    /\ phase = "subscribe" => (Latency - age) + Coming <= n

DarkInv ==
    /\ FrameInv
    /\ running => phase # "off"
    /\ timer <= LongestDelay + Latency
    /\ ~running => dark = 0
    /\ dark <= DarkMax
    /\ running /\ left = 0 => Soon(DarkMax - dark)

LEMMA ComingFalls ==
    ASSUME TypeOK
    PROVE  /\ Loss \in Nat /\ Coming \in Nat /\ Most \in Nat /\ Coming <= Most
           /\ losses' = 0 => Coming' = Most
           /\ losses' = losses => Coming' = Coming
           /\ losses < Losses /\ losses' = losses + 1 =>
                 Coming = Coming' + Loss /\ Coming' \in Nat
<1> DEFINE n == Losses - losses
<1>1. Loss \in Nat /\ n \in Nat /\ losses \in Nat /\ Losses \in Nat
  BY TimingAssumption DEF TypeOK, Loss
<1>2. \A i, j \in Nat : i * j \in Nat
  OBVIOUS
<1>3. Losses * Loss = n * Loss + losses * Loss
  BY <1>1
<1>4. Coming \in Nat /\ Most \in Nat /\ Coming <= Most
  BY <1>1, <1>2, <1>3 DEF Coming, Most
<1>5. losses' = 0 => Coming' = Most
  BY <1>1 DEF Coming, Most, Loss
<1>6. losses' = losses => Coming' = Coming
  BY DEF Coming, Loss
<1>7. ASSUME losses < Losses, losses' = losses + 1
      PROVE  Coming = Coming' + Loss /\ Coming' \in Nat
  <2>1. n - 1 \in Nat /\ n * Loss = (n - 1) * Loss + Loss
    BY <1>1, <1>7
  <2>2. Losses - losses' = n - 1
    BY <1>1, <1>7
  <2>3. Coming' = (n - 1) * Loss
    BY <2>2 DEF Coming, Loss
  <2> QED
    BY <1>1, <1>2, <2>1, <2>3 DEF Coming
<1> QED
  BY <1>1, <1>4, <1>5, <1>6, <1>7

\* The errors of the offset have a limit, so that there is a longest grant
LEMMA LongestExists ==
    ASSUME Paced
    PROVE  /\ LongestGrant \in Nat /\ Interval <= LongestGrant
           /\ \A e \in Errs : Interval + e <= LongestGrant
<1> DEFINE S == {Interval} \cup {Interval + e : e \in Errs}
           P(g) == \A e \in Errs \cup {0} : Interval + e <= g
<1>0. Interval \in Nat /\ Errs \subseteq Int
  BY TimingAssumption
<1>1. PICK e \in Errs \cup {0} : \A f \in Errs : f <= e
  BY DEF Paced
<1>2. \E g \in S : P(g)
  <2>1. CASE e < 0
    <3>1. \A f \in Errs \cup {0} : f \in Int /\ f <= 0
      BY <1>0, <1>1, <2>1
    <3>2. P(Interval)
      BY <1>0, <3>1
    <3> QED
      BY <3>2
  <2>2. CASE e >= 0
    <3>1. Interval + e \in S
      BY <1>0, <1>1
    <3>2. P(Interval + e)
      BY <1>0, <1>1, <2>2
    <3> QED
      BY <3>1, <3>2
  <2> QED
    BY <1>0, <1>1, <2>1, <2>2
<1>3. LongestGrant \in S /\ P(LongestGrant)
  BY <1>2 DEF LongestGrant
<1> QED
  BY <1>0, <1>3

\* No renewal is scheduled later than for the longest grant
LEMMA DelayBound ==
    ASSUME Paced, FrameInv, told \in Nat, ~broken => ~Broken(camera, Rel)
    PROVE  Delay(camera, told) <= LongestDelay
<1>0. /\ camera \in Cameras /\ camera \in CameraKinds /\ err \in Errs /\ Errs \subseteq Int
      /\ Interval \in Nat /\ Minimum \in Nat /\ Latency \in Nat
  BY TimingAssumption DEF FrameInv, TypeOK
<1>1. /\ LongestGrant \in Nat /\ Interval <= LongestGrant
      /\ \A e \in Errs : Interval + e <= LongestGrant
  BY LongestExists
<1>2. told <= LongestGrant
  <2>1. told \in Grants(camera)
    BY ToldListed DEF FrameInv
  <2>2. CASE told = Rel
    BY <1>0, <1>1, <2>2 DEF Paced, Rel, Smaller, CameraKinds
  <2>3. ASSUME NEW e \in Errs, NEW a \in 0..Latency,
               told = Larger(0, Smaller(camera.cap, Interval + e - a))
        PROVE  told <= LongestGrant
    BY <1>0, <1>1, <2>3 DEF Smaller, Larger, CameraKinds
  <2> QED
    BY <2>1, <2>2, <2>3 DEF Grants, Rel
<1>3. \A i, j \in Nat : i <= j => (4 * i + 4) \div 5 <= (4 * j + 4) \div 5
  OBVIOUS
<1> QED
  BY <1>0, <1>1, <1>2, <1>3 DEF Delay, LongestDelay, Larger

LEMMA DarkNumbers ==
    ASSUME Paced
    PROVE  /\ Latency \in Nat /\ Rest \in Nat /\ Backoff \in Nat
           /\ LongestDelay \in Nat /\ Loss = Rest + 2 * Latency
           /\ Rest <= LongestDelay /\ Backoff <= Rest + Latency
           /\ DarkMax = LongestDelay + 3 * Latency + Most
<1>1. LongestDelay \in Nat
  BY LongestExists, TimingAssumption DEF LongestDelay, Delay, Larger
<1> QED
  BY <1>1, TimingAssumption DEF Paced, Loss, DarkMax, Most

\* Whatever has just happened, DarkMax is enough
LEMMA SoonAtMost ==
    ASSUME Paced, FrameInv, running, timer <= LongestDelay + Latency
    PROVE  Soon(DarkMax)
<1>1. /\ TypeOK /\ age \in 0..Latency /\ timer \in Nat
      /\ ~broken => ~Broken(camera, Rel)
  BY DEF FrameInv, TypeOK, Judged
<1>2. told \in Nat => Delay(camera, told) <= LongestDelay /\ Delay(camera, told) \in Nat
  <2>1. camera \in CameraKinds
    BY <1>1, TimingAssumption DEF TypeOK
  <2> QED
    BY <1>1, <2>1, DelayBound, DelayNat
<1>3. Coming \in Nat /\ Most \in Nat /\ Coming <= Most
  BY <1>1, ComingFalls
<1> QED
  BY <1>1, <1>2, <1>3, DarkNumbers DEF Soon

\* The request that answers n ticks from now is sent, refused or lost
LEMMA TimerSoon ==
    ASSUME FrameInv, NEW n \in Int, Soon(n), TimerFires
    PROVE  Soon(n)'
<1>1. /\ TypeOK /\ phase \in {"wait", "backoff"} /\ timer = 0
      /\ phase' = "renew" /\ age' = 0 /\ told' = None /\ losses' = losses
  BY DEF FrameInv, TimerFires, Send
<1>2. Coming' = Coming /\ Coming \in Nat
  BY <1>1, ComingFalls
<1>3. 2 * Latency + Coming <= n /\ Latency \in Nat
  BY <1>1, <1>2, TimingAssumption DEF Soon
<1>4. (Latency - age') + Latency + Coming' <= n
  BY <1>1, <1>2, <1>3
<1> QED
  BY <1>1, <1>4, TimingAssumption DEF Soon

LEMMA RenewFailsSoon ==
    ASSUME TypeOK, NEW n \in Int, Coming' \in Nat, Latency + Coming' <= n, RenewFails
    PROVE  Soon(n)'
<1>1. phase' = "subscribe" /\ age' = 0 /\ told' = None /\ None \notin Nat /\ None # Refused
  BY TimingAssumption DEF RenewFails, Send
<1>2. (Latency - age') + Coming' <= n
  <2>1. \A a, c \in Int : a = 0 /\ Latency + c <= n => (Latency - a) + c <= n
    BY TimingAssumption
  <2> QED
    BY <1>1, <2>1
<1> QED
  BY <1>1, <1>2 DEF Soon

LEMMA RestSoon ==
    ASSUME TypeOK, NEW n \in Int, running, Coming' \in Nat, Rest + 2 * Latency + Coming' <= n,
           StartFails
    PROVE  Soon(n)'
  BY TimingAssumption DEF StartFails, Still, Soon

LEMMA RefusedSoon ==
    ASSUME FrameInv, running, NEW n \in Int, Soon(n), RequestRefused
    PROVE  Soon(n)'
<1>1. /\ TypeOK /\ told = Refused /\ losses' = losses /\ age \in 0..Latency
      /\ phase \in {"subscribe", "fix", "renew"}
  BY TimingAssumption DEF FrameInv, TypeOK, Pending, RequestRefused, InFlight
<1>2. Coming' = Coming /\ Coming \in Nat /\ Latency \in Nat /\ Rest \in Nat
  BY <1>1, ComingFalls, TimingAssumption
<1>3. CASE phase = "renew"
  <2>1. Latency + Coming' <= n
    BY <1>1, <1>2, <1>3 DEF Soon
  <2> QED
    BY <1>1, <1>2, <1>3, <2>1, RenewFailsSoon DEF RequestRefused
<1>4. CASE phase # "renew"
  <2>1. Rest + 2 * Latency + Coming' <= n
    BY <1>1, <1>2, <1>4 DEF Soon
  <2> QED
    BY <1>1, <1>2, <1>4, <2>1, RestSoon DEF RequestRefused
<1> QED
  BY <1>3, <1>4

\* Each connection error costs what Coming falls by
LEMMA LostSoon ==
    ASSUME Paced, FrameInv, running, NEW n \in Int, Soon(n), ConnectionLost
    PROVE  Soon(n)'
<1>1. /\ TypeOK /\ losses < Losses /\ losses' = losses + 1 /\ age \in 0..Latency
      /\ phase \in {"subscribe", "fix", "renew"}
  BY DEF FrameInv, TypeOK, ConnectionLost, InFlight
<1>2. /\ Coming = Coming' + Loss /\ Coming' \in Nat /\ Loss = Rest + 2 * Latency
      /\ Latency \in Nat /\ Rest \in Nat /\ Backoff \in Nat /\ Backoff <= Rest + Latency
      /\ Coming \in Nat
  BY <1>1, ComingFalls, DarkNumbers
<1>3. /\ Rest + 2 * Latency + Coming' <= n
      /\ phase = "renew" => Latency + Coming' <= n /\ Rest + 3 * Latency + Coming' <= n
  <2>1. /\ phase = "renew" => (Latency - age) + Latency + Coming <= n
        /\ phase = "fix" => (Latency - age) + Rest + 2 * Latency + Coming <= n
        /\ phase = "subscribe" => (Latency - age) + Coming <= n
    BY DEF Soon
  <2>2. ASSUME NEW c \in Nat, NEW d \in Nat, c = Coming, d = Coming'
        PROVE  /\ Rest + 2 * Latency + d <= n
               /\ phase = "renew" => Latency + d <= n /\ Rest + 3 * Latency + d <= n
    <3>1. c = d + (Rest + 2 * Latency)
      BY <1>2, <2>2
    <3>2. age \in Nat /\ age <= Latency /\ Latency \in Nat /\ Rest \in Nat
      BY <1>1, <1>2
    <3>3. /\ phase = "renew" => (Latency - age) + Latency + c <= n
          /\ phase = "fix" => (Latency - age) + Rest + 2 * Latency + c <= n
          /\ phase = "subscribe" => (Latency - age) + c <= n
      BY <2>1, <2>2, Zenon
    <3>4. d \in Nat /\ n \in Int
      OBVIOUS
    <3>5. phase \in {"subscribe", "fix", "renew"}
      BY <1>1
    <3> QED
      BY <3>1, <3>2, <3>3, <3>4, <3>5
  <2> QED
    BY <1>2, <2>2
<1>4. CASE Still("backoff") /\ timer' = Backoff /\ phase = "renew"
  <2>0. \A t, d \in Nat : t <= Rest + Latency /\ Rest + 3 * Latency + d <= n
                              => t + 2 * Latency + d <= n
    BY <1>2
  <2>1. timer' + 2 * Latency + Coming' <= n
    BY <1>2, <1>3, <1>4, <2>0
  <2> QED
    BY <1>4, <2>1, TimingAssumption DEF Still, Soon
<1>5. CASE phase = "renew" /\ RenewFails
  BY <1>1, <1>2, <1>3, <1>5, RenewFailsSoon
<1>6. CASE StartFails
  BY <1>1, <1>2, <1>3, <1>6, RestSoon
<1> QED
  BY <1>4, <1>5, <1>6 DEF ConnectionLost

LEMMA RenewedSoon ==
    ASSUME FrameInv, NEW n \in Int, Soon(n), Renewed
    PROVE  Soon(n)'
<1>1. /\ TypeOK /\ told \in Nat /\ phase \in {"fix", "renew"} /\ age \in 0..Latency
      /\ phase' = "wait" /\ told' = None /\ losses' = 0 /\ timer' = Delay(camera, told)
  BY DEF FrameInv, TypeOK, Renewed, Schedule, Still
<1>2. Coming' = Most /\ Most \in Nat /\ Latency \in Nat
  BY <1>1, ComingFalls, TimingAssumption
<1>3. timer' \in Nat
  BY <1>1, DelayNat, TimingAssumption DEF TypeOK
<1>4. (Latency - age) + timer' + 2 * Latency + Most <= n
  BY <1>1 DEF Soon
<1>5. timer' + 2 * Latency + Coming' <= n
  BY <1>1, <1>2, <1>3, <1>4
<1> QED
  BY <1>1, <1>5, TimingAssumption DEF Soon

\* The camera makes the subscription it is asked for, and refuses to renew one that is
\* over
LEMMA HandledSoon ==
    ASSUME Supported, FrameInv, running, left = 0, NEW n \in Int, Soon(n), Handled
    PROVE  Soon(n)' /\ left' = 0
<1> DEFINE known == phase = "subscribe" \/ left > 0
           granted == known /\ Grant > 0
<1>1. /\ InFlight /\ told = None
      /\ told' = (IF granted THEN Grant ELSE Refused)
      /\ left' = (IF granted /\ phase # "subscribe" THEN Grant ELSE left)
      /\ UNCHANGED <<camera, phase, timer, age, losses>>
  BY DEF Handled
<1>2. Grant > Reserve /\ Reserve \in Nat /\ Grant \in Nat
  BY <1>1, GrantSafe, GrantNat, ReserveNat DEF FrameInv, Judged
<1>3. IF phase = "subscribe" THEN told' # Refused ELSE told' = Refused
  BY <1>1, <1>2, TimingAssumption
<1>4. Coming' = Coming
  BY <1>1, ComingFalls DEF FrameInv
<1>5. told' \notin Nat \/ phase = "subscribe"
  BY <1>3, TimingAssumption
<1>6. left' = 0
  BY <1>1, <1>3, <1>2, TimingAssumption
<1> QED
  BY <1>1, <1>3, <1>4, <1>5, <1>6 DEF Soon

LEMMA TickSoon ==
    ASSUME FrameInv, phase # "off", NEW n \in Int, Soon(n), Tick
    PROVE  Soon(n - 1)' /\ n > 0
<1>1. /\ TypeOK /\ age \in 0..Latency /\ timer \in Nat /\ Latency \in Nat /\ Rest \in Nat
      /\ phase \in {"subscribe", "fix", "renew", "backoff", "wait"}
  BY TimingAssumption DEF FrameInv, TypeOK
<1>2. UNCHANGED <<camera, phase, told, losses>>
  BY DEF Tick
<1>3. Coming' = Coming /\ Coming \in Nat /\ Most \in Nat
  BY <1>1, <1>2, ComingFalls
<1>4. CASE phase \in {"wait", "backoff"}
  <2>1. timer > 0 /\ timer' = timer - 1 /\ told = None
    BY <1>4 DEF Tick, InFlight, FrameInv, Pending
  <2>2. timer + 2 * Latency + Coming <= n
    BY <1>4 DEF Soon
  <2>3. timer' + 2 * Latency + Coming' <= n - 1 /\ n > 0
    BY <1>1, <1>3, <2>1, <2>2
  <2> QED
    BY <1>2, <1>4, <2>1, <2>3, TimingAssumption DEF Soon
<1>5. CASE InFlight
  <2>1. age < Latency /\ age' = age + 1
    BY <1>5 DEF Tick
  <2>2. told \in Nat => Delay(camera, told) \in Nat
    BY <1>1, DelayNat, TimingAssumption DEF TypeOK
  <2>3. \A m \in Nat : (Latency - age) + m <= n => (Latency - age') + m <= n - 1 /\ n > 0
    BY <1>1, <2>1
  <2> QED
    BY <1>1, <1>2, <1>3, <1>5, <2>1, <2>2, <2>3 DEF Soon, InFlight
<1> QED
  BY <1>1, <1>4, <1>5 DEF InFlight

\* A step that is not counted, of a manager that has no subscription
LEMMA DarkKeeps ==
    ASSUME Supported, Paced, DarkInv, running, left = 0, NEW n \in Int, Soon(n),
           Handled \/ Renewed \/ RequestRefused \/ ConnectionLost \/ TimerFires
    PROVE  Soon(n)'
  BY HandledSoon, RenewedSoon, RefusedSoon, LostSoon, TimerSoon DEF DarkInv

\* A new subscription is there when the manager learns of it
LEMMA SubscribedHeld ==
    ASSUME Supported, FrameInv, running, Subscribed
    PROVE  left' > 0
<1>1. /\ told > Reserve /\ Reserve \in Nat /\ Reserve >= 2 * Latency /\ told \in Nat
      /\ fresh + age >= told /\ left' = fresh
  BY GrantSafe, ReserveNat DEF FrameInv, Pending, Judged, Subscribed
<1>2. fresh \in Nat /\ age \in 0..Latency /\ Latency \in Nat
  BY TimingAssumption DEF FrameInv, TypeOK
<1> QED
  BY <1>1, <1>2

\* The timer never waits longer than for the longest grant
LEMMA TimerShort ==
    ASSUME Paced, FrameInv, timer <= LongestDelay + Latency, [Next]_vars
    PROVE  timer' <= LongestDelay + Latency
<1>0. timer \in Nat /\ timer' \in Nat
  BY FrameStep DEF FrameInv, TypeOK
<1>1. \A t \in Nat : t <= LongestDelay \/ t <= Rest + Latency => t <= LongestDelay + Latency
  BY DarkNumbers
<1>2. CASE timer' = Rest \/ timer' = Backoff
  BY <1>1, <1>2, DarkNumbers
<1>3. CASE timer' <= timer
  BY <1>0, <1>3, DarkNumbers
<1>4. ASSUME Schedule, told \in Nat, ~broken => ~Broken(camera, Rel)
      PROVE  timer' <= LongestDelay + Latency
  BY <1>0, <1>1, <1>4, DelayBound DEF Schedule
<1>5. CASE Subscribed
  <2>1. ~Broken(camera, told) => (~broken => ~Broken(camera, Rel))
    BY <1>5 DEF FrameInv, Pending, Subscribed
  <2> QED
    BY <1>0, <1>3, <1>4, <1>5, <2>1 DEF Subscribed
<1>6. CASE Renewed
  BY <1>4, <1>6 DEF FrameInv, Judged, Renewed
<1>7. CASE RequestRefused \/ ConnectionLost \/ TimedOut
  BY <1>0, <1>2, <1>3, <1>7 DEF RequestRefused, ConnectionLost, TimedOut, StartFails, RenewFails
<1>8. CASE Tick
  BY <1>0, <1>3, <1>8 DEF Tick
<1> QED
  BY <1>0, <1>3, <1>5, <1>6, <1>7, <1>8
     DEF Next, Start, Handled, TimerFires, Reboots, vars

LEMMA DarkStep == Supported /\ Paced /\ DarkInv /\ [Next]_vars => DarkInv'
<1> SUFFICES ASSUME Supported, Paced, DarkInv, [Next]_vars PROVE DarkInv'
  OBVIOUS
<1> DEFINE Few == running' /\ left' = 0 => Soon(DarkMax - dark)'
<1>1. /\ FrameInv /\ FrameInv' /\ TypeOK /\ TypeOK'
      /\ timer' <= LongestDelay + Latency
  BY FrameStep, TimerShort DEF DarkInv, FrameInv
<1>2. DarkMax \in Int /\ dark \in Nat /\ dark' \in Nat /\ 0 <= DarkMax
  BY <1>1, ComingFalls, DarkNumbers DEF TypeOK
<1>3. running' => phase' # "off"
  BY <1>1 DEF DarkInv, Next, Start, Handled, Subscribed, Renewed, RequestRefused,
     ConnectionLost, TimedOut, TimerFires, Reboots, Tick, vars, StartFails, RenewFails,
     Schedule, Still, Send
<1>4. ~running' => dark' = 0
  BY <1>1 DEF DarkInv, Next, Start, Handled, Subscribed, Renewed, RequestRefused,
     ConnectionLost, TimedOut, TimerFires, Reboots, Tick, vars, StartFails, RenewFails,
     Schedule, Judged, FrameInv
<1>5. CASE dark' = 0
  <2>1. running' => Soon(DarkMax)'
    <3>1. (Paced /\ FrameInv /\ running /\ timer <= LongestDelay + Latency => Soon(DarkMax))'
      BY SoonAtMost, PTL
    <3>2. Paced' /\ (LongestDelay + Latency)' = LongestDelay + Latency
      BY DEF Paced, LongestDelay, LongestGrant, Delay
    <3> QED
      BY <1>1, <3>1, <3>2
  <2>2. DarkMax - dark' = DarkMax
    BY <1>2, <1>5
  <2>3. Few
    BY <2>1, <2>2 DEF Soon
  <2> QED
    BY <1>1, <1>2, <1>3, <1>4, <1>5, <2>3 DEF DarkInv
<1>6. PICK n \in Int : n = DarkMax - dark
  BY <1>2
<1>7. CASE dark' # 0 /\ dark' = dark
  <2>1. running /\ running'
    BY <1>4, <1>7 DEF DarkInv
  <2>2. ASSUME left = 0 PROVE Few
    <3>1. Soon(n)
      BY <1>6, <2>1, <2>2 DEF DarkInv
    <3>2. CASE Subscribed
      BY <1>1, <2>1, <3>2, SubscribedHeld DEF TypeOK
    <3>3. CASE Handled \/ Renewed \/ RequestRefused \/ ConnectionLost \/ TimerFires
      <4>1. Soon(n)'
        BY <2>1, <2>2, <3>1, <3>3, DarkKeeps
      <4>2. n = DarkMax - dark'
        BY <1>6, <1>7
      <4> QED
        BY <4>1, <4>2, Zenon DEF Soon
    <3>4. CASE UNCHANGED vars
      <4>1. Soon(DarkMax - dark)
        BY <2>1, <2>2 DEF DarkInv
      <4> QED
        BY <3>4, <4>1 DEF Soon, Coming, vars, requestVars
    <3>5. ~(Start \/ TimedOut \/ Reboots)
      BY <1>7, <2>1 DEF Start, TimedOut, Reboots, DarkInv
    <3>6. ~Tick
      BY <1>2, <1>7, <2>1, <2>2 DEF Tick
    <3> QED
      BY <3>2, <3>3, <3>4, <3>5, <3>6 DEF Next
  <2>3. ASSUME left # 0 PROVE Few
    BY <1>1, <1>2, <1>7, <2>1, <2>3, SubscribedHeld DEF Next, Start, Handled, Renewed,
       RequestRefused, ConnectionLost, TimedOut, TimerFires, Reboots, Tick, vars, TypeOK
  <2>4. Few
    BY <2>2, <2>3
  <2>5. dark' <= DarkMax
    BY <1>7 DEF DarkInv
  <2> QED
    BY <1>1, <1>3, <1>4, <2>4, <2>5 DEF DarkInv
<1>8. CASE dark' # 0 /\ dark' # dark
  <2>1. Tick /\ left = 0 /\ running /\ dark' = dark + 1
    BY <1>1, <1>8 DEF Next, Start, Handled, Subscribed, Renewed, RequestRefused,
       ConnectionLost, TimedOut, TimerFires, Reboots, Tick, vars, TypeOK
  <2>2. Soon(n) /\ phase # "off"
    BY <1>6, <2>1 DEF DarkInv
  <2>3. Soon(n - 1)' /\ n > 0
    BY <1>1, <2>1, <2>2, TickSoon
  <2>4. n - 1 = DarkMax - dark' /\ dark' <= DarkMax
    BY <1>2, <1>6, <2>1, <2>3
  <2>5. Few
    BY <2>3, <2>4, Zenon DEF Soon
  <2> QED
    BY <1>1, <1>3, <1>4, <2>4, <2>5 DEF DarkInv
<1> QED
  BY <1>5, <1>7, <1>8

\* With a supported camera, the manager is not without a subscription for longer than
\* DarkMax after the last reboot or timeout, whatever connection errors there are.
THEOREM DarkBrief == Supported /\ Paced => (Spec => []BrieflyDark)
<1> SUFFICES ASSUME Supported, Paced PROVE Spec => []BrieflyDark
  OBVIOUS
<1>1. Init /\ FrameInv => DarkInv
  <2> SUFFICES ASSUME Init, FrameInv PROVE DarkInv
    OBVIOUS
  <2>1. 0 <= DarkMax /\ 0 <= LongestDelay + Latency
    BY DarkNumbers, ComingFalls DEF FrameInv
  <2> QED
    BY <2>1 DEF Init, DarkInv
<1>2. DarkInv /\ [Next]_vars => DarkInv'
  BY DarkStep
<1>3. DarkInv => BrieflyDark
  BY DEF DarkInv, BrieflyDark
<1> QED
  BY <1>1, <1>2, <1>3, FrameInvariant, PTL DEF Spec
=============================================================================
