----------------------------- MODULE RenewalLoop -----------------------------
(***************************************************************************)
(* What a manager of onvif/managers.py promises the program that got it    *)
(* from create_*_manager(): a loop that renews the subscription.  The loop *)
(* is started, paused, resumed and stopped by the program, and it comes to *)
(* rest by itself only when it is not wanted, shut down, or cut off from   *)
(* the camera because the program closed the services.  How the loop is    *)
(* made of a timer, a task and retries is SubscriptionManager's business,  *)
(* which is shown to implement this module.                                *)
(***************************************************************************)

VARIABLES
    wanted,   \* what the program asked for last: "none" until start() returned
    starting, \* a start() of the program is under way
    alive,    \* a renewal is scheduled or at work
    down,     \* shutdown() was called
    severed,  \* the program closed a service of the camera
    served    \* the manager holds a subscription the camera knows

vars == <<wanted, starting, alive, down, severed, served>>

Wanted == {"none", "run", "paused", "stopped"}

Init ==
    /\ wanted = "none" /\ starting = FALSE /\ alive = FALSE
    /\ down = FALSE /\ severed = FALSE /\ served = FALSE

\* start() is called: on a manager that was just built, so nothing is at work
Start ==
    /\ wanted = "none" /\ ~starting
    /\ starting' = TRUE
    /\ served' = FALSE
    /\ UNCHANGED <<wanted, alive, down, severed>>

\* start() returns with a renewal scheduled
Started ==
    /\ starting
    /\ starting' = FALSE /\ alive' = TRUE
    /\ wanted' = "run"
    /\ UNCHANGED <<down, severed, served>>

\* start() raises: the program gets no manager, whatever reached the camera
StartFails ==
    /\ starting
    /\ starting' = FALSE /\ served' \in BOOLEAN
    /\ UNCHANGED <<wanted, alive, down, severed>>

\* The program has the manager
Held == wanted # "none"

\* pause(): the timer is cancelled, a task at work goes on and may schedule anew
Pause ==
    /\ Held
    /\ wanted' = "paused" /\ alive' \in {alive, FALSE}
    /\ UNCHANGED <<starting, down, severed, served>>

Resume ==
    /\ Held
    /\ wanted' = "run" /\ alive' = TRUE
    /\ UNCHANGED <<starting, down, severed, served>>

\* stop() or shutdown()
Stop ==
    /\ Held
    /\ wanted' = "stopped" /\ alive' \in {alive, FALSE} /\ down' \in {down, TRUE}
    /\ UNCHANGED <<starting, severed, served>>

\* The program closes a service
Sever ==
    /\ severed' = TRUE /\ served' \in {served, FALSE}
    /\ UNCHANGED <<wanted, starting, alive, down>>

\* The loop comes to rest, when the task that a pause, a stop or a closed service
\* met at work is done; its last request may still reach the camera.  While the
\* program wants it, it does not rest.
Running == wanted = "run" /\ ~down /\ ~severed
Rest ==
    /\ ~Running
    /\ alive /\ alive' = FALSE /\ served' \in BOOLEAN
    /\ UNCHANGED <<wanted, starting, down, severed>>

\* The subscription is lost: the camera forgot it, or a new one is being made
Lose ==
    /\ served /\ served' = FALSE
    /\ UNCHANGED <<wanted, starting, alive, down, severed>>

\* The manager gets hold of a subscription of the camera's
Serve ==
    /\ alive \/ starting
    /\ ~served /\ served' = TRUE
    /\ UNCHANGED <<wanted, starting, alive, down, severed>>

Next ==
    \/ Start \/ Started \/ StartFails
    \/ Pause \/ Resume \/ Stop \/ Sever
    \/ Rest \/ Lose \/ Serve

Spec == Init /\ [][Next]_vars

\* A loop that runs gets its subscription back
FairSpec == Spec /\ WF_vars(Running /\ Serve)

=============================================================================
