---------------------------- MODULE RequestRetry ----------------------------
(***************************************************************************)
(* The requests of one ONVIFService: the two layers of                     *)
(* onvif/wrappers.py retry_connection_error(), one inside the transport of *)
(* onvif/client.py and one around Renew in onvif/managers.py, over         *)
(* onvif/zeep_aiohttp.py, and below them the pool of kept-alive            *)
(* connections of the service's session and a camera that may close them.  *)
(*                                                                         *)
(* An idle connection the camera has closed looks usable until the event   *)
(* loop has read the end of its stream: `dead' holds these.                *)
(***************************************************************************)
EXTENDS Naturals

CONSTANTS
    Callers,    \* coroutines that send requests through the service
    Renewers,   \* those whose call is _call_subscription_renew()
    Conns,      \* identities of connections
    KeepAlive,  \* KEEPALIVE_EXPIRY
    Backoff,    \* BACKOFF_TIME
    Attempts,   \* DEFAULT_ATTEMPTS, of Renew
    Posts,      \* attempts of the transport
    Budget,     \* bound: faults of the camera and of the network
    Warm,       \* connections that earlier calls may have left in the pool
    None

ASSUME RetryAssumption ==
    /\ Renewers \subseteq Callers /\ Warm \subseteq Conns /\ None \notin Conns
    /\ KeepAlive \in Nat /\ Backoff \in Nat /\ KeepAlive < Backoff
    /\ Attempts \in Nat \ {0} /\ Posts \in Nat \ {0} /\ Budget \in Nat

VARIABLES
    conn,     \* external: "none", "idle" in the pool, or "busy"
    age,      \* external: ticks since the connection became idle, 0 if it is not
    dead,     \* external: closed under the connector, which has not noticed
    closed,   \* the consumer has closed the session
    pc,       \* where each caller is suspended
    via,      \* the connection its pending request uses, or None
    inner,    \* attempts of the transport that are over
    outer,    \* attempts of Renew that are over
    timer,    \* ticks left of its backoff
    outcome,  \* how its last call ended
    reached,  \* history: how often the camera executed the request of this post()
    spent,
    faulted,    \* history: callers whose request met a fault since their call began
    troubled,   \* history: those of Renewers that met one, or saw the camera close a
                \* pooled connection, since their call or their last backoff began
    overlapped  \* history: two calls have been under way at the same time, or may have
                \* been before

poolVars == <<conn, age, dead>>
loopVars == <<inner, outer, timer>>
ghostVars == <<faulted, troubled, overlapped>>
vars == <<poolVars, loopVars, ghostVars, closed, pc, via, outcome, reached, spent>>

Points == {"idle", "ready", "connecting", "pending", "backoff"}
Outcomes == {"none", "answer", "client", "timeout", "runtime", "cancelled"}

TypeOK ==
    /\ conn \in [Conns -> {"none", "idle", "busy"}]
    /\ age \in [Conns -> 0..KeepAlive + 1]
    /\ dead \subseteq Conns
    /\ closed \in BOOLEAN
    /\ pc \in [Callers -> Points]
    /\ via \in [Callers -> Conns \cup {None}]
    /\ inner \in [Callers -> 0..Posts - 1]
    /\ outer \in [Callers -> 0..Attempts - 1]
    /\ timer \in [Callers -> 0..Backoff]
    /\ outcome \in [Callers -> Outcomes]
    /\ reached \in [Callers -> 0..Posts]
    /\ spent \in 0..Budget
    /\ faulted \subseteq Callers /\ troubled \subseteq Renewers
    /\ overlapped \in BOOLEAN

Idle(c) == pc[c] = "idle"

-----------------------------------------------------------------------------
(* What a step of c means for the history *)

BacksOff(c) == pc'[c] = "backoff" /\ pc[c] # "backoff"
Since(S, c) == IF BacksOff(c) THEN S \ {c} ELSE S

\* The request of c meets a fault of the camera or of the network
Fault(c) ==
    /\ spent < Budget /\ spent' = spent + 1
    /\ faulted' = faulted \cup {c}
    /\ troubled' = Since(troubled \cup ({c} \cap Renewers), c)
    /\ UNCHANGED overlapped

NoFault(c) ==
    /\ troubled' = Since(troubled, c)
    /\ UNCHANGED <<spent, faulted, overlapped>>

-----------------------------------------------------------------------------
(* retry_connection_error() *)

\* The call is over
End(c, result) ==
    /\ pc' = [pc EXCEPT ![c] = "idle"]
    /\ via' = [via EXCEPT ![c] = None]
    /\ outcome' = [outcome EXCEPT ![c] = result]
    /\ inner' = [inner EXCEPT ![c] = 0]
    /\ outer' = [outer EXCEPT ![c] = 0]
    /\ timer' = [timer EXCEPT ![c] = 0]

\* asyncio.sleep(backoff) before the next attempt of Renew
BackOff(c, ticks, attempts) ==
    /\ pc' = [pc EXCEPT ![c] = "backoff"]
    /\ via' = [via EXCEPT ![c] = None]
    /\ inner' = [inner EXCEPT ![c] = 0]
    /\ outer' = [outer EXCEPT ![c] = attempts]
    /\ timer' = [timer EXCEPT ![c] = ticks]
    /\ UNCHANGED outcome

\* Slips: the loop does not count its attempts; the backoff is no longer than a
\* connection is kept
RaiseUncounted(c) ==
    \/ c \in Renewers /\ BackOff(c, Backoff, outer[c])
    \/ c \notin Renewers /\ End(c, "client")
RaiseSooner(c) ==
    \/ c \in Renewers /\ outer[c] + 1 < Attempts /\ BackOff(c, KeepAlive, outer[c] + 1)
    \/ ~(c \in Renewers /\ outer[c] + 1 < Attempts) /\ End(c, "client")

\* The transport raised an aiohttp.ClientError: Renew is attempted again after the
\* backoff, any other call is over
RaiseClientError(c) ==
    \/ c \in Renewers /\ outer[c] + 1 < Attempts /\ BackOff(c, Backoff, outer[c] + 1)
    \/ ~(c \in Renewers /\ outer[c] + 1 < Attempts) /\ End(c, "client")

\* Slips: one attempt too few, one too many
RepeatMore(c) ==
    \/ /\ inner[c] < Posts
       /\ pc' = [pc EXCEPT ![c] = "ready"]
       /\ via' = [via EXCEPT ![c] = None]
       /\ inner' = [inner EXCEPT ![c] = @ + 1]
       /\ UNCHANGED <<outer, timer, outcome>>
    \/ inner[c] = Posts /\ RaiseClientError(c)
RepeatLess(c) ==
    \/ /\ inner[c] + 2 < Posts
       /\ pc' = [pc EXCEPT ![c] = "ready"]
       /\ via' = [via EXCEPT ![c] = None]
       /\ inner' = [inner EXCEPT ![c] = @ + 1]
       /\ UNCHANGED <<outer, timer, outcome>>
    \/ inner[c] + 2 >= Posts /\ RaiseClientError(c)

\* ServerDisconnectedError or ClientConnectionResetError: the transport posts
\* again after a sleep(0)
Repeat(c) ==
    \/ /\ inner[c] + 1 < Posts
       /\ pc' = [pc EXCEPT ![c] = "ready"]
       /\ via' = [via EXCEPT ![c] = None]
       /\ inner' = [inner EXCEPT ![c] = @ + 1]
       /\ UNCHANGED <<outer, timer, outcome>>
    \/ inner[c] + 1 = Posts /\ RaiseClientError(c)

-----------------------------------------------------------------------------
(* The connector of the session *)

\* A pooled connection that is still given out
Usable(k) == conn[k] = "idle" /\ age[k] <= KeepAlive

\* The connection of c is closed
Drop(c) ==
    /\ conn' = [k \in Conns |-> IF k = via[c] THEN "none" ELSE conn[k]]
    /\ dead' = dead \ {via[c]}
    /\ UNCHANGED age

-----------------------------------------------------------------------------
(* AIOHTTPTransport.post(), post_xml() and get() *)

\* The three differ in what they make of the answer
Call(c) ==
    /\ Idle(c)
    /\ pc' = [pc EXCEPT ![c] = "ready"]
    /\ reached' = [reached EXCEPT ![c] = 0]
    /\ outcome' = [outcome EXCEPT ![c] = "none"]
    /\ faulted' = faulted \ {c} /\ troubled' = troubled \ {c}
    /\ overlapped' = (overlapped \/ \E d \in Callers : ~Idle(d))
    /\ UNCHANGED <<poolVars, loopVars, closed, via, spent>>

\* The coroutine is about to post: a first time, after a sleep(0), or after its
\* backoff
Due(c) ==
    \/ pc[c] = "ready"
    \/ pc[c] = "backoff" /\ timer[c] = 0

\* A later attempt of Renew is a new post()
Posting(c) ==
    /\ Due(c)
    /\ reached' = IF pc[c] = "backoff" THEN [reached EXCEPT ![c] = 0] ELSE reached

\* A connection of the pool is taken
PostPooled(c) ==
    /\ Posting(c) /\ ~closed
    /\ \E k \in Conns : /\ Usable(k)
                        /\ conn' = [conn EXCEPT ![k] = "busy"]
                        /\ age' = [age EXCEPT ![k] = 0]
                        /\ via' = [via EXCEPT ![c] = k]
    /\ pc' = [pc EXCEPT ![c] = "pending"]
    /\ NoFault(c)
    /\ UNCHANGED <<dead, closed, loopVars, outcome>>

\* There is none: one is opened
PostFresh(c) ==
    /\ Posting(c) /\ ~closed
    /\ \A k \in Conns : ~Usable(k)
    /\ pc' = [pc EXCEPT ![c] = "connecting"]
    /\ NoFault(c)
    /\ UNCHANGED <<poolVars, closed, via, loopVars, outcome>>

\* The session is closed: the RuntimeError becomes a ClientConnectionError
PostClosed(c) ==
    /\ Posting(c) /\ closed
    /\ RaiseClientError(c)
    /\ NoFault(c)
    /\ UNCHANGED <<poolVars, closed>>

Connected(c) ==
    /\ pc[c] = "connecting" /\ ~closed
    /\ \E k \in Conns : /\ ~Usable(k) /\ conn[k] # "busy"
                        /\ conn' = [conn EXCEPT ![k] = "busy"]
                        /\ age' = [age EXCEPT ![k] = 0]
                        /\ dead' = dead \ {k}
                        /\ via' = [via EXCEPT ![c] = k]
    /\ pc' = [pc EXCEPT ![c] = "pending"]
    /\ NoFault(c)
    /\ UNCHANGED <<closed, loopVars, outcome, reached>>

\* An OSError, which is a ClientError but not one the transport repeats
ConnectFails(c) ==
    /\ pc[c] = "connecting"
    /\ RaiseClientError(c)
    /\ Fault(c) \/ (closed /\ NoFault(c))
    /\ UNCHANGED <<poolVars, closed, reached>>

\* The camera executes the request and answers; the connection goes to the pool
Answered(c) ==
    /\ pc[c] = "pending" /\ via[c] \notin dead
    /\ reached' = [reached EXCEPT ![c] = @ + 1]
    /\ conn' = [conn EXCEPT ![via[c]] = "idle"]
    /\ End(c, "answer")
    /\ NoFault(c)
    /\ UNCHANGED <<age, dead, closed>>

\* The camera may have executed a request that ends otherwise
MaybeReached(c) ==
    \/ UNCHANGED reached
    \/ via[c] \in Conns \ dead /\ reached' = [reached EXCEPT ![c] = @ + 1]

\* The connection had been closed before the request, or by close() of the session
FoundDead(c) ==
    /\ pc[c] = "pending" /\ via[c] \in dead
    /\ Drop(c)
    /\ Repeat(c)
    /\ NoFault(c)
    /\ UNCHANGED <<closed, reached>>

\* The camera closes the connection of a request instead of answering
Disconnected(c) ==
    /\ pc[c] = "pending" /\ via[c] \notin dead
    /\ MaybeReached(c)
    /\ Drop(c)
    /\ Repeat(c)
    /\ Fault(c)
    /\ UNCHANGED closed

\* A ClientOSError: the connection is reset
Reset(c) ==
    /\ pc[c] = "pending"
    /\ MaybeReached(c)
    /\ Drop(c)
    /\ RaiseClientError(c)
    /\ Fault(c)
    /\ UNCHANGED closed

\* Whatever class the timeout has, it becomes a plain TimeoutError, which no layer
\* repeats
TimedOut(c) ==
    /\ pc[c] \in {"connecting", "pending"}
    /\ MaybeReached(c)
    /\ Drop(c)
    /\ End(c, "timeout")
    /\ Fault(c)
    /\ UNCHANGED closed

\* Slip: every RuntimeError is passed on
MisusedAsIs(c) ==
    /\ pc[c] = "pending"
    /\ Drop(c)
    /\ End(c, "runtime")
    /\ Fault(c) \/ (closed /\ NoFault(c))
    /\ UNCHANGED <<closed, reached>>

\* A RuntimeError of aiohttp while the request is pending
Misused(c) ==
    /\ pc[c] = "pending"
    /\ Drop(c)
    /\ \/ closed /\ RaiseClientError(c) /\ NoFault(c)
       \/ ~closed /\ End(c, "runtime") /\ Fault(c)
    /\ UNCHANGED <<closed, reached>>

Cancelled(c) ==
    /\ ~Idle(c)
    /\ MaybeReached(c)
    /\ Drop(c)
    /\ End(c, "cancelled")
    /\ NoFault(c)
    /\ UNCHANGED closed

-----------------------------------------------------------------------------
(* The camera, the connector and the consumer *)

\* The camera may close an idle connection at any time
CameraCloses(k) ==
    /\ conn[k] = "idle" /\ k \notin dead
    /\ dead' = dead \cup {k}
    /\ troubled' = Renewers
    /\ UNCHANGED <<conn, age, loopVars, faulted, overlapped, closed, pc, via, outcome,
                   reached, spent>>

\* The event loop reads the end of the stream, or the connector's timer expires
Discarded(k) ==
    /\ conn[k] = "idle"
    /\ k \in dead \/ age[k] > KeepAlive
    /\ conn' = [conn EXCEPT ![k] = "none"]
    /\ age' = [age EXCEPT ![k] = 0]
    /\ dead' = dead \ {k}
    /\ UNCHANGED <<loopVars, ghostVars, closed, pc, via, outcome, reached, spent>>

\* ONVIFService.close()
CloseSession ==
    /\ ~closed /\ closed' = TRUE
    /\ conn' = [k \in Conns |-> IF conn[k] = "busy" THEN "busy" ELSE "none"]
    /\ age' = [k \in Conns |-> 0]
    /\ dead' = {k \in Conns : conn[k] = "busy"}
    /\ UNCHANGED <<loopVars, ghostVars, pc, via, outcome, reached, spent>>

Tick ==
    /\ \/ \E c \in Callers : pc[c] = "backoff" /\ timer[c] > 0
       \/ \E k \in Conns : Usable(k)
    /\ age' = [k \in Conns |->
                  IF conn[k] = "idle" /\ age[k] <= KeepAlive THEN age[k] + 1 ELSE age[k]]
    /\ timer' = [c \in Callers |-> IF timer[c] > 0 THEN timer[c] - 1 ELSE 0]
    /\ UNCHANGED <<conn, dead, inner, outer, ghostVars, closed, pc, via, outcome,
                   reached, spent>>

-----------------------------------------------------------------------------
Init ==
    /\ \E W \in SUBSET Warm : /\ conn = [k \in Conns |-> IF k \in W THEN "idle" ELSE "none"]
                             /\ overlapped = (W # {})
    /\ age = [k \in Conns |-> 0] /\ dead = {}
    /\ closed = FALSE
    /\ pc = [c \in Callers |-> "idle"] /\ via = [c \in Callers |-> None]
    /\ inner = [c \in Callers |-> 0] /\ outer = [c \in Callers |-> 0]
    /\ timer = [c \in Callers |-> 0]
    /\ outcome = [c \in Callers |-> "none"] /\ reached = [c \in Callers |-> 0]
    /\ spent = 0
    /\ faulted = {} /\ troubled = {}

Step(c) ==
    \/ PostPooled(c) \/ PostFresh(c) \/ PostClosed(c)
    \/ Connected(c) \/ ConnectFails(c)
    \/ Answered(c) \/ FoundDead(c) \/ Disconnected(c) \/ Reset(c)
    \/ TimedOut(c) \/ Misused(c)

Next ==
    \/ \E c \in Callers : Call(c) \/ Step(c) \/ Cancelled(c)
    \/ \E k \in Conns : CameraCloses(k) \/ Discarded(k)
    \/ CloseSession
    \/ Tick

Spec == Init /\ [][Next]_vars

-----------------------------------------------------------------------------
\* The event loop runs what is due, aiohttp ends every request (ClientTimeout), and
\* timers run
FairSpec == Spec /\ WF_vars(Tick) /\ \A c \in Callers : WF_vars(Step(c))

(* A call that is never beside another fails with a connection error only if   *)
(* the camera or the network failed it, or the session was closed: an idle     *)
(* connection that the camera had closed is never enough, since the transport  *)
(* posts twice and the pool of such a service has one connection to lend.      *)
LoneCallSurvives ==
    ~overlapped => \A c \in Callers : outcome[c] = "client" => c \in faulted \/ closed

(* However many dead connections the pool holds, a Renew fails with a          *)
(* connection error only if, after its last backoff began, it met a fault of   *)
(* its own or the camera closed yet another idle connection: all those that    *)
(* were dead before are out of the pool when the backoff is over.              *)
RenewSurvives ==
    \A c \in Renewers : outcome[c] = "client" => c \in troubled \/ closed

(* Closing the session never makes a request end with a RuntimeError, which    *)
(* the renewal tasks of the managers do not handle.                            *)
NoRuntimeAfterClose ==
    [][\A c \in Callers : outcome[c] # "runtime" /\ outcome'[c] = "runtime" => ~closed]_vars

(* Two layers of attempts, their backoffs and the timeouts always let a call   *)
(* come to its end.                                                            *)
CallsEnd == \A c \in Callers : ~Idle(c) ~> Idle(c)

(* "Both mean the request did not reach the server, so retry is                *)
(* idempotency-safe": one post() is executed at most once.                     *)
PostedOnce == \A c \in Callers : reached[c] <= 1

=============================================================================
