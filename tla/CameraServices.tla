---------------------------- MODULE CameraServices ----------------------------
(***************************************************************************)
(* onvif/client.py: the services of one ONVIFCamera.  Coroutines create    *)
(* them (create_onvif_service), discover their addresses (update_xaddrs),  *)
(* fetch the capabilities (get_capabilities), measure the camera's clock   *)
(* on the way (_adjust_time) and close everything (close).                 *)
(*                                                                         *)
(* An action is what a coroutine does between two suspensions.  Nothing    *)
(* here takes a lock: two operations meet wherever one of them awaits.     *)
(***************************************************************************)
EXTENDS Naturals, FiniteSets

CONSTANTS
    Callers,     \* the coroutines that use the camera
    Svc,         \* identities of ONVIFService objects
    Dev,         \* the binding key of devicemgmt, whose address is fixed
    Others,      \* the other binding keys
    DevAddr,     \* the address of devicemgmt
    Addr,        \* addresses the camera may advertise for the others
    Skews,       \* clock offsets a handshake may measure
    None,
    Ops,         \* what the callers do: a subset of AllOps
    AdjustTime,  \* adjust_time
    Loaded,      \* the keys whose wsdl document the process has loaded before
    Cancels,     \* whether callers may be cancelled, as by asyncio.wait_for()
    Rounds,      \* bound: operations begun
    Budget       \* bound: faults of the camera, the network and the disk

Keys == {Dev} \cup Others
AllOps == {"create", "discover", "capabilities", "close"}

ASSUME PoolIdentity ==
    /\ Dev \notin Others
    /\ Svc \subseteq Nat
    /\ None \notin Svc /\ None \notin Keys /\ None \notin Skews
    /\ None \notin Addr \cup {DevAddr}
ASSUME PoolUse ==
    /\ Ops \subseteq AllOps /\ Loaded \subseteq Keys
    /\ AdjustTime \in BOOLEAN /\ Cancels \in BOOLEAN
ASSUME PoolBounds == Rounds \in Nat /\ Budget \in Nat

VARIABLES
    dt_diff,      \* the clock offset, or None
    xaddrs,       \* the address table, without the fixed address of devicemgmt
    services,     \* the registered service of each key, or None
    capabilities, \* _capabilities has been fetched
    warm,         \* keys whose document is in _DOCUMENT_CACHE
    svc,          \* the service objects: address, offset built in, session open
    pc,           \* where each caller is suspended
    doing,        \* the operation it is in
    key,          \* the key it creates, closes or is setting up
    local,        \* the service it works with
    want,         \* the address it read for the service it is about to build
    visited,      \* close(): the service objects it has closed
    began,        \* close(): the registered objects when the iteration began
    begun,        \* bound: number of operations begun
    spent,        \* bound: faults
    closed,       \* history: a close() has returned and nothing was begun since
    orderly       \* history: no operation has begun beside another or been cancelled

callVars == <<doing, key, local, want>>
closeVars == <<visited, began, closed, orderly>>
boundVars == <<begun, spent>>
vars == <<dt_diff, xaddrs, services, capabilities, warm, svc, pc, callVars,
          closeVars, boundVars>>

\* A request of an operation on devicemgmt is pending
RequestPoints == {"clock", "clockauth", "getservices", "getcaps"}
Points == RequestPoints \cup
    {"idle", "setup", "closing", "reclosing", "snapshot", "closeall"}

TypeOK ==
    /\ dt_diff \in Skews \cup {None}
    /\ xaddrs \in [Others -> Addr \cup {None}]
    /\ services \in [Keys -> Svc \cup {None}]
    /\ capabilities \in BOOLEAN
    /\ warm \subseteq Keys
    /\ svc \in [Svc -> [addr : Addr \cup {DevAddr, None},
                        dt : Skews \cup {None}, open : BOOLEAN]]
    /\ pc \in [Callers -> Points]
    /\ doing \in [Callers -> AllOps \cup {None}]
    /\ key \in [Callers -> Keys \cup {None}]
    /\ local \in [Callers -> Svc \cup {None}]
    /\ want \in [Callers -> Addr \cup {DevAddr, None}]
    /\ visited \in [Callers -> SUBSET Svc]
    /\ began \in [Callers -> SUBSET Svc]
    /\ begun \in 0..Rounds
    /\ spent \in 0..Budget
    /\ closed \in BOOLEAN
    /\ orderly \in BOOLEAN

-----------------------------------------------------------------------------
Idle(c) == pc[c] = "idle"
AtRest == \A c \in Callers : Idle(c)
Registered == {services[k] : k \in Keys} \ {None}
AddressOf(k) == IF k = Dev THEN DevAddr ELSE xaddrs[k]

Free == {s \in Svc : /\ ~svc[s].open /\ s \notin Registered
                     /\ \A c \in Callers : local[c] # s /\ s \notin visited[c]}
First(s, S) == s \in S /\ \A r \in S : s <= r

Fault == spent < Budget /\ spent' = spent + 1

-----------------------------------------------------------------------------
(* What a caller does at the end of a segment *)

\* The operation is over, by a return or by an exception
Finish(c) ==
    /\ pc' = [pc EXCEPT ![c] = "idle"]
    /\ doing' = [doing EXCEPT ![c] = None]
    /\ key' = [key EXCEPT ![c] = None]
    /\ local' = [local EXCEPT ![c] = None]
    /\ want' = [want EXCEPT ![c] = None]

\* The caller suspends at a point, working with service s of key k
Wait(c, point, op, k, s, addr) ==
    /\ pc' = [pc EXCEPT ![c] = point]
    /\ doing' = [doing EXCEPT ![c] = op]
    /\ key' = [key EXCEPT ![c] = k]
    /\ local' = [local EXCEPT ![c] = s]
    /\ want' = [want EXCEPT ![c] = addr]

\* _devicemgmt_with_time() has returned: update_xaddrs() empties the address
\* table and asks for GetServices, get_capabilities() for GetCapabilities
Ask(c, op, s) ==
    \/ /\ op = "discover"
       /\ xaddrs' = [k \in Others |-> None]
       /\ Wait(c, "getservices", op, Dev, s, None)
    \/ /\ op = "capabilities"
       /\ Wait(c, "getcaps", op, Dev, s, None)
       /\ UNCHANGED xaddrs

\* create_onvif_service() has returned s.  Its caller returns it too, or goes on
\* in _devicemgmt_with_time() with the handshake, unless the offset is known.
Arrive(c, op, s, diff) ==
    \/ op = "create" /\ Finish(c) /\ UNCHANGED xaddrs
    \/ /\ op # "create" /\ AdjustTime /\ diff = None
       /\ Wait(c, "clock", op, Dev, s, None)
       /\ UNCHANGED xaddrs
    \/ /\ op # "create" /\ (~AdjustTime \/ diff # None)
       /\ Ask(c, op, s)

-----------------------------------------------------------------------------
(* create_onvif_service() *)

New(s, addr, diff) ==
    /\ First(s, Free)
    /\ svc' = [svc EXCEPT ![s] = [addr |-> addr, dt |-> diff, open |-> TRUE]]

\* The document is loaded: setup() does not suspend and the service is
\* registered in the same segment
BuildWarm(c, op, k, addr, diff) ==
    /\ k \in warm
    /\ \E s \in Svc : /\ New(s, addr, diff)
                     /\ services' = [services EXCEPT ![k] = s]
                     /\ Arrive(c, op, s, diff)

\* Otherwise setup() waits for the sqlite cache and the document
BuildCold(c, op, k, addr, diff) ==
    /\ k \notin warm
    /\ \E s \in Svc : /\ New(s, addr, diff)
                     /\ Wait(c, "setup", op, k, s, None)
    /\ services' = [services EXCEPT ![k] = None]
    /\ UNCHANGED xaddrs

\* Slip: the service is registered before it is set up
BuildUnready(c, op, k, addr, diff) ==
    \E s \in Svc : /\ New(s, addr, diff)
                  /\ Wait(c, "setup", op, k, s, None)
                  /\ services' = [services EXCEPT ![k] = None]
                  /\ UNCHANGED xaddrs

Build(c, op, k, addr, diff) ==
    BuildWarm(c, op, k, addr, diff) \/ BuildCold(c, op, k, addr, diff)

\* The registered service can be returned
Reusable(k) == services[k] # None /\ svc[services[k]].addr = AddressOf(k)

CreateService(c, op, k, diff) ==
    \/ /\ AddressOf(k) = None   \* get_definition(): ONVIFError
       /\ Finish(c)
       /\ UNCHANGED <<services, svc, xaddrs>>
    \/ /\ AddressOf(k) # None /\ Reusable(k)
       /\ Arrive(c, op, services[k], diff)
       /\ UNCHANGED <<services, svc>>
    \/ /\ AddressOf(k) # None /\ services[k] = None
       /\ Build(c, op, k, AddressOf(k), diff)
    \/ /\ AddressOf(k) # None /\ services[k] # None /\ ~Reusable(k)
       /\ svc' = [svc EXCEPT ![services[k]].open = FALSE]
       /\ Wait(c, "closing", op, k, services[k], AddressOf(k))
       /\ UNCHANGED <<services, xaddrs>>

\* Slip: the address is stored in place of the service
RegisterAddress(c) ==
    /\ pc[c] = "setup"
    /\ warm' = warm \cup {key[c]}
    /\ services' = [services EXCEPT ![key[c]] = svc[local[c]].addr]
    /\ Arrive(c, doing[c], local[c], dt_diff)
    /\ UNCHANGED <<dt_diff, capabilities, svc, closeVars, boundVars>>

\* setup() is over: the service is registered, whoever is registered there
SetupReturns(c) ==
    /\ pc[c] = "setup"
    /\ warm' = warm \cup {key[c]}
    /\ services' = [services EXCEPT ![key[c]] = local[c]]
    /\ Arrive(c, doing[c], local[c], dt_diff)
    /\ UNCHANGED <<dt_diff, capabilities, svc, closeVars, boundVars>>

SetupFails(c) ==
    /\ pc[c] = "setup" /\ Fault
    /\ Finish(c)
    /\ UNCHANGED <<dt_diff, xaddrs, services, capabilities, warm, svc, closeVars,
                   begun>>

\* close() of the old service is over: it is popped and its successor built
OldClosed(c) ==
    /\ pc[c] = "closing" /\ services[key[c]] # None
    /\ Build(c, doing[c], key[c], want[c], dt_diff)
    /\ UNCHANGED <<dt_diff, capabilities, warm, closeVars, boundVars>>

-----------------------------------------------------------------------------
(* _adjust_time() *)

\* Slip: the offset is stored, and devicemgmt is not closed
ClockKept(c) ==
    /\ pc[c] \in {"clock", "clockauth"} /\ svc[local[c]].open
    /\ dt_diff' \in Skews
    /\ pc' = [pc EXCEPT ![c] = "reclosing"]
    /\ UNCHANGED <<xaddrs, services, capabilities, warm, svc, callVars, closeVars,
                   boundVars>>

\* The offset is stored and devicemgmt closed
ClockAnswered(c) ==
    /\ pc[c] \in {"clock", "clockauth"} /\ svc[local[c]].open
    /\ dt_diff' \in Skews
    /\ svc' = [svc EXCEPT ![local[c]].open = FALSE]
    /\ pc' = [pc EXCEPT ![c] = "reclosing"]
    /\ UNCHANGED <<xaddrs, services, capabilities, warm, callVars, closeVars,
                   boundVars>>

\* A Fault without authentication: once more, with it
ClockRefused(c) ==
    /\ pc[c] = "clock" /\ svc[local[c]].open /\ Fault
    /\ pc' = [pc EXCEPT ![c] = "clockauth"]
    /\ UNCHANGED <<dt_diff, xaddrs, services, capabilities, warm, svc, callVars,
                   closeVars, begun>>

\* Slips: the service is built without the offset; devicemgmt is
\* not taken out, so that it is created as it was
DevUnadjusted(c) ==
    /\ pc[c] = "reclosing" /\ services[Dev] # None
    /\ \E s \in Svc : /\ New(s, DevAddr, None)
                     /\ services' = [services EXCEPT ![Dev] = s]
                     /\ Ask(c, doing[c], s)
    /\ UNCHANGED <<dt_diff, capabilities, warm, closeVars, boundVars>>
ReuseClosed(c) ==
    /\ pc[c] = "reclosing" /\ services[Dev] # None
    /\ Ask(c, doing[c], services[Dev])
    /\ UNCHANGED <<dt_diff, services, svc, capabilities, warm, closeVars,
                   boundVars>>

\* devicemgmt is closed: it is taken out of the dictionary and created again,
\* with the offset of this moment.  Its document has been loaded, so that no
\* setup() suspends.
DevClosed(c) ==
    /\ pc[c] = "reclosing" /\ services[Dev] # None
    /\ \E s \in Svc : /\ New(s, DevAddr, dt_diff)
                     /\ services' = [services EXCEPT ![Dev] = s]
                     /\ Ask(c, doing[c], s)
    /\ UNCHANGED <<dt_diff, capabilities, warm, closeVars, boundVars>>

-----------------------------------------------------------------------------
(* GetServices and GetCapabilities *)

\* The addresses in an answer to GetServices: None where it has none, or a malformed
\* one, and the table keeps what it has
Advertised == [Others -> Addr \cup {None}]
Fill(found) ==
    xaddrs' = [k \in Others |-> IF found[k] = None THEN xaddrs[k] ELSE found[k]]
Something(found) == \E k \in Others : found[k] # None

\* GetCapabilities: an entry gets an address, keeps its own where the answer names no
\* such capability, or loses it to one whose address is empty
Overwrite == xaddrs' \in Advertised

ServicesAnswered(c) ==
    /\ pc[c] = "getservices" /\ svc[local[c]].open
    /\ \E found \in Advertised : Something(found) /\ Fill(found)
    /\ Finish(c)
    /\ UNCHANGED <<dt_diff, services, capabilities, warm, svc, closeVars,
                   boundVars>>

\* An empty answer or a Fault: fall back to GetCapabilities
ServicesMissing(c) ==
    /\ pc[c] = "getservices" /\ svc[local[c]].open
    /\ pc' = [pc EXCEPT ![c] = "getcaps"]
    /\ UNCHANGED <<dt_diff, xaddrs, services, capabilities, warm, svc, callVars,
                   closeVars, boundVars>>

\* Malformed entries are skipped; the structure may not be serializable
CapabilitiesAnswered(c) ==
    /\ pc[c] = "getcaps" /\ svc[local[c]].open
    /\ Overwrite
    /\ capabilities' \in {capabilities, TRUE}
    /\ Finish(c)
    /\ UNCHANGED <<dt_diff, services, warm, svc, closeVars, boundVars>>

\* An entry that raises something else ends the operation where it is
AnswerUnusable(c) ==
    /\ pc[c] \in {"getservices", "getcaps"} /\ svc[local[c]].open /\ Fault
    /\ \/ pc[c] = "getservices" /\ \E found \in Advertised : Fill(found)
       \/ pc[c] = "getcaps" /\ Overwrite
    /\ Finish(c)
    /\ UNCHANGED <<dt_diff, services, capabilities, warm, svc, closeVars, begun>>

\* The request fails: an error of the network or the camera, or the session was
\* closed under it
RequestFails(c) ==
    /\ pc[c] \in RequestPoints
    /\ Fault \/ (~svc[local[c]].open /\ UNCHANGED spent)
    /\ Finish(c)
    /\ UNCHANGED <<dt_diff, xaddrs, services, capabilities, warm, svc, closeVars,
                   begun>>

-----------------------------------------------------------------------------
(* ONVIFCamera.close() *)

CloseBegins(c) ==
    /\ "close" \in Ops /\ Idle(c) /\ begun < Rounds
    /\ begun' = begun + 1
    /\ closed' = FALSE /\ orderly' = (orderly /\ AtRest)
    /\ Wait(c, "snapshot", "close", None, None, None)
    /\ UNCHANGED <<dt_diff, xaddrs, services, capabilities, warm, svc, visited,
                   began, spent>>

\* The next service of the iteration is closed
CloseVisits(c, s) ==
    /\ svc' = [svc EXCEPT ![s].open = FALSE]
    /\ visited' = [visited EXCEPT ![c] = @ \cup {s}]
    /\ pc' = [pc EXCEPT ![c] = "closeall"]

\* The snapshot client is closed and the iteration over the dictionary begins
CloseFirst(c) ==
    /\ pc[c] = "snapshot" /\ Registered # {}
    /\ \E s \in Registered : CloseVisits(c, s)
    /\ began' = [began EXCEPT ![c] = Registered]
    /\ UNCHANGED <<dt_diff, xaddrs, services, capabilities, warm, callVars,
                   closed, orderly, boundVars>>

\* The dictionary has the size it had: the iteration goes on
CloseNext(c) ==
    /\ pc[c] = "closeall" /\ Cardinality(Registered) = Cardinality(began[c])
    /\ \E s \in Registered \ visited[c] : CloseVisits(c, s)
    /\ UNCHANGED <<dt_diff, xaddrs, services, capabilities, warm, callVars,
                   began, closed, orderly, boundVars>>

CloseLeaves(c) ==
    /\ visited' = [visited EXCEPT ![c] = {}]
    /\ began' = [began EXCEPT ![c] = {}]
    /\ Finish(c)
    /\ UNCHANGED <<dt_diff, xaddrs, services, capabilities, warm, svc, orderly,
                   boundVars>>

\* Slip: the iteration stops after the first service
CloseOne(c) ==
    /\ pc[c] = "closeall"
    /\ closed' = TRUE
    /\ CloseLeaves(c)

\* The iteration is over.  An entry deleted and inserted again moves to the end
\* of the dictionary, and may make it compact itself under the iterator.
CloseEnds(c) ==
    /\ \/ pc[c] = "snapshot" /\ Registered = {}
       \/ /\ pc[c] = "closeall" /\ Cardinality(Registered) = Cardinality(began[c])
          /\ Registered \subseteq visited[c] \/ Registered # began[c]
    /\ closed' = TRUE
    /\ CloseLeaves(c)

\* "dictionary changed size during iteration"
CloseRaises(c) ==
    /\ pc[c] = "closeall" /\ Cardinality(Registered) # Cardinality(began[c])
    /\ CloseLeaves(c)
    /\ UNCHANGED closed

-----------------------------------------------------------------------------
Begin(c, op, k) ==
    LET diff == IF op = "discover" THEN None ELSE dt_diff IN
    /\ op \in Ops /\ Idle(c) /\ begun < Rounds
    /\ op \in {"discover", "capabilities"} => k = Dev
    /\ op = "capabilities" => ~capabilities
    /\ begun' = begun + 1
    /\ closed' = FALSE /\ orderly' = (orderly /\ AtRest)
    /\ dt_diff' = diff
    /\ CreateService(c, op, k, diff)
    /\ UNCHANGED <<capabilities, warm, visited, began, spent>>

\* CancelledError where the caller is suspended
Cancelled(c) ==
    /\ Cancels /\ ~Idle(c)
    /\ Finish(c)
    /\ visited' = [visited EXCEPT ![c] = {}]
    /\ began' = [began EXCEPT ![c] = {}]
    /\ orderly' = FALSE
    /\ UNCHANGED <<dt_diff, xaddrs, services, capabilities, warm, svc, closed,
                   boundVars>>

Init ==
    /\ dt_diff = None
    /\ xaddrs = [k \in Others |-> None]
    /\ services = [k \in Keys |-> None]
    /\ capabilities = FALSE
    /\ warm = Loaded
    /\ svc = [s \in Svc |-> [addr |-> None, dt |-> None, open |-> FALSE]]
    /\ pc = [c \in Callers |-> "idle"]
    /\ doing = [c \in Callers |-> None]
    /\ key = [c \in Callers |-> None]
    /\ local = [c \in Callers |-> None]
    /\ want = [c \in Callers |-> None]
    /\ visited = [c \in Callers |-> {}] /\ began = [c \in Callers |-> {}]
    /\ begun = 0 /\ spent = 0
    /\ closed = FALSE /\ orderly = TRUE

Step(c) ==
    \/ SetupReturns(c) \/ SetupFails(c) \/ OldClosed(c)
    \/ ClockAnswered(c) \/ ClockRefused(c) \/ DevClosed(c)
    \/ ServicesAnswered(c) \/ ServicesMissing(c) \/ CapabilitiesAnswered(c)
    \/ AnswerUnusable(c) \/ RequestFails(c)
    \/ CloseFirst(c) \/ CloseNext(c) \/ CloseEnds(c) \/ CloseRaises(c)
    \/ Cancelled(c)

Next ==
    \E c \in Callers :
        \/ \E op \in {"create", "discover", "capabilities"}, k \in Keys : Begin(c, op, k)
        \/ CloseBegins(c)
        \/ Step(c)

Spec == Init /\ [][Next]_vars

-----------------------------------------------------------------------------
(* Properties *)

\* The entry that a coroutine removes after an await is still there, whatever
\* the others did meanwhile: no KeyError from pop() or del.
EntryToRemove ==
    \A c \in Callers :
        /\ pc[c] = "closing" => services[key[c]] # None
        /\ pc[c] = "reclosing" => services[Dev] # None

\* Every open session belongs to a registered service or to one that is being
\* set up, so that close() finds it.
NoLeak ==
    \A s \in Svc : svc[s].open =>
        s \in Registered \/ \E c \in Callers : pc[c] = "setup" /\ local[c] = s

\* "Returns the devicemgmt service the caller should continue to use": no request
\* is sent through a service whose session is closed already, whatever failed
\* before, as long as the operations come one after the other.
SendsOpen ==
    [][orderly' => \A c \in Callers :
          pc'[c] \in RequestPoints /\ pc'[c] # pc[c] => svc'[local'[c]].open]_vars

\* Every GetServices and GetCapabilities that goes out is signed with the offset
\* measured last, also when get_capabilities() comes first, a measurement fails or
\* the camera's clock is measured again, as long as the operations come one after
\* the other.
Compensated ==
    [][AdjustTime /\ orderly' => \A c \in Callers :
          /\ pc'[c] \in {"getservices", "getcaps"} /\ pc'[c] # pc[c]
          /\ svc'[local'[c]].open
          => LET dt == svc'[local'[c]].dt IN dt # None /\ dt_diff' \in {None, dt}]_vars

\* The registered devicemgmt signs with the offset measured last, if its session is
\* open, whatever handshakes overlap, fail or are cancelled anywhere: no coroutine
\* registers one of an earlier offset over it.  That its document is loaded before
\* is needed.
OffsetServed ==
    LET s == services[Dev] IN
    dt_diff # None /\ s # None /\ svc[s].open => svc[s].dt = dt_diff

\* "Close all transports.": when close() has returned and nothing was begun since,
\* every session is closed.
ClosesAll == closed /\ AtRest => \A s \in Svc : ~svc[s].open

=============================================================================
