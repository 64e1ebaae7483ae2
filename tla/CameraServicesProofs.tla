------------------------- MODULE CameraServicesProofs -------------------------
(***************************************************************************)
(* What holds of CameraServices for every value of its constants: any      *)
(* number of callers, services, addresses and faults.                      *)
(***************************************************************************)
EXTENDS CameraServices, FiniteSetTheorems, TLAPS

-----------------------------------------------------------------------------
(* Type correctness, in three parts: where the callers are, the address      *)
(* table and the bookkeeping, the services.                                  *)

Where == Addr \cup {DevAddr, None}

CallOK ==
    /\ pc \in [Callers -> Points]
    /\ doing \in [Callers -> AllOps \cup {None}]
    /\ key \in [Callers -> Keys \cup {None}]
    /\ local \in [Callers -> Svc \cup {None}]
    /\ want \in [Callers -> Where]

TableOK == xaddrs \in [Others -> Addr \cup {None}]

PoolOK ==
    /\ services \in [Keys -> Svc \cup {None}]
    /\ svc \in [Svc -> [addr : Where, dt : Skews \cup {None}, open : BOOLEAN]]

RestOK ==
    /\ dt_diff \in Skews \cup {None}
    /\ capabilities \in BOOLEAN
    /\ warm \subseteq Keys
    /\ visited \in [Callers -> SUBSET Svc]
    /\ began \in [Callers -> SUBSET Svc]
    /\ begun \in 0..Rounds
    /\ spent \in 0..Budget
    /\ closed \in BOOLEAN /\ orderly \in BOOLEAN

LEMMA TypeParts ==
    /\ TypeOK <=> CallOK /\ TableOK /\ PoolOK /\ RestOK
    /\ TypeOK' <=> CallOK' /\ TableOK' /\ PoolOK' /\ RestOK'
  BY DEF TypeOK, CallOK, TableOK, PoolOK, RestOK, Where

LEMMA TypeInit == Init => TypeOK
<1> SUFFICES ASSUME Init PROVE CallOK /\ TableOK /\ PoolOK /\ RestOK
  BY TypeParts
<1>1. CallOK
  BY DEF Init, CallOK, Points, Where
<1>2. TableOK /\ PoolOK
  BY DEF Init, TableOK, PoolOK, Where
<1>3. RestOK
  <2>1. begun \in 0..Rounds /\ spent \in 0..Budget
    BY PoolBounds DEF Init
  <2> QED
    BY <2>1, PoolUse DEF Init, RestOK
<1> QED
  BY <1>1, <1>2, <1>3

\* A fault stays within its bound
LEMMA FaultTyped ==
    ASSUME spent \in 0..Budget, Fault
    PROVE  spent' \in 0..Budget
  BY PoolBounds DEF Fault

-----------------------------------------------------------------------------
(* What the type of the services rests on, and why the entry to remove is    *)
(* still there: a service is registered only under a key whose document is   *)
(* loaded, so its successor is registered in the segment that removes it.    *)

LoadedFirst == \A k \in Keys : services[k] # None => k \in warm

\* A caller that will register or remove a service knows which, and the entry it
\* will remove, or is on the way to remove, is there
Placed(c) ==
    /\ pc[c] = "setup" => key[c] \in Keys /\ local[c] \in Svc
    /\ pc[c] = "closing" => key[c] \in Keys /\ services[key[c]] # None
    /\ pc[c] \in {"setup", "closing"} /\ doing[c] # "create" => key[c] = Dev
    /\ pc[c] \in {"clock", "clockauth", "reclosing"} => services[Dev] # None

PoolInv == TypeOK /\ LoadedFirst /\ \A c \in Callers : Placed(c)

\* The steps of c leave the other callers where they are
OthersStay(c) ==
    \A d \in Callers \ {c} :
        pc'[d] = pc[d] /\ doing'[d] = doing[d] /\ key'[d] = key[d] /\ local'[d] = local[d]

\* No entry disappears
EntriesStay == \A k \in Keys : services[k] # None => services'[k] # None

\* It is enough to look at the caller that moves
LEMMA PlacedStep ==
    ASSUME PoolInv, NEW c \in Callers, OthersStay(c), EntriesStay, Placed(c)'
    PROVE  \A d \in Callers : Placed(d)'
<1> SUFFICES ASSUME NEW d \in Callers \ {c} PROVE Placed(d)'
  OBVIOUS
<1> QED
  BY DEF PoolInv, OthersStay, EntriesStay, Placed, Keys

LEMMA FinishEffect ==
    ASSUME CallOK, NEW c \in Callers, Finish(c)
    PROVE  CallOK' /\ OthersStay(c) /\ pc'[c] = "idle"
  BY DEF CallOK, Finish, Points, Where, OthersStay

LEMMA WaitEffect ==
    ASSUME CallOK, NEW c \in Callers, NEW point \in Points,
           NEW op \in AllOps \cup {None}, NEW k \in Keys \cup {None},
           NEW s \in Svc \cup {None}, NEW addr \in Where,
           Wait(c, point, op, k, s, addr)
    PROVE  /\ CallOK' /\ OthersStay(c)
           /\ pc'[c] = point /\ doing'[c] = op /\ key'[c] = k /\ local'[c] = s
  BY DEF CallOK, Wait, OthersStay

\* Only pc moves
LEMMA MoveEffect ==
    ASSUME CallOK, NEW c \in Callers, NEW point \in Points,
           pc' = [pc EXCEPT ![c] = point], UNCHANGED callVars
    PROVE  CallOK' /\ OthersStay(c) /\ pc'[c] = point
  BY DEF CallOK, callVars, OthersStay

LEMMA AskEffect ==
    ASSUME CallOK, TableOK, NEW c \in Callers, NEW op \in AllOps \cup {None},
           NEW s \in Svc \cup {None}, Ask(c, op, s)
    PROVE  CallOK' /\ TableOK' /\ OthersStay(c) /\ pc'[c] \in {"getservices", "getcaps"}
<1>0. {"getservices", "getcaps"} \subseteq Points /\ Dev \in Keys /\ None \in Where
  BY DEF Points, RequestPoints, Keys, Where
<1>1. CASE Wait(c, "getservices", op, Dev, s, None) /\ xaddrs' = [k \in Others |-> None]
  BY <1>0, <1>1, WaitEffect DEF TableOK
<1>2. CASE Wait(c, "getcaps", op, Dev, s, None) /\ UNCHANGED xaddrs
  BY <1>0, <1>2, WaitEffect DEF TableOK
<1> QED
  BY <1>1, <1>2 DEF Ask

LEMMA ArriveEffect ==
    ASSUME CallOK, TableOK, NEW c \in Callers, NEW op \in AllOps \cup {None},
           NEW s \in Svc \cup {None}, NEW diff, Arrive(c, op, s, diff)
    PROVE  /\ CallOK' /\ TableOK' /\ OthersStay(c)
           /\ pc'[c] \in {"idle", "clock", "getservices", "getcaps"}
           /\ pc'[c] = "clock" => op # "create"
<1>0. "clock" \in Points /\ Dev \in Keys /\ None \in Where
  BY DEF Points, RequestPoints, Keys, Where
<1>1. CASE Finish(c) /\ UNCHANGED xaddrs
  BY <1>1, FinishEffect DEF TableOK
<1>2. CASE op # "create" /\ Wait(c, "clock", op, Dev, s, None) /\ UNCHANGED xaddrs
  BY <1>0, <1>2, WaitEffect DEF TableOK
<1>3. CASE Ask(c, op, s)
  BY <1>3, AskEffect
<1> QED
  BY <1>1, <1>2, <1>3 DEF Arrive

LEMMA NewTyped ==
    ASSUME PoolOK, NEW s \in Svc, NEW addr \in Where,
           NEW diff \in Skews \cup {None}, New(s, addr, diff)
    PROVE  svc' \in [Svc -> [addr : Where, dt : Skews \cup {None}, open : BOOLEAN]]
  BY DEF PoolOK, New

\* A service is built for a key with no service registered, or with one that was
LEMMA BuildEffect ==
    ASSUME CallOK, TableOK, PoolOK, LoadedFirst, NEW c \in Callers,
           NEW op \in AllOps \cup {None}, NEW k \in Keys,
           NEW addr \in Where, NEW diff \in Skews \cup {None},
           op # "create" => k = Dev, UNCHANGED warm,
           Build(c, op, k, addr, diff)
    PROVE  /\ CallOK' /\ TableOK' /\ PoolOK' /\ LoadedFirst'
           /\ OthersStay(c) /\ EntriesStay /\ Placed(c)'
<1>0. "setup" \in Points /\ None \in Where /\ None \notin Svc
  BY PoolIdentity DEF Points, Where
<1>1. CASE BuildWarm(c, op, k, addr, diff)
  <2>1. PICK s \in Svc : /\ New(s, addr, diff)
                         /\ services' = [services EXCEPT ![k] = s]
                         /\ Arrive(c, op, s, diff)
    BY <1>1 DEF BuildWarm
  <2>2. /\ CallOK' /\ TableOK' /\ OthersStay(c)
        /\ pc'[c] \in {"idle", "clock", "getservices", "getcaps"}
        /\ pc'[c] = "clock" => op # "create"
    BY <2>1, ArriveEffect
  <2>3. PoolOK' /\ services'[k] # None /\ EntriesStay
    BY <1>0, <2>1, NewTyped DEF PoolOK, EntriesStay
  <2>4. LoadedFirst'
    BY <1>1, <2>1 DEF BuildWarm, LoadedFirst, PoolOK
  <2> QED
    BY <2>2, <2>3, <2>4 DEF Placed
<1>2. CASE BuildCold(c, op, k, addr, diff)
  <2>1. PICK s \in Svc : New(s, addr, diff) /\ Wait(c, "setup", op, k, s, None)
    BY <1>2 DEF BuildCold
  <2>2. /\ CallOK' /\ OthersStay(c) /\ pc'[c] = "setup"
        /\ doing'[c] = op /\ key'[c] = k /\ local'[c] = s
    BY <1>0, <2>1, WaitEffect
  <2>3. TableOK' /\ PoolOK'
    BY <1>2, <2>1, NewTyped DEF BuildCold, PoolOK, TableOK
  <2>4. services[k] = None
    BY <1>2 DEF BuildCold, LoadedFirst
  <2>5. LoadedFirst' /\ EntriesStay
    BY <1>2, <2>4 DEF BuildCold, LoadedFirst, PoolOK, EntriesStay
  <2> QED
    BY <2>2, <2>3, <2>5 DEF Placed
<1> QED
  BY <1>1, <1>2 DEF Build

LEMMA CreateServiceEffect ==
    ASSUME CallOK, TableOK, PoolOK, LoadedFirst, NEW c \in Callers,
           NEW op \in AllOps \cup {None}, NEW k \in Keys,
           NEW diff \in Skews \cup {None},
           op # "create" => k = Dev, UNCHANGED warm,
           CreateService(c, op, k, diff)
    PROVE  /\ CallOK' /\ TableOK' /\ PoolOK' /\ LoadedFirst'
           /\ OthersStay(c) /\ EntriesStay /\ Placed(c)'
<1>0. /\ AddressOf(k) \in Where /\ services[k] \in Svc \cup {None}
      /\ "closing" \in Points
  BY DEF AddressOf, Where, TableOK, Keys, PoolOK, Points
<1>1. CASE Finish(c) /\ UNCHANGED <<services, svc, xaddrs>>
  <2>1. CallOK' /\ OthersStay(c) /\ pc'[c] = "idle"
    BY <1>1, FinishEffect
  <2> QED
    BY <1>1, <2>1 DEF TableOK, PoolOK, LoadedFirst, EntriesStay, Placed
<1>2. CASE /\ Reusable(k) /\ Arrive(c, op, services[k], diff)
           /\ UNCHANGED <<services, svc>>
  <2>1. /\ CallOK' /\ TableOK' /\ OthersStay(c)
        /\ pc'[c] \in {"idle", "clock", "getservices", "getcaps"}
        /\ pc'[c] = "clock" => op # "create"
    BY <1>0, <1>2, ArriveEffect
  <2> QED
    BY <1>2, <2>1 DEF PoolOK, LoadedFirst, EntriesStay, Placed, Reusable
<1>3. CASE Build(c, op, k, AddressOf(k), diff)
  BY <1>0, <1>3, BuildEffect
<1>4. CASE /\ services[k] # None
           /\ svc' = [svc EXCEPT ![services[k]].open = FALSE]
           /\ Wait(c, "closing", op, k, services[k], AddressOf(k))
           /\ UNCHANGED <<services, xaddrs>>
  <2>1. /\ CallOK' /\ OthersStay(c) /\ pc'[c] = "closing"
        /\ doing'[c] = op /\ key'[c] = k
    BY <1>0, <1>4, WaitEffect
  <2>2. PoolOK'
    <3>1. services[k] \in Svc
      BY <1>0, <1>4
    <3>2. svc' \in [Svc -> [addr : Where, dt : Skews \cup {None}, open : BOOLEAN]]
      BY <1>4, <3>1, Zenon DEF PoolOK
    <3> QED
      BY <1>4, <3>2 DEF PoolOK
  <2> QED
    BY <1>4, <2>1, <2>2 DEF TableOK, LoadedFirst, EntriesStay, Placed
<1> QED
  BY <1>1, <1>2, <1>3, <1>4 DEF CreateService

\* An answer with addresses leaves the table a table
LEMMA FillTyped ==
    ASSUME TableOK, NEW found \in Advertised, Fill(found)
    PROVE  TableOK'
  BY DEF TableOK, Advertised, Fill

-----------------------------------------------------------------------------
(* The inductive invariant, operation by operation                           *)

LEMMA PoolInvParts ==
    PoolInv <=> /\ CallOK /\ TableOK /\ PoolOK /\ RestOK
                /\ LoadedFirst /\ \A c \in Callers : Placed(c)
  BY TypeParts DEF PoolInv

\* create_onvif_service() and the operations that begin with it
LEMMA BeginStep ==
    ASSUME PoolInv, NEW c \in Callers, NEW k \in Keys,
           NEW op \in {"create", "discover", "capabilities"}, Begin(c, op, k)
    PROVE  PoolInv'
<1> DEFINE diff == IF op = "discover" THEN None ELSE dt_diff
<1>0. CallOK /\ TableOK /\ PoolOK /\ RestOK /\ LoadedFirst
  BY PoolInvParts
<1>1. /\ diff \in Skews \cup {None} /\ dt_diff' = diff
      /\ op \in AllOps \cup {None} /\ (op # "create" => k = Dev)
      /\ CreateService(c, op, k, diff)
      /\ UNCHANGED <<capabilities, warm, visited, began, spent>>
  BY <1>0 DEF Begin, RestOK, AllOps
<1>2. /\ CallOK' /\ TableOK' /\ PoolOK' /\ LoadedFirst'
      /\ OthersStay(c) /\ EntriesStay /\ Placed(c)'
  BY <1>0, <1>1, CreateServiceEffect
<1>a. begun < Rounds /\ begun' = begun + 1 /\ closed' = FALSE
  BY DEF Begin
<1>b. begun \in 0..Rounds /\ Rounds \in Nat
  BY <1>0, PoolBounds DEF RestOK
<1>c. begun' \in 0..Rounds
  BY <1>a, <1>b
<1>d. orderly' \in BOOLEAN
  BY Zenon DEF Begin, AtRest
<1>3. begun' \in 0..Rounds /\ closed' \in BOOLEAN /\ orderly' \in BOOLEAN
  BY <1>a, <1>c, <1>d, Zenon
<1>4. RestOK'
  BY <1>0, <1>1, <1>3 DEF RestOK
<1>5. \A d \in Callers : Placed(d)'
  BY <1>2, PlacedStep
<1> QED
  BY <1>2, <1>4, <1>5, TypeParts DEF PoolInv

LEMMA CreateStep ==
    ASSUME PoolInv, NEW c \in Callers, SetupReturns(c) \/ SetupFails(c) \/ OldClosed(c)
    PROVE  PoolInv'
<1>0. CallOK /\ TableOK /\ PoolOK /\ RestOK /\ LoadedFirst /\ Placed(c)
  BY PoolInvParts
<1>t. /\ doing[c] \in AllOps \cup {None} /\ want[c] \in Where
      /\ dt_diff \in Skews \cup {None}
  BY <1>0 DEF CallOK, RestOK
<1> SUFFICES /\ CallOK' /\ TableOK' /\ PoolOK' /\ RestOK' /\ LoadedFirst'
             /\ OthersStay(c) /\ EntriesStay /\ Placed(c)'
  BY PlacedStep, TypeParts DEF PoolInv
<1>1. CASE SetupReturns(c)
  <2>1. key[c] \in Keys /\ local[c] \in Svc /\ (doing[c] # "create" => key[c] = Dev)
    BY <1>0, <1>1 DEF SetupReturns, Placed
  <2>2. /\ CallOK' /\ TableOK' /\ OthersStay(c)
        /\ pc'[c] \in {"idle", "clock", "getservices", "getcaps"}
        /\ pc'[c] = "clock" => doing[c] # "create"
    BY <1>0, <1>1, <1>t, <2>1, ArriveEffect DEF SetupReturns
  <2>3. PoolOK' /\ services'[key[c]] # None /\ EntriesStay
    BY <1>0, <1>1, <2>1, PoolIdentity DEF SetupReturns, PoolOK, EntriesStay
  <2>4. LoadedFirst'
    BY <1>0, <1>1, <2>1 DEF SetupReturns, LoadedFirst, PoolOK
  <2>5. RestOK'
    BY <1>0, <1>1, <2>1 DEF SetupReturns, RestOK, closeVars, boundVars
  <2> QED
    BY <2>1, <2>2, <2>3, <2>4, <2>5 DEF Placed
<1>2. CASE SetupFails(c)
  <2>1. CallOK' /\ OthersStay(c) /\ pc'[c] = "idle"
    BY <1>0, <1>2, FinishEffect DEF SetupFails
  <2>2. spent' \in 0..Budget
    BY <1>0, <1>2, FaultTyped DEF SetupFails, RestOK
  <2> QED
    BY <1>0, <1>2, <2>1, <2>2 DEF SetupFails, TableOK, PoolOK, RestOK, LoadedFirst,
       EntriesStay, Placed, closeVars
<1>3. CASE OldClosed(c)
  <2>1. key[c] \in Keys /\ (doing[c] # "create" => key[c] = Dev)
    BY <1>0, <1>3 DEF OldClosed, Placed
  <2>2. /\ CallOK' /\ TableOK' /\ PoolOK' /\ LoadedFirst'
        /\ OthersStay(c) /\ EntriesStay /\ Placed(c)'
    BY <1>0, <1>3, <1>t, <2>1, BuildEffect DEF OldClosed
  <2>3. RestOK'
    BY <1>0, <1>3 DEF OldClosed, RestOK, closeVars, boundVars
  <2> QED
    BY <2>2, <2>3
<1> QED
  BY <1>1, <1>2, <1>3

\* The clock handshake
LEMMA ClockStep ==
    ASSUME PoolInv, NEW c \in Callers, ClockAnswered(c) \/ ClockRefused(c) \/ DevClosed(c)
    PROVE  PoolInv'
<1>0. CallOK /\ TableOK /\ PoolOK /\ RestOK /\ LoadedFirst /\ Placed(c)
  BY PoolInvParts
<1>t. {"clockauth", "reclosing"} \subseteq Points
  BY DEF Points, RequestPoints
<1> SUFFICES /\ CallOK' /\ TableOK' /\ PoolOK' /\ RestOK' /\ LoadedFirst'
             /\ OthersStay(c) /\ EntriesStay /\ Placed(c)'
  BY PlacedStep, TypeParts DEF PoolInv
<1>1. CASE ClockAnswered(c)
  <2>1. CallOK' /\ OthersStay(c) /\ pc'[c] = "reclosing"
    BY <1>0, <1>1, <1>t, MoveEffect DEF ClockAnswered
  <2>2. PoolOK'
    BY <1>0, <1>1 DEF ClockAnswered, PoolOK
  <2>3. RestOK'
    BY <1>0, <1>1 DEF ClockAnswered, RestOK, closeVars, boundVars
  <2>4. TableOK' /\ LoadedFirst' /\ EntriesStay /\ services'[Dev] # None
    BY <1>0, <1>1 DEF ClockAnswered, TableOK, LoadedFirst, EntriesStay, Placed
  <2> QED
    BY <2>1, <2>2, <2>3, <2>4 DEF Placed
<1>2. CASE ClockRefused(c)
  <2>1. CallOK' /\ OthersStay(c) /\ pc'[c] = "clockauth"
    BY <1>0, <1>2, <1>t, MoveEffect DEF ClockRefused
  <2>2. spent' \in 0..Budget
    BY <1>0, <1>2, FaultTyped DEF ClockRefused, RestOK
  <2>3. RestOK' /\ TableOK' /\ PoolOK'
    BY <1>0, <1>2, <2>2 DEF ClockRefused, RestOK, TableOK, PoolOK, closeVars
  <2>4. LoadedFirst' /\ EntriesStay /\ services'[Dev] # None
    BY <1>0, <1>2 DEF ClockRefused, LoadedFirst, EntriesStay, Placed
  <2> QED
    BY <2>1, <2>3, <2>4 DEF Placed
<1>3. CASE DevClosed(c)
  <2>1. PICK s \in Svc : /\ New(s, DevAddr, dt_diff)
                         /\ services' = [services EXCEPT ![Dev] = s]
                         /\ Ask(c, doing[c], s)
    BY <1>3 DEF DevClosed
  <2>2. CallOK' /\ TableOK' /\ OthersStay(c) /\ pc'[c] \in {"getservices", "getcaps"}
    BY <1>0, <2>1, AskEffect DEF CallOK
  <2>3. DevAddr \in Where /\ dt_diff \in Skews \cup {None} /\ Dev \in Keys /\ None \notin Svc
    BY <1>0, PoolIdentity DEF Where, RestOK, Keys
  <2>4. PoolOK' /\ EntriesStay
    BY <1>0, <2>1, <2>3, NewTyped DEF PoolOK, EntriesStay
  <2>5. RestOK'
    BY <1>0, <1>3 DEF DevClosed, RestOK, closeVars, boundVars
  <2>6. LoadedFirst'
    BY <1>0, <1>3, <2>1, <2>3 DEF DevClosed, LoadedFirst, PoolOK
  <2> QED
    BY <2>2, <2>4, <2>5, <2>6 DEF Placed
<1> QED
  BY <1>1, <1>2, <1>3

\* The requests of a discovery, and a cancellation anywhere
LEMMA RequestStep ==
    ASSUME PoolInv, NEW c \in Callers,
           \/ ServicesAnswered(c) \/ ServicesMissing(c) \/ CapabilitiesAnswered(c)
           \/ AnswerUnusable(c) \/ RequestFails(c) \/ Cancelled(c)
    PROVE  PoolInv'
<1>0. CallOK /\ TableOK /\ PoolOK /\ RestOK /\ LoadedFirst
  BY PoolInvParts
<1>a. UNCHANGED services /\ UNCHANGED warm
  BY DEF ServicesAnswered, ServicesMissing, CapabilitiesAnswered, AnswerUnusable,
     RequestFails, Cancelled
<1>b. CallOK' /\ OthersStay(c) /\ pc'[c] \in {"idle", "getcaps"}
  <2>1. CASE ServicesMissing(c)
    <3>1. "getcaps" \in Points
      BY DEF Points, RequestPoints
    <3> QED
      BY <1>0, <2>1, <3>1, MoveEffect DEF ServicesMissing
  <2>2. CASE Finish(c)
    BY <1>0, <2>2, FinishEffect
  <2> QED
    BY <2>1, <2>2 DEF ServicesAnswered, CapabilitiesAnswered, AnswerUnusable,
       RequestFails, Cancelled
<1>c. TableOK'
  <2>1. CASE UNCHANGED xaddrs
    BY <1>0, <2>1 DEF TableOK
  <2>2. CASE \E found \in Advertised : Fill(found)
    BY <1>0, <2>2, FillTyped
  <2>3. CASE Overwrite
    BY <2>3 DEF Overwrite, Advertised, TableOK
  <2> QED
    BY <2>1, <2>2, <2>3 DEF ServicesAnswered, ServicesMissing, CapabilitiesAnswered,
       AnswerUnusable, RequestFails, Cancelled
<1>d. PoolOK'
  BY <1>0, <1>a DEF PoolOK, ServicesAnswered, ServicesMissing, CapabilitiesAnswered,
     AnswerUnusable, RequestFails, Cancelled
<1>e. RestOK'
  <2>1. CASE ServicesAnswered(c) \/ ServicesMissing(c)
    BY <1>0, <2>1 DEF ServicesAnswered, ServicesMissing, RestOK, closeVars, boundVars
  <2>2. CASE CapabilitiesAnswered(c)
    BY <1>0, <2>2 DEF CapabilitiesAnswered, RestOK, closeVars, boundVars
  <2>3. CASE AnswerUnusable(c) \/ RequestFails(c)
    <3>1. spent' \in 0..Budget
      BY <1>0, <2>3, FaultTyped DEF AnswerUnusable, RequestFails, RestOK
    <3> QED
      BY <1>0, <2>3, <3>1 DEF AnswerUnusable, RequestFails, RestOK, closeVars
  <2>4. CASE Cancelled(c)
    BY <1>0, <2>4 DEF Cancelled, RestOK, boundVars
  <2> QED
    BY <2>1, <2>2, <2>3, <2>4
<1>f. LoadedFirst' /\ EntriesStay
  BY <1>0, <1>a DEF LoadedFirst, EntriesStay
<1>g. \A d \in Callers : Placed(d)'
  BY <1>b, <1>f, PlacedStep DEF Placed
<1> QED
  BY <1>b, <1>c, <1>d, <1>e, <1>f, <1>g, TypeParts DEF PoolInv

\* close()
LEMMA CloseStep ==
    ASSUME PoolInv, NEW c \in Callers,
           \/ CloseBegins(c) \/ CloseFirst(c) \/ CloseNext(c) \/ CloseEnds(c)
           \/ CloseRaises(c)
    PROVE  PoolInv'
<1>0. CallOK /\ TableOK /\ PoolOK /\ RestOK /\ LoadedFirst
  BY PoolInvParts
<1>t. {"snapshot", "closeall"} \subseteq Points /\ None \in Where /\ "close" \in AllOps
  BY DEF Points, Where, AllOps
<1>a. UNCHANGED services /\ UNCHANGED warm /\ UNCHANGED xaddrs
  BY DEF CloseBegins, CloseFirst, CloseNext, CloseEnds, CloseRaises, CloseLeaves
<1>b. Registered \subseteq Svc
  BY <1>0 DEF Registered, PoolOK
<1>c. CallOK' /\ OthersStay(c) /\ pc'[c] \in {"idle", "snapshot", "closeall"}
  <2>1. CASE CloseBegins(c)
    BY <1>0, <1>t, <2>1, WaitEffect DEF CloseBegins
  <2>2. CASE CloseFirst(c) \/ CloseNext(c)
    BY <1>0, <1>t, <2>2, MoveEffect DEF CloseFirst, CloseNext, CloseVisits
  <2>3. CASE CloseEnds(c) \/ CloseRaises(c)
    BY <1>0, <2>3, FinishEffect DEF CloseEnds, CloseRaises, CloseLeaves
  <2> QED
    BY <2>1, <2>2, <2>3
<1>d. PoolOK'
  <2>1. CASE CloseBegins(c) \/ CloseEnds(c) \/ CloseRaises(c)
    BY <1>0, <2>1 DEF PoolOK, CloseBegins, CloseEnds, CloseRaises, CloseLeaves
  <2>2. CASE CloseFirst(c) \/ CloseNext(c)
    <3>1. PICK s \in Svc : svc' = [svc EXCEPT ![s].open = FALSE]
      BY <1>b, <2>2 DEF CloseFirst, CloseNext, CloseVisits
    <3>2. svc' \in [Svc -> [addr : Where, dt : Skews \cup {None}, open : BOOLEAN]]
      BY <1>0, <3>1 DEF PoolOK
    <3> QED
      BY <1>0, <1>a, <3>2 DEF PoolOK
  <2> QED
    BY <2>1, <2>2
<1>e. RestOK'
  <2>1. CASE CloseBegins(c)
    <3>1. begun' \in 0..Rounds
      BY <1>0, <2>1, PoolBounds DEF CloseBegins, RestOK
    <3> QED
      BY <1>0, <2>1, <3>1 DEF CloseBegins, RestOK
  <2>2. CASE CloseFirst(c) \/ CloseNext(c)
    BY <1>0, <1>b, <2>2 DEF RestOK, CloseFirst, CloseNext, CloseVisits, boundVars
  <2>3. CASE CloseEnds(c) \/ CloseRaises(c)
    BY <1>0, <2>3 DEF RestOK, CloseEnds, CloseRaises, CloseLeaves, boundVars
  <2> QED
    BY <2>1, <2>2, <2>3
<1>f. TableOK' /\ LoadedFirst' /\ EntriesStay
  BY <1>0, <1>a DEF TableOK, LoadedFirst, EntriesStay
<1>g. \A d \in Callers : Placed(d)'
  BY <1>c, <1>f, PlacedStep DEF Placed
<1> QED
  BY <1>c, <1>d, <1>e, <1>f, <1>g, TypeParts DEF PoolInv

LEMMA PoolInvInit == Init => PoolInv
<1> SUFFICES ASSUME Init PROVE PoolInv
  OBVIOUS
<1>1. TypeOK
  BY TypeInit
<1>2. LoadedFirst /\ \A c \in Callers : Placed(c)
  BY DEF Init, LoadedFirst, Placed
<1> QED
  BY <1>1, <1>2 DEF PoolInv

LEMMA PoolInvStep == PoolInv /\ [Next]_vars => PoolInv'
<1> SUFFICES ASSUME PoolInv, [Next]_vars PROVE PoolInv'
  OBVIOUS
<1>1. CASE UNCHANGED vars
  BY <1>1 DEF PoolInv, TypeOK, LoadedFirst, Placed, vars, callVars, closeVars, boundVars
<1>2. ASSUME NEW c \in Callers, NEW op \in {"create", "discover", "capabilities"},
             NEW k \in Keys, Begin(c, op, k)
      PROVE  PoolInv'
  BY <1>2, BeginStep
<1>3. ASSUME NEW c \in Callers, CloseBegins(c) \/ Step(c)
      PROVE  PoolInv'
  BY <1>3, CreateStep, ClockStep, RequestStep, CloseStep DEF Step
<1> QED
  BY <1>1, <1>2, <1>3 DEF Next

LEMMA PoolInvariant == Spec => []PoolInv
  BY PoolInvInit, PoolInvStep, PTL DEF Spec

\* The reachable states of the service registry are correctly typed, whatever the
\* coroutines do at the same time.
THEOREM RegistryTyped == Spec => []TypeOK
<1>1. PoolInv => TypeOK
  BY DEF PoolInv
<1> QED
  BY <1>1, PoolInvariant, PTL

\* create_onvif_service() and _adjust_time() never remove an entry that another
\* coroutine has removed already: neither pop() nor del raises KeyError.
THEOREM EntryStillThere == Spec => []EntryToRemove
<1>1. PoolInv => EntryToRemove
  BY DEF PoolInv, Placed, EntryToRemove
<1> QED
  BY <1>1, PoolInvariant, PTL

-----------------------------------------------------------------------------
(* What a segment of one caller leaves alone: the others                     *)

LEMMA AskOthers ==
    ASSUME CallOK, NEW c \in Callers, NEW op, NEW s, Ask(c, op, s)
    PROVE  OthersStay(c)
  BY DEF Ask, Wait, CallOK, OthersStay

LEMMA ArriveOthers ==
    ASSUME CallOK, NEW c \in Callers, NEW op, NEW s, NEW diff, Arrive(c, op, s, diff)
    PROVE  OthersStay(c)
  BY AskOthers DEF Arrive, Finish, Wait, CallOK, OthersStay

LEMMA BuildOthers ==
    ASSUME CallOK, NEW c \in Callers, NEW op, NEW k, NEW addr, NEW diff,
           Build(c, op, k, addr, diff)
    PROVE  OthersStay(c)
<1>1. CASE BuildWarm(c, op, k, addr, diff)
  BY <1>1, ArriveOthers DEF BuildWarm
<1>2. CASE BuildCold(c, op, k, addr, diff)
  BY <1>2 DEF BuildCold, Wait, CallOK, OthersStay
<1> QED
  BY <1>1, <1>2 DEF Build

LEMMA CreateOthers ==
    ASSUME CallOK, NEW c \in Callers, NEW op, NEW k, NEW diff, CreateService(c, op, k, diff)
    PROVE  OthersStay(c)
<1>1. CASE Finish(c)
  BY <1>1 DEF Finish, CallOK, OthersStay
<1>2. CASE Arrive(c, op, services[k], diff)
  BY <1>2, ArriveOthers
<1>3. CASE Build(c, op, k, AddressOf(k), diff)
  BY <1>3, BuildOthers
<1>4. CASE Wait(c, "closing", op, k, services[k], AddressOf(k))
  BY <1>4 DEF Wait, CallOK, OthersStay
<1> QED
  BY <1>1, <1>2, <1>3, <1>4 DEF CreateService

-----------------------------------------------------------------------------
(* Operations one after the other.  As long as no close() is made, what is    *)
(* registered is open and signs with the offset of the camera, but for the    *)
(* one service that the caller under way is replacing.                        *)

Distinct ==
    \A j, k \in Keys : services[j] # None /\ services[j] = services[k] => j = k

OpenBut(S) == \A k \in Keys \ S : services[k] # None => svc[services[k]].open

Measured ==
    dt_diff # None /\ services[Dev] # None => svc[services[Dev]].dt = dt_diff

\* The key whose service c has closed and will build again
Replaced(c) ==
    {k \in Keys : \/ pc[c] = "closing" /\ k = key[c]
                  \/ pc[c] = "reclosing" /\ k = Dev}

\* The service that c sets up is open, not yet registered, and has the offset
SettingUp(c) ==
    /\ svc[local[c]].open
    /\ \A k \in Keys : services[k] # local[c]
    /\ key[c] = Dev => svc[local[c]].dt = dt_diff

\* c works with the registered devicemgmt
OnDev(c) == services[Dev] # None /\ local[c] = services[Dev]

Good(c) ==
    /\ Distinct
    /\ OpenBut(Replaced(c))
    /\ pc[c] # "reclosing" => Measured
    /\ pc[c] = "reclosing" => dt_diff # None
    /\ pc[c] = "setup" => SettingUp(c)
    /\ pc[c] \in RequestPoints => OnDev(c)
    /\ AdjustTime /\ pc[c] \in {"getservices", "getcaps"} => dt_diff # None
    /\ pc[c] \notin {"snapshot", "closeall"}

Alone(c) == \A d \in Callers \ {c} : Idle(d)

OrderInv ==
    orderly => \A c \in Callers : ~Idle(c) \/ AtRest => Alone(c) /\ Good(c)

\* It is enough to look at the caller that moves
LEMMA GoodKept ==
    ASSUME CallOK, NEW c \in Callers, Alone(c), OthersStay(c), Good(c)'
    PROVE  OrderInv'
<1>1. \A d \in Callers \ {c} : Idle(d)'
  BY DEF Alone, OthersStay, Idle
<1> SUFFICES ASSUME NEW d \in Callers, (~Idle(d) \/ AtRest)' PROVE (Alone(d) /\ Good(d))'
  BY DEF OrderInv
<1>2. CASE d = c
  BY <1>1, <1>2 DEF Alone
<1>3. CASE d # c
  <2>1. Idle(c)' /\ Idle(d)'
    BY <1>1, <1>3 DEF AtRest
  <2>2. Replaced(c)' = {} /\ Replaced(d)' = {}
    BY <2>1 DEF Replaced, Idle
  <2>3. Good(d)'
    BY <2>1, <2>2 DEF Good, Idle, RequestPoints
  <2> QED
    BY <1>1, <2>1, <2>3 DEF Alone
<1> QED
  BY <1>2, <1>3

\* A new service is open, carries the offset, and was nobody's
LEMMA NewFacts ==
    ASSUME PoolOK, NEW s \in Svc, NEW addr, NEW diff, New(s, addr, diff)
    PROVE  /\ svc'[s].open /\ svc'[s].dt = diff
           /\ \A r \in Svc \ {s} : svc'[r] = svc[r]
           /\ \A k \in Keys : services[k] # s
<1>1. s \notin Registered
  BY DEF New, First, Free
<1>2. \A k \in Keys : services[k] # s
  BY <1>1, PoolIdentity DEF Registered
<1> QED
  BY <1>2 DEF New, PoolOK

\* A service that is ready takes the place of the one under key k
LEMMA RegisterReady ==
    ASSUME PoolOK, NEW k \in Keys, NEW s \in Svc,
           services' = [services EXCEPT ![k] = s],
           Distinct, OpenBut({k}), k # Dev => Measured,
           \A j \in Keys : services[j] # s,
           \A r \in Svc \ {s} : svc'[r] = svc[r],
           svc'[s].open, k = Dev => svc'[s].dt = dt_diff', dt_diff' \in {dt_diff, None}
    PROVE  Distinct' /\ OpenBut({})' /\ Measured' /\ services'[k] = s
<1>1. /\ services'[k] = s
      /\ \A j \in Keys \ {k} : services'[j] = services[j]
      /\ \A j \in Keys : services[j] \in Svc \cup {None}
  BY DEF PoolOK
<1>2. Distinct'
  BY <1>1 DEF Distinct
<1>3. OpenBut({})'
  BY <1>1 DEF OpenBut
<1>4. Measured'
  <2>1. CASE k = Dev
    BY <1>1, <2>1 DEF Measured
  <2>2. CASE k # Dev
    <3>1. services'[Dev] = services[Dev] /\ services[Dev] # s /\ services[Dev] \in Svc \cup {None}
      BY <1>1, <2>2 DEF Keys
    <3> QED
      BY <2>2, <3>1 DEF Measured
  <2> QED
    BY <2>1, <2>2
<1> QED
  BY <1>1, <1>2, <1>3, <1>4

\* create_onvif_service() returns in good order
LEMMA ArriveGood ==
    ASSUME CallOK, NEW c \in Callers, NEW op, NEW s \in Svc, NEW diff,
           Arrive(c, op, s, diff), Distinct', OpenBut({})', Measured',
           dt_diff' = diff, op # "create" => services'[Dev] = s
    PROVE  Good(c)'
<1>1. \/ pc'[c] = "idle"
      \/ pc'[c] = "clock" /\ local'[c] = s /\ op # "create"
      \/ /\ pc'[c] \in {"getservices", "getcaps"} /\ local'[c] = s /\ op # "create"
         /\ ~AdjustTime \/ diff # None
  <2>1. Ask(c, op, s) => pc'[c] \in {"getservices", "getcaps"} /\ local'[c] = s
    BY DEF Ask, Wait, CallOK
  <2>2. Ask(c, op, s) /\ op = "create" => FALSE
    BY DEF Ask
  <2> QED
    BY <2>1, <2>2 DEF Arrive, Finish, Wait, CallOK
<1>2. Replaced(c)' = {}
  BY <1>1 DEF Replaced
<1>3. pc'[c] # "idle" => OnDev(c)'
  BY <1>1, PoolIdentity DEF OnDev
<1> QED
  BY <1>1, <1>2, <1>3 DEF Good, RequestPoints

\* A successor is registered at once, or set up with nothing under its key
LEMMA BuildGood ==
    ASSUME CallOK, PoolOK, NEW c \in Callers, NEW op, NEW k \in Keys, NEW addr, NEW diff,
           Build(c, op, k, addr, diff), op # "create" => k = Dev,
           diff = dt_diff', dt_diff' \in {dt_diff, None},
           Distinct, OpenBut({k}), Measured
    PROVE  Good(c)'
<1>1. CASE BuildWarm(c, op, k, addr, diff)
  <2>1. PICK s \in Svc : /\ New(s, addr, diff)
                         /\ services' = [services EXCEPT ![k] = s]
                         /\ Arrive(c, op, s, diff)
    BY <1>1 DEF BuildWarm
  <2>2. /\ svc'[s].open /\ svc'[s].dt = dt_diff'
        /\ \A r \in Svc \ {s} : svc'[r] = svc[r]
        /\ \A j \in Keys : services[j] # s
    BY <2>1, NewFacts
  <2>3. Distinct' /\ OpenBut({})' /\ Measured' /\ services'[k] = s
    BY <2>1, <2>2, RegisterReady
  <2> QED
    BY <2>1, <2>3, ArriveGood
<1>2. CASE BuildCold(c, op, k, addr, diff)
  <2>1. PICK s \in Svc : New(s, addr, diff) /\ Wait(c, "setup", op, k, s, None)
    BY <1>2 DEF BuildCold
  <2>2. /\ services'[k] = None
        /\ \A j \in Keys \ {k} : services'[j] = services[j]
        /\ \A j \in Keys : services[j] \in Svc \cup {None}
    BY <1>2 DEF BuildCold, PoolOK
  <2>3. /\ svc'[s].open /\ svc'[s].dt = diff
        /\ \A r \in Svc \ {s} : svc'[r] = svc[r]
        /\ \A j \in Keys : services[j] # s
    BY <2>1, NewFacts
  <2>4. pc'[c] = "setup" /\ key'[c] = k /\ local'[c] = s
    BY <2>1 DEF Wait, CallOK
  <2>5. Distinct' /\ OpenBut({})'
    BY <2>2, <2>3 DEF Distinct, OpenBut
  <2>6. Measured'
    BY <2>2, <2>3 DEF Measured, Keys
  <2>7. SettingUp(c)'
    BY <2>2, <2>3, <2>4, PoolIdentity DEF SettingUp
  <2>8. Replaced(c)' = {}
    BY <2>4 DEF Replaced
  <2> QED
    BY <2>4, <2>5, <2>6, <2>7, <2>8 DEF Good, RequestPoints
<1> QED
  BY <1>1, <1>2 DEF Build

LEMMA CreateGood ==
    ASSUME CallOK, PoolOK, NEW c \in Callers, NEW op, NEW k \in Keys, NEW diff,
           CreateService(c, op, k, diff), op # "create" => k = Dev,
           diff = dt_diff', dt_diff' \in {dt_diff, None},
           Distinct, OpenBut({}), Measured
    PROVE  Good(c)'
<1>0. Distinct /\ OpenBut({k}) /\ \A j \in Keys : services[j] \in Svc \cup {None}
  BY DEF OpenBut, PoolOK
<1>1. CASE Finish(c) /\ UNCHANGED <<services, svc, xaddrs>>
  <2>1. pc'[c] = "idle"
    BY <1>1 DEF Finish, CallOK
  <2>2. Replaced(c)' = {}
    BY <2>1 DEF Replaced
  <2> QED
    BY <1>1, <2>1, <2>2 DEF Good, RequestPoints, Distinct, OpenBut, Measured
<1>2. CASE /\ Reusable(k) /\ Arrive(c, op, services[k], diff)
           /\ UNCHANGED <<services, svc>>
  <2>1. Distinct' /\ OpenBut({})' /\ Measured'
    BY <1>2 DEF Distinct, OpenBut, Measured
  <2>2. services[k] \in Svc
    BY <1>0, <1>2 DEF Reusable
  <2> QED
    BY <1>2, <2>1, <2>2, ArriveGood
<1>3. CASE Build(c, op, k, AddressOf(k), diff)
  BY <1>0, <1>3, BuildGood
<1>4. CASE /\ services[k] # None
           /\ svc' = [svc EXCEPT ![services[k]].open = FALSE]
           /\ Wait(c, "closing", op, k, services[k], AddressOf(k))
           /\ UNCHANGED <<services, xaddrs>>
  <2>1. pc'[c] = "closing" /\ key'[c] = k
    BY <1>4 DEF Wait, CallOK
  <2>2. /\ \A r \in Svc \ {services[k]} : svc'[r] = svc[r]
        /\ \A r \in Svc : svc'[r].dt = svc[r].dt
    BY <1>0, <1>4 DEF PoolOK
  <2>3. \A j \in Keys \ {k} : services[j] # None => services[j] \in Svc \ {services[k]}
    BY <1>0, <1>4 DEF Distinct
  <2>4. Distinct' /\ OpenBut({k})'
    BY <1>4, <2>2, <2>3 DEF Distinct, OpenBut
  <2>5. Measured'
    BY <1>0, <1>4, <2>2 DEF Measured, Keys
  <2>6. Replaced(c)' = {k}
    BY <2>1 DEF Replaced
  <2>7. OpenBut(Replaced(c))'
    BY <2>4, <2>6
  <2> QED
    BY <2>1, <2>4, <2>5, <2>7 DEF Good, RequestPoints
<1> QED
  BY <1>1, <1>2, <1>3, <1>4 DEF CreateService

\* The steps after the first, but for a cancellation
LEMMA CreateRestGood ==
    ASSUME PoolInv, NEW c \in Callers, Good(c),
           SetupReturns(c) \/ SetupFails(c) \/ OldClosed(c)
    PROVE  Good(c)'
<1>0. CallOK /\ PoolOK /\ Placed(c)
  BY PoolInvParts
<1>1. CASE SetupReturns(c)
  <2>1. /\ key[c] \in Keys /\ local[c] \in Svc
        /\ doing[c] # "create" => key[c] = Dev
    BY <1>0, <1>1 DEF SetupReturns, Placed
  <2>2. Distinct /\ OpenBut({key[c]}) /\ Measured /\ SettingUp(c)
    BY <1>1 DEF Good, SetupReturns, Replaced, OpenBut
  <2>3. /\ Distinct' /\ OpenBut({})' /\ Measured'
        /\ services'[key[c]] = local[c]
    BY <1>0, <1>1, <2>1, <2>2, RegisterReady DEF SetupReturns, SettingUp
  <2> QED
    BY <1>0, <1>1, <2>1, <2>3, ArriveGood DEF SetupReturns
<1>2. CASE SetupFails(c)
  <2>1. pc[c] = "setup" /\ pc'[c] = "idle"
    BY <1>0, <1>2 DEF SetupFails, Finish, CallOK
  <2>2. Replaced(c) = {} /\ Replaced(c)' = {}
    BY <2>1 DEF Replaced
  <2> QED
    BY <1>2, <2>1, <2>2 DEF SetupFails, Good, RequestPoints, Distinct, OpenBut, Measured
<1>3. CASE OldClosed(c)
  <2>1. key[c] \in Keys /\ (doing[c] # "create" => key[c] = Dev)
    BY <1>0, <1>3 DEF OldClosed, Placed
  <2>2. Replaced(c) = {key[c]}
    BY <1>3, <2>1 DEF OldClosed, Replaced
  <2>3. Distinct /\ OpenBut({key[c]}) /\ Measured
    BY <1>3, <2>2 DEF Good, OldClosed
  <2> QED
    BY <1>0, <1>3, <2>1, <2>3, BuildGood DEF OldClosed
<1> QED
  BY <1>1, <1>2, <1>3

LEMMA ClockGood ==
    ASSUME PoolInv, NEW c \in Callers, Good(c),
           ClockAnswered(c) \/ ClockRefused(c) \/ DevClosed(c)
    PROVE  Good(c)'
<1>0. CallOK /\ PoolOK /\ Dev \in Keys
  BY PoolInvParts DEF Keys
<1>1. CASE ClockAnswered(c)
  <2>1. /\ pc[c] \in RequestPoints /\ pc'[c] = "reclosing"
        /\ dt_diff' # None /\ UNCHANGED services
    BY <1>0, <1>1, PoolIdentity DEF ClockAnswered, RequestPoints, CallOK
  <2>2. OnDev(c) /\ Distinct /\ OpenBut({})
    BY <1>1, <2>1 DEF Good, Replaced, ClockAnswered, OpenBut
  <2>3. \A r \in Svc \ {services[Dev]} : svc'[r] = svc[r]
    BY <1>0, <1>1, <2>2 DEF ClockAnswered, OnDev, PoolOK
  <2>4. \A j \in Keys \ {Dev} : services[j] # None => services[j] \in Svc \ {services[Dev]}
    BY <1>0, <2>2 DEF Distinct, PoolOK
  <2>5. OpenBut({Dev})' /\ Distinct'
    BY <2>1, <2>2, <2>3, <2>4 DEF OpenBut, Distinct
  <2>6. Replaced(c)' = {Dev}
    BY <1>0, <2>1 DEF Replaced
  <2>7. OpenBut(Replaced(c))'
    BY <2>5, <2>6
  <2> QED
    BY <2>1, <2>5, <2>7 DEF Good, RequestPoints
<1>2. CASE ClockRefused(c)
  <2>1. pc[c] = "clock" /\ pc'[c] = "clockauth"
    BY <1>0, <1>2 DEF ClockRefused, CallOK
  <2>2. Replaced(c) = {} /\ Replaced(c)' = {}
    BY <2>1 DEF Replaced
  <2>3. OnDev(c)'
    BY <1>2, <2>1 DEF ClockRefused, callVars, Good, RequestPoints, OnDev
  <2> QED
    BY <1>2, <2>1, <2>2, <2>3 DEF ClockRefused, Good, Distinct, OpenBut, Measured
<1>3. CASE DevClosed(c)
  <2>1. PICK s \in Svc : /\ New(s, DevAddr, dt_diff)
                         /\ services' = [services EXCEPT ![Dev] = s]
                         /\ Ask(c, doing[c], s)
    BY <1>3 DEF DevClosed
  <2>2. Replaced(c) = {Dev}
    BY <1>0, <1>3 DEF DevClosed, Replaced
  <2>3. Distinct /\ OpenBut({Dev}) /\ dt_diff # None /\ UNCHANGED dt_diff
    BY <1>3, <2>2 DEF Good, DevClosed
  <2>a. /\ svc'[s].open /\ svc'[s].dt = dt_diff'
        /\ \A r \in Svc \ {s} : svc'[r] = svc[r]
        /\ \A j \in Keys : services[j] # s
    BY <1>0, <2>1, <2>3, NewFacts
  <2>4. Distinct' /\ OpenBut({})' /\ Measured' /\ services'[Dev] = s
    BY <1>0, <2>1, <2>3, <2>a, RegisterReady
  <2>5. pc'[c] \in {"getservices", "getcaps"} /\ local'[c] = s
    BY <1>0, <2>1 DEF Ask, Wait, CallOK
  <2>6. Replaced(c)' = {} /\ OnDev(c)'
    BY <2>4, <2>5, PoolIdentity DEF Replaced, OnDev
  <2> QED
    BY <2>3, <2>4, <2>5, <2>6 DEF Good, RequestPoints
<1> QED
  BY <1>1, <1>2, <1>3

\* An answer or a failure changes no service
LEMMA RequestGood ==
    ASSUME PoolInv, NEW c \in Callers, Good(c),
           \/ ServicesAnswered(c) \/ ServicesMissing(c) \/ CapabilitiesAnswered(c)
           \/ AnswerUnusable(c) \/ RequestFails(c)
    PROVE  Good(c)'
<1>0. CallOK
  BY PoolInvParts
<1>1. pc[c] \in RequestPoints /\ UNCHANGED <<services, svc, dt_diff>>
  BY DEF ServicesAnswered, ServicesMissing, CapabilitiesAnswered, AnswerUnusable,
     RequestFails, RequestPoints
<1>2. \/ pc'[c] = "idle"
      \/ ServicesMissing(c) /\ pc[c] = "getservices" /\ pc'[c] = "getcaps"
  BY <1>0 DEF ServicesAnswered, ServicesMissing, CapabilitiesAnswered, AnswerUnusable,
     RequestFails, Finish, CallOK
<1>3. Replaced(c) = {} /\ Replaced(c)' = {}
  BY <1>1, <1>2 DEF Replaced, RequestPoints
<1>4. Distinct' /\ OpenBut({})' /\ Measured'
  <2>1. Distinct /\ OpenBut({}) /\ Measured
    BY <1>1, <1>3 DEF Good, RequestPoints
  <2> QED
    BY <1>1, <2>1 DEF Distinct, OpenBut, Measured
<1>5. CASE pc'[c] = "idle"
  BY <1>3, <1>4, <1>5 DEF Good, RequestPoints
<1>6. CASE ServicesMissing(c) /\ pc[c] = "getservices" /\ pc'[c] = "getcaps"
  <2>1. OnDev(c)' /\ (AdjustTime => dt_diff' # None)
    BY <1>1, <1>6 DEF ServicesMissing, callVars, Good, OnDev
  <2> QED
    BY <1>3, <1>4, <1>6, <2>1 DEF Good
<1> QED
  BY <1>2, <1>5, <1>6

LEMMA OrderStep ==
    ASSUME "close" \notin Ops, PoolInv, OrderInv, [Next]_vars
    PROVE  OrderInv'
<1> SUFFICES ASSUME orderly' PROVE OrderInv'
  BY DEF OrderInv
<1>0. CallOK /\ PoolOK
  BY PoolInvParts
<1>1. CASE UNCHANGED vars
  BY <1>1 DEF OrderInv, vars, callVars, closeVars, boundVars, Idle, AtRest, Alone, Good,
     Distinct, OpenBut, Measured, Replaced, SettingUp, OnDev
<1>2. ASSUME NEW c \in Callers, NEW k \in Keys,
             NEW op \in {"create", "discover", "capabilities"}, Begin(c, op, k)
      PROVE  OrderInv'
  <2>1. orderly /\ AtRest /\ Idle(c)
    BY <1>2 DEF Begin
  <2>2. Alone(c) /\ Good(c)
    BY <2>1 DEF OrderInv
  <2>3. Replaced(c) = {}
    BY <2>1 DEF Replaced, Idle
  <2>4. Distinct /\ OpenBut({}) /\ Measured
    BY <2>1, <2>2, <2>3 DEF Good, Idle
  <2>5. /\ CreateService(c, op, k, dt_diff') /\ dt_diff' \in {dt_diff, None}
        /\ op # "create" => k = Dev
    BY <1>2 DEF Begin
  <2>6. Good(c)'
    BY <1>0, <2>4, <2>5, CreateGood
  <2> QED
    BY <1>0, <2>2, <2>5, <2>6, CreateOthers, GoodKept
<1>3. ASSUME NEW c \in Callers, CloseBegins(c)
      PROVE  OrderInv'
  BY <1>3 DEF CloseBegins
<1>4. ASSUME NEW c \in Callers, Step(c)
      PROVE  OrderInv'
  <2>1. ~Cancelled(c)
    BY DEF Cancelled
  <2>2. orderly /\ ~Idle(c)
    BY <1>4, <2>1 DEF Step, SetupReturns, SetupFails, OldClosed, ClockAnswered, ClockRefused,
       DevClosed, ServicesAnswered, ServicesMissing, CapabilitiesAnswered, AnswerUnusable,
       RequestFails, CloseFirst, CloseNext, CloseEnds, CloseRaises, CloseLeaves, closeVars,
       Idle, RequestPoints
  <2>3. Alone(c) /\ Good(c)
    BY <2>2 DEF OrderInv
  <2>4. ~(CloseFirst(c) \/ CloseNext(c) \/ CloseEnds(c) \/ CloseRaises(c))
    BY <2>3 DEF Good, CloseFirst, CloseNext, CloseEnds, CloseRaises
  <2>5. Good(c)'
    BY <1>4, <2>1, <2>3, <2>4, CreateRestGood, ClockGood, RequestGood DEF Step
  <2>6. OthersStay(c)
    <3>1. CASE SetupReturns(c) \/ OldClosed(c) \/ DevClosed(c)
      BY <1>0, <3>1, ArriveOthers, BuildOthers, AskOthers
         DEF SetupReturns, OldClosed, DevClosed
    <3>2. CASE ClockAnswered(c) \/ ClockRefused(c) \/ ServicesMissing(c)
      BY <1>0, <3>2 DEF ClockAnswered, ClockRefused, ServicesMissing, callVars, CallOK,
         OthersStay
    <3>3. CASE \/ SetupFails(c) \/ ServicesAnswered(c) \/ CapabilitiesAnswered(c)
               \/ AnswerUnusable(c) \/ RequestFails(c)
      BY <1>0, <3>3, FinishEffect DEF SetupFails, ServicesAnswered, CapabilitiesAnswered,
         AnswerUnusable, RequestFails
    <3> QED
      BY <1>4, <2>1, <2>4, <3>1, <3>2, <3>3 DEF Step
  <2> QED
    BY <1>0, <2>3, <2>5, <2>6, GoodKept
<1> QED
  BY <1>1, <1>2, <1>3, <1>4 DEF Next

LEMMA OrderInit == Init => OrderInv
<1> SUFFICES ASSUME Init, NEW c \in Callers PROVE Alone(c) /\ Good(c)
  BY DEF OrderInv
<1>1. Alone(c) /\ pc[c] = "idle" /\ Replaced(c) = {}
  BY DEF Init, Alone, Idle, Replaced
<1>2. \A k \in Keys : services[k] = None
  BY DEF Init
<1>3. Distinct /\ OpenBut({}) /\ Measured
  BY <1>2 DEF Distinct, OpenBut, Measured, Init
<1> QED
  BY <1>1, <1>3 DEF Good, RequestPoints

LEMMA OrderInvariant == ASSUME "close" \notin Ops PROVE Spec => []OrderInv
<1>1. PoolInv /\ OrderInv /\ [Next]_vars => OrderInv'
  BY OrderStep
<1> QED
  BY <1>1, PoolInvariant, OrderInit, PTL DEF Spec

\* As long as no close() is made and the operations come one after the other,
\* no request is sent through a service whose session is closed already, whatever
\* failed before.
THEOREM OrderlySends == ASSUME "close" \notin Ops PROVE Spec => SendsOpen
<1> DEFINE Sends ==
      orderly' => \A c \in Callers :
          pc'[c] \in RequestPoints /\ pc'[c] # pc[c] => svc'[local'[c]].open
<1>1. OrderInv' => Sends
  <2> SUFFICES ASSUME OrderInv', orderly', NEW c \in Callers, pc'[c] \in RequestPoints
               PROVE  svc'[local'[c]].open
    OBVIOUS
  <2>1. Good(c)' /\ Replaced(c)' = {}
    BY DEF OrderInv, Idle, RequestPoints, Replaced
  <2> QED
    BY <2>1 DEF Good, OnDev, OpenBut, Keys
<1>2. OrderInv' => [Sends]_vars
  BY <1>1
<1>3. []OrderInv => [][Sends]_vars
  BY <1>2, PTL
<1> QED
  BY <1>3, OrderInvariant DEF SendsOpen

\* Under the same conditions every GetServices and GetCapabilities is signed with the
\* offset that was measured last.
THEOREM OrderlyCompensates == ASSUME "close" \notin Ops PROVE Spec => Compensated
<1> DEFINE Signed ==
      AdjustTime /\ orderly' => \A c \in Callers :
          /\ pc'[c] \in {"getservices", "getcaps"} /\ pc'[c] # pc[c]
          /\ svc'[local'[c]].open
          => LET dt == svc'[local'[c]].dt IN dt # None /\ dt_diff' \in {None, dt}
<1>1. OrderInv' => Signed
  <2> SUFFICES ASSUME OrderInv', AdjustTime, orderly', NEW c \in Callers,
                      pc'[c] \in {"getservices", "getcaps"}
               PROVE  svc'[local'[c]].dt # None /\ dt_diff' \in {None, svc'[local'[c]].dt}
    OBVIOUS
  <2>1. Good(c)'
    BY DEF OrderInv, Idle
  <2> QED
    BY <2>1 DEF Good, OnDev, Measured, RequestPoints
<1>2. OrderInv' => [Signed]_vars
  BY <1>1
<1>3. []OrderInv => [][Signed]_vars
  BY <1>2, PTL
<1> QED
  BY <1>3, OrderInvariant DEF Compensated

-----------------------------------------------------------------------------
(* Sessions.  With every document loaded, setup() never suspends, and a new    *)
(* service is registered in the segment that opens it.  What could still be    *)
(* lost is the open service whose entry is overwritten: two callers must not   *)
(* replace the same entry.                                                     *)

OneCaller == \A c, d \in Callers : c = d
OneAddress == \A a, b \in Addr : a = b

\* The entry that c is about to overwrite is of a closed service.  Of the callers
\* in the handshake, those whose devicemgmt is still open work with the one that
\* is registered, and only one of them gets to replace it.
Ceding(c) ==
    /\ pc[c] # "setup"
    /\ pc[c] = "closing" => OneCaller /\ ~svc[services[key[c]]].open
    /\ pc[c] \in {"clock", "clockauth"} =>
          local[c] \in Svc /\ (svc[local[c]].open => local[c] = services[Dev])
    /\ pc[c] = "reclosing" =>
          /\ ~svc[services[Dev]].open
          /\ \A d \in Callers \ {c} : pc[d] # "reclosing"

\* Nothing has to be replaced: each service is at an address its key may have
Placeable(k) == IF k = Dev THEN {DevAddr} ELSE Addr
InPlace == \A k \in Keys : services[k] # None => svc[services[k]].addr \in Placeable(k)

OpenRegistered == \A s \in Svc : svc[s].open => \E k \in Keys : services[k] = s

LeakInv ==
    /\ warm = Keys
    /\ OpenRegistered
    /\ \A c \in Callers : Ceding(c)
    /\ OneCaller \/ InPlace

\* It is enough to look at the caller that moves, in a step that opens nothing
LEMMA QuietLeak ==
    ASSUME PoolInv, LeakInv, NEW c \in Callers, OthersStay(c),
           UNCHANGED <<services, warm>>,
           \A r \in Svc : (svc'[r].open => svc[r].open) /\ svc'[r].addr = svc[r].addr,
           pc'[c] = "reclosing" => \A d \in Callers \ {c} : pc[d] # "reclosing",
           Ceding(c)'
    PROVE  LeakInv'
<1>0. PoolOK
  BY PoolInvParts
<1>1. OpenRegistered'
  BY DEF LeakInv, OpenRegistered
<1>2. OneCaller \/ InPlace'
  BY <1>0 DEF LeakInv, InPlace, PoolOK
<1>3. ASSUME NEW d \in Callers \ {c} PROVE Ceding(d)'
  <2>1. Ceding(d) /\ Placed(d) /\ pc'[d] = pc[d] /\ key'[d] = key[d] /\ local'[d] = local[d]
    BY PoolInvParts DEF LeakInv, OthersStay
  <2>2. pc[d] # "closing"
    BY <2>1 DEF Ceding, OneCaller
  <2>3. pc[d] = "reclosing" => services[Dev] \in Svc
    BY <1>0, <2>1 DEF Placed, PoolOK, Keys
  <2>4. pc[d] = "reclosing" => \A e \in Callers \ {d} : pc'[e] # "reclosing"
    BY <2>1 DEF Ceding, OthersStay
  <2> QED
    BY <2>1, <2>2, <2>3, <2>4 DEF Ceding
<1> QED
  BY <1>1, <1>2, <1>3 DEF LeakInv

\* A service that takes the place of none, or of a closed one
LEMMA OpenLeak ==
    ASSUME PoolInv, LeakInv, NEW c \in Callers, OthersStay(c), UNCHANGED warm,
           NEW s \in Svc, NEW k \in Keys, NEW addr, NEW diff, New(s, addr, diff),
           services' = [services EXCEPT ![k] = s],
           services[k] # None => ~svc[services[k]].open,
           k = Dev => \A d \in Callers \ {c} : pc[d] # "reclosing",
           OneCaller \/ addr \in Placeable(k),
           pc'[c] \notin {"setup", "closing", "reclosing", "clockauth"},
           pc'[c] = "clock" => local'[c] \in Svc /\ local'[c] = services'[Dev]
    PROVE  LeakInv'
<1>0. PoolOK
  BY PoolInvParts
<1>1. /\ services'[k] = s
      /\ \A j \in Keys \ {k} : services'[j] = services[j]
      /\ \A j \in Keys : services[j] \in Svc \cup {None} /\ services[j] # s
      /\ \A r \in Svc \ {s} : svc'[r] = svc[r]
      /\ \A d \in Callers : local[d] # s
      /\ Dev \in Keys
  BY <1>0, NewFacts DEF New, First, Free, PoolOK, Keys
<1>2. svc'[s].addr = addr
  BY <1>0 DEF New, PoolOK
<1>3. OpenRegistered'
  <2> SUFFICES ASSUME NEW r \in Svc, svc'[r].open PROVE \E j \in Keys : services'[j] = r
    BY DEF OpenRegistered
  <2>1. CASE r = s
    BY <1>1, <2>1
  <2>2. CASE r # s
    <3>1. PICK j \in Keys : services[j] = r
      BY <1>1, <2>2 DEF LeakInv, OpenRegistered
    <3>2. j # k
      BY <1>1, <2>2, <3>1, PoolIdentity
    <3> QED
      BY <1>1, <3>1, <3>2
  <2> QED
    BY <2>1, <2>2
<1>4. OneCaller \/ InPlace'
  BY <1>1, <1>2 DEF LeakInv, InPlace
<1>5. ASSUME NEW d \in Callers \ {c} PROVE Ceding(d)'
  <2>1. Ceding(d) /\ Placed(d) /\ pc'[d] = pc[d] /\ key'[d] = key[d] /\ local'[d] = local[d]
    BY PoolInvParts DEF LeakInv, OthersStay
  <2>2. pc[d] # "closing"
    BY <2>1 DEF Ceding, OneCaller
  <2>3. pc[d] \in {"clock", "clockauth"} =>
           local[d] \in Svc /\ (svc'[local[d]].open => local[d] = services'[Dev])
    <3> SUFFICES ASSUME pc[d] \in {"clock", "clockauth"}, svc'[local[d]].open
                 PROVE  local[d] = services'[Dev]
      BY <2>1 DEF Ceding
    <3>1. local[d] \in Svc \ {s} /\ local[d] = services[Dev] /\ svc[services[Dev]].open
      BY <1>1, <2>1 DEF Ceding
    <3>2. Dev # k
      BY <3>1, PoolIdentity
    <3> QED
      BY <1>1, <3>1, <3>2
  <2>4. pc[d] = "reclosing" => ~svc'[services'[Dev]].open
    BY <1>1, <2>1 DEF Ceding, Placed
  <2>5. pc[d] = "reclosing" => \A e \in Callers \ {d} : pc'[e] # "reclosing"
    BY <2>1 DEF Ceding, OthersStay
  <2> QED
    BY <2>1, <2>2, <2>3, <2>4, <2>5 DEF Ceding
<1>6. Ceding(c)'
  BY DEF Ceding
<1> QED
  BY <1>3, <1>4, <1>5, <1>6 DEF LeakInv

\* Where create_onvif_service() leaves its caller
LEMMA ArriveWhere ==
    ASSUME CallOK, NEW c \in Callers, NEW op, NEW s, NEW diff, Arrive(c, op, s, diff)
    PROVE  \/ pc'[c] \in {"idle", "getservices", "getcaps"}
           \/ pc'[c] = "clock" /\ local'[c] = s /\ op # "create" /\ AdjustTime
  BY DEF Arrive, Ask, Finish, Wait, CallOK

LEMMA BuildLeak ==
    ASSUME PoolInv, LeakInv, NEW c \in Callers, NEW op, NEW k \in Keys, NEW addr, NEW diff,
           Build(c, op, k, addr, diff), op # "create" => k = Dev, UNCHANGED warm,
           services[k] # None => ~svc[services[k]].open,
           k = Dev => \A d \in Callers \ {c} : pc[d] # "reclosing",
           OneCaller \/ addr \in Placeable(k)
    PROVE  LeakInv'
<1>0. CallOK /\ PoolOK
  BY PoolInvParts
<1>1. PICK s \in Svc : /\ New(s, addr, diff)
                       /\ services' = [services EXCEPT ![k] = s]
                       /\ Arrive(c, op, s, diff)
  BY DEF Build, BuildWarm, BuildCold, LeakInv
<1>2. OthersStay(c)
  BY <1>0, <1>1, ArriveOthers
<1>3. services'[k] = s
  BY <1>0, <1>1 DEF PoolOK
<1>4. /\ pc'[c] \notin {"setup", "closing", "reclosing", "clockauth"}
      /\ pc'[c] = "clock" => local'[c] \in Svc /\ local'[c] = services'[Dev]
  BY <1>0, <1>1, <1>3, ArriveWhere
<1> QED
  BY <1>1, <1>2, <1>4, OpenLeak

\* Closing a service and leaving the others alone
LEMMA ShutFacts ==
    ASSUME PoolOK, NEW s \in Svc, svc' = [svc EXCEPT ![s].open = FALSE]
    PROVE  /\ \A r \in Svc : (svc'[r].open => svc[r].open) /\ svc'[r].addr = svc[r].addr
           /\ \A r \in Svc : svc'[r].dt = svc[r].dt
           /\ ~svc'[s].open
  BY DEF PoolOK

LEMMA BeginLeak ==
    ASSUME OneCaller \/ OneAddress, PoolInv, LeakInv, NEW c \in Callers, NEW k \in Keys,
           NEW op \in {"create", "discover", "capabilities"}, Begin(c, op, k)
    PROVE  LeakInv'
<1>0. CallOK /\ PoolOK /\ TableOK
  BY PoolInvParts
<1> DEFINE diff == IF op = "discover" THEN None ELSE dt_diff
<1>1. /\ CreateService(c, op, k, diff) /\ UNCHANGED warm
      /\ op # "create" => k = Dev
  BY DEF Begin
<1>2. OthersStay(c)
  BY <1>0, <1>1, CreateOthers
<1>3. AddressOf(k) # None => AddressOf(k) \in Placeable(k)
  BY <1>0 DEF AddressOf, Placeable, TableOK, Keys
<1>4. CASE Finish(c) /\ UNCHANGED <<services, svc, xaddrs>>
  <2>1. Ceding(c)' /\ pc'[c] = "idle"
    BY <1>0, <1>4, FinishEffect DEF Ceding
  <2> QED
    BY <1>1, <1>2, <1>4, <2>1, QuietLeak
<1>5. CASE /\ Reusable(k) /\ Arrive(c, op, services[k], diff)
           /\ UNCHANGED <<services, svc>>
  <2>1. services[k] \in Svc
    BY <1>0, <1>5 DEF Reusable, PoolOK
  <2>2. Ceding(c)' /\ pc'[c] # "reclosing"
    BY <1>0, <1>1, <1>5, <2>1, ArriveWhere DEF Ceding
  <2> QED
    BY <1>1, <1>2, <1>5, <2>2, QuietLeak
<1>6. CASE /\ AddressOf(k) # None /\ services[k] = None
           /\ Build(c, op, k, AddressOf(k), diff)
  <2>1. k = Dev => \A d \in Callers \ {c} : pc[d] # "reclosing"
    BY <1>6, PoolInvParts DEF Placed
  <2> QED
    BY <1>1, <1>3, <1>6, <2>1, BuildLeak
<1>7. CASE /\ AddressOf(k) # None /\ services[k] # None /\ ~Reusable(k)
           /\ svc' = [svc EXCEPT ![services[k]].open = FALSE]
           /\ Wait(c, "closing", op, k, services[k], AddressOf(k))
           /\ UNCHANGED <<services, xaddrs>>
  <2>1. services[k] \in Svc
    BY <1>0, <1>7 DEF PoolOK
  <2>2. OneCaller
    <3>1. SUFFICES ASSUME OneAddress, InPlace PROVE FALSE
      BY DEF LeakInv
    <3>2. svc[services[k]].addr \in Placeable(k)
      BY <1>7, <3>1 DEF InPlace
    <3>3. svc[services[k]].addr = AddressOf(k)
      BY <1>3, <1>7, <3>1, <3>2 DEF Placeable, OneAddress
    <3> QED
      BY <1>7, <3>3 DEF Reusable
  <2>3. pc'[c] = "closing" /\ key'[c] = k
    BY <1>0, <1>7 DEF Wait, CallOK
  <2>4. /\ \A r \in Svc : (svc'[r].open => svc[r].open) /\ svc'[r].addr = svc[r].addr
        /\ ~svc'[services[k]].open
    BY <1>0, <1>7, <2>1, ShutFacts, Zenon
  <2>5. Ceding(c)'
    BY <1>7, <2>2, <2>3, <2>4 DEF Ceding
  <2> QED
    BY <1>1, <1>2, <1>7, <2>3, <2>4, <2>5, QuietLeak
<1> QED
  BY <1>1, <1>4, <1>5, <1>6, <1>7 DEF CreateService

\* The handshake: only the registered devicemgmt is answered, so only one caller
\* gets to replace it
LEMMA ClockLeak ==
    ASSUME PoolInv, LeakInv, NEW c \in Callers,
           ClockAnswered(c) \/ ClockRefused(c) \/ DevClosed(c)
    PROVE  LeakInv'
<1>0. CallOK /\ PoolOK /\ Ceding(c) /\ UNCHANGED warm
  BY PoolInvParts DEF LeakInv, ClockAnswered, ClockRefused, DevClosed
<1>1. CASE ClockAnswered(c)
  <2>1. local[c] \in Svc /\ local[c] = services[Dev] /\ svc[local[c]].open
    BY <1>0, <1>1 DEF ClockAnswered, Ceding
  <2>2. /\ \A r \in Svc : (svc'[r].open => svc[r].open) /\ svc'[r].addr = svc[r].addr
        /\ ~svc'[local[c]].open
    BY <1>0, <1>1, <2>1, ShutFacts DEF ClockAnswered
  <2>3. \A d \in Callers \ {c} : pc[d] # "reclosing"
    BY <2>1 DEF LeakInv, Ceding
  <2>4. OthersStay(c) /\ pc'[c] = "reclosing" /\ UNCHANGED services
    BY <1>0, <1>1 DEF ClockAnswered, callVars, CallOK, OthersStay
  <2>5. Ceding(c)'
    BY <2>1, <2>2, <2>3, <2>4 DEF Ceding, OthersStay
  <2> QED
    BY <1>0, <2>2, <2>3, <2>4, <2>5, QuietLeak
<1>2. CASE ClockRefused(c)
  <2>1. OthersStay(c) /\ pc'[c] = "clockauth" /\ UNCHANGED <<services, svc, local>>
    BY <1>0, <1>2 DEF ClockRefused, callVars, CallOK, OthersStay
  <2>2. Ceding(c)'
    BY <1>0, <1>2, <2>1 DEF Ceding, ClockRefused
  <2> QED
    BY <1>0, <2>1, <2>2, QuietLeak
<1>3. CASE DevClosed(c)
  <2>1. PICK s \in Svc : /\ New(s, DevAddr, dt_diff)
                         /\ services' = [services EXCEPT ![Dev] = s]
                         /\ Ask(c, doing[c], s)
    BY <1>3 DEF DevClosed
  <2>2. /\ ~svc[services[Dev]].open
        /\ \A d \in Callers \ {c} : pc[d] # "reclosing"
    BY <1>0, <1>3 DEF DevClosed, Ceding
  <2>3. OthersStay(c) /\ pc'[c] \in {"getservices", "getcaps"}
    BY <1>0, <2>1, AskOthers DEF Ask, Wait, CallOK
  <2>4. DevAddr \in Placeable(Dev) /\ Dev \in Keys
    BY DEF Placeable, Keys
  <2> QED
    BY <1>0, <2>1, <2>2, <2>3, <2>4, OpenLeak
<1> QED
  BY <1>1, <1>2, <1>3

\* The other steps open nothing and register nothing
LEMMA StillStep ==
    ASSUME PoolInv, NEW c \in Callers,
           \/ SetupFails(c) \/ ServicesAnswered(c) \/ ServicesMissing(c)
           \/ CapabilitiesAnswered(c) \/ AnswerUnusable(c) \/ RequestFails(c)
           \/ Cancelled(c) \/ CloseBegins(c) \/ CloseFirst(c) \/ CloseNext(c)
           \/ CloseEnds(c) \/ CloseRaises(c)
    PROVE  /\ OthersStay(c) /\ UNCHANGED <<services, warm, dt_diff>>
           /\ pc'[c] \in {"idle", "getcaps", "snapshot", "closeall"}
           /\ \A r \in Svc : (svc'[r].open => svc[r].open) /\ svc'[r].addr = svc[r].addr
           /\ \A r \in Svc : svc'[r].dt = svc[r].dt
<1>0. CallOK /\ PoolOK /\ Registered \subseteq Svc
  BY PoolInvParts DEF Registered, PoolOK
<1>1. CASE CloseFirst(c) \/ CloseNext(c)
  <2>1. PICK s \in Svc : svc' = [svc EXCEPT ![s].open = FALSE]
    BY <1>0, <1>1 DEF CloseFirst, CloseNext, CloseVisits
  <2>2. OthersStay(c) /\ pc'[c] = "closeall" /\ UNCHANGED <<services, warm, dt_diff>>
    BY <1>0, <1>1 DEF CloseFirst, CloseNext, CloseVisits, callVars, CallOK, OthersStay
  <2> QED
    BY <1>0, <2>1, <2>2, ShutFacts
<1>2. CASE ServicesMissing(c)
  BY <1>0, <1>2 DEF ServicesMissing, callVars, CallOK, OthersStay
<1>3. CASE CloseBegins(c)
  BY <1>0, <1>3 DEF CloseBegins, Wait, CallOK, OthersStay
<1>4. CASE \/ SetupFails(c) \/ ServicesAnswered(c) \/ CapabilitiesAnswered(c)
           \/ AnswerUnusable(c) \/ RequestFails(c) \/ Cancelled(c)
           \/ CloseEnds(c) \/ CloseRaises(c)
  <2>1. Finish(c) /\ UNCHANGED <<services, svc, warm, dt_diff>>
    BY <1>4 DEF SetupFails, ServicesAnswered, CapabilitiesAnswered, AnswerUnusable,
       RequestFails, Cancelled, CloseEnds, CloseRaises, CloseLeaves
  <2> QED
    BY <1>0, <2>1, FinishEffect
<1> QED
  BY <1>1, <1>2, <1>3, <1>4

LEMMA LeakStep ==
    ASSUME OneCaller \/ OneAddress, PoolInv, LeakInv, [Next]_vars
    PROVE  LeakInv'
<1>1. CASE UNCHANGED vars
  BY <1>1 DEF LeakInv, OpenRegistered, Ceding, InPlace, vars, callVars
<1>2. ASSUME NEW c \in Callers, NEW k \in Keys,
             NEW op \in {"create", "discover", "capabilities"}, Begin(c, op, k)
      PROVE  LeakInv'
  BY <1>2, BeginLeak
<1>3. ASSUME NEW c \in Callers, SetupReturns(c) \/ OldClosed(c)
      PROVE  LeakInv'
  <2>1. Ceding(c) /\ Placed(c)
    BY PoolInvParts DEF LeakInv
  <2>2. OldClosed(c) /\ pc[c] = "closing"
    BY <1>3, <2>1 DEF SetupReturns, OldClosed, Ceding
  <2>3. /\ key[c] \in Keys /\ (doing[c] # "create" => key[c] = Dev)
        /\ ~svc[services[key[c]]].open /\ OneCaller
        /\ Build(c, doing[c], key[c], want[c], dt_diff) /\ UNCHANGED warm
    BY <2>1, <2>2 DEF OldClosed, Ceding, Placed
  <2>4. \A d \in Callers \ {c} : FALSE
    BY <2>3 DEF OneCaller
  <2> QED
    BY <2>3, <2>4, BuildLeak
<1>4. ASSUME NEW c \in Callers, ClockAnswered(c) \/ ClockRefused(c) \/ DevClosed(c)
      PROVE  LeakInv'
  BY <1>4, ClockLeak
<1>5. ASSUME NEW c \in Callers,
             \/ SetupFails(c) \/ ServicesAnswered(c) \/ ServicesMissing(c)
             \/ CapabilitiesAnswered(c) \/ AnswerUnusable(c) \/ RequestFails(c)
             \/ Cancelled(c) \/ CloseBegins(c) \/ CloseFirst(c) \/ CloseNext(c)
             \/ CloseEnds(c) \/ CloseRaises(c)
      PROVE  LeakInv'
  <2>1. /\ OthersStay(c) /\ UNCHANGED <<services, warm>>
        /\ pc'[c] \in {"idle", "getcaps", "snapshot", "closeall"}
        /\ \A r \in Svc : (svc'[r].open => svc[r].open) /\ svc'[r].addr = svc[r].addr
    BY <1>5, StillStep
  <2>2. Ceding(c)'
    BY <2>1 DEF Ceding
  <2> QED
    BY <2>1, <2>2, QuietLeak
<1> QED
  BY <1>1, <1>2, <1>3, <1>4, <1>5 DEF Next, Step

LEMMA LeakInvariant ==
    ASSUME Loaded = Keys, OneCaller \/ OneAddress PROVE Spec => []LeakInv
<1>1. Init => LeakInv
  BY DEF Init, LeakInv, OpenRegistered, Ceding, InPlace
<1>2. PoolInv /\ LeakInv /\ [Next]_vars => LeakInv'
  BY LeakStep
<1> QED
  BY <1>1, <1>2, PoolInvariant, PTL DEF Spec

\* With every document loaded no session is left open that no dictionary refers to,
\* whoever creates, discovers, measures the clock, closes or is cancelled at the same
\* time, as long as addresses do not change under two callers.
THEOREM NothingLeaks ==
    ASSUME Loaded = Keys, OneCaller \/ OneAddress PROVE Spec => []NoLeak
<1>1. LeakInv => NoLeak
  BY PoolIdentity DEF LeakInv, OpenRegistered, NoLeak, Registered
<1> QED
  BY <1>1, LeakInvariant, PTL

-----------------------------------------------------------------------------
(* The offset, with the document of devicemgmt loaded.  What could go wrong is  *)
(* that a service of an earlier offset is registered when the handshake is      *)
(* over: by setup(), or by a second caller that replaces the same entry.        *)

\* Nobody sets up or replaces devicemgmt but in the handshake; the callers in it
\* whose devicemgmt is open work with the registered one, and one of them replaces it
Serving(c) ==
    /\ pc[c] \in {"setup", "closing"} => key[c] # Dev
    /\ pc[c] \in {"clock", "clockauth"} =>
          local[c] \in Svc /\ (svc[local[c]].open => local[c] = services[Dev])
    /\ pc[c] = "reclosing" =>
          /\ ~svc[services[Dev]].open
          /\ \A d \in Callers \ {c} : pc[d] # "reclosing"

AtHome == services[Dev] # None => svc[services[Dev]].addr = DevAddr

OffsetInv ==
    /\ Dev \in warm
    /\ AtHome
    /\ OffsetServed
    /\ \A c \in Callers : Serving(c)

\* The services that a step which is not about devicemgmt leaves as they are, but for
\* closing them: the registered one, and those that somebody works with
Spared(r) ==
    (svc'[r].open => svc[r].open) /\ svc'[r].addr = svc[r].addr /\ svc'[r].dt = svc[r].dt

\* devicemgmt stays the registered one, and is closed if the offset is a new one
LEMMA QuietOffset ==
    ASSUME PoolInv, OffsetInv, NEW c \in Callers, OthersStay(c),
           Dev \in warm', services'[Dev] = services[Dev],
           services[Dev] \in Svc => Spared(services[Dev]),
           \A d \in Callers : local[d] \in Svc => Spared(local[d]),
           \/ dt_diff' \in {dt_diff, None}
           \/ services[Dev] \in Svc => ~svc'[services[Dev]].open,
           pc'[c] = "reclosing" => \A d \in Callers \ {c} : pc[d] # "reclosing",
           Serving(c)'
    PROVE  OffsetInv'
<1>0. services[Dev] \in Svc \cup {None}
  BY PoolInvParts DEF PoolOK, Keys
<1>1. AtHome'
  BY <1>0 DEF OffsetInv, AtHome, Spared
<1>2. OffsetServed'
  <2> SUFFICES ASSUME dt_diff' # None, services'[Dev] # None, svc'[services'[Dev]].open
               PROVE  svc'[services'[Dev]].dt = dt_diff'
    BY Zenon DEF OffsetServed
  <2>1. services[Dev] \in Svc /\ svc[services[Dev]].open /\ dt_diff' = dt_diff
    BY <1>0 DEF Spared
  <2>2. svc[services[Dev]].dt = dt_diff
    BY <1>0, <2>1 DEF OffsetInv, OffsetServed
  <2> QED
    BY <2>1, <2>2 DEF Spared
<1>3. ASSUME NEW d \in Callers \ {c} PROVE Serving(d)'
  <2>1. Serving(d) /\ Placed(d) /\ pc'[d] = pc[d] /\ key'[d] = key[d] /\ local'[d] = local[d]
    BY PoolInvParts DEF OffsetInv, OthersStay
  <2>2. pc[d] \in {"clock", "clockauth"} =>
           local[d] \in Svc /\ (svc'[local[d]].open => local[d] = services'[Dev])
    BY <2>1 DEF Serving, Spared
  <2>3. pc[d] = "reclosing" => ~svc'[services'[Dev]].open
    BY <1>0, <2>1 DEF Serving, Spared, Placed
  <2>4. pc[d] = "reclosing" => \A e \in Callers \ {d} : pc'[e] # "reclosing"
    BY <2>1 DEF Serving, OthersStay
  <2> QED
    BY <2>1, <2>2, <2>3, <2>4 DEF Serving
<1> QED
  BY <1>1, <1>2, <1>3 DEF OffsetInv

\* A devicemgmt with the offset of the moment takes the place of none, or of a
\* closed one
LEMMA DevOffset ==
    ASSUME PoolInv, OffsetInv, NEW c \in Callers, OthersStay(c), UNCHANGED warm,
           NEW s \in Svc, New(s, DevAddr, dt_diff'),
           services' = [services EXCEPT ![Dev] = s],
           services[Dev] # None => ~svc[services[Dev]].open,
           \A d \in Callers \ {c} : pc[d] # "reclosing",
           pc'[c] \notin {"setup", "closing", "reclosing", "clockauth"},
           pc'[c] = "clock" => local'[c] = s
    PROVE  OffsetInv'
<1>0. PoolOK /\ Dev \in Keys
  BY PoolInvParts DEF Keys
<1>1. /\ services'[Dev] = s /\ svc'[s].addr = DevAddr /\ svc'[s].dt = dt_diff'
      /\ \A r \in Svc \ {s} : svc'[r] = svc[r]
      /\ \A d \in Callers : local[d] # s
  BY <1>0 DEF New, First, Free, PoolOK
<1>2. AtHome' /\ OffsetServed'
  BY <1>1 DEF AtHome, OffsetServed
<1>3. ASSUME NEW d \in Callers \ {c} PROVE Serving(d)'
  <2>1. Serving(d) /\ pc'[d] = pc[d] /\ key'[d] = key[d] /\ local'[d] = local[d]
    BY DEF OffsetInv, OthersStay
  <2>2. pc[d] \in {"clock", "clockauth"} => local[d] \in Svc /\ ~svc'[local[d]].open
    BY <1>1, <2>1, PoolIdentity DEF Serving
  <2> QED
    BY <2>1, <2>2 DEF Serving
<1>4. Serving(c)'
  BY <1>1 DEF Serving
<1> QED
  BY <1>2, <1>3, <1>4 DEF OffsetInv

\* A service that is built takes an identity nobody works with
LEMMA NewSpares ==
    ASSUME PoolOK, NEW s \in Svc, NEW addr, NEW diff, New(s, addr, diff)
    PROVE  /\ services[Dev] \in Svc => Spared(services[Dev])
           /\ \A d \in Callers : local[d] \in Svc => Spared(local[d])
<1>1. \A r \in Svc \ {s} : svc'[r] = svc[r]
  BY DEF New, PoolOK
<1>2. services[Dev] # s /\ \A d \in Callers : local[d] # s
  BY PoolIdentity DEF New, First, Free, Registered, Keys, PoolOK
<1> QED
  BY <1>1, <1>2 DEF Spared

\* Another service than devicemgmt is built for a caller that wants to create it
LEMMA OtherBuilt ==
    ASSUME PoolInv, OffsetInv, NEW c \in Callers, NEW k \in Others, NEW addr, NEW diff,
           Build(c, "create", k, addr, diff), UNCHANGED warm, dt_diff' \in {dt_diff, None}
    PROVE  OffsetInv'
<1>0. CallOK /\ PoolOK /\ Dev \in Keys /\ k \in Keys /\ k # Dev
  BY PoolInvParts, PoolIdentity DEF Keys
<1>1. OthersStay(c)
  BY <1>0, BuildOthers
<1>2. PICK s \in Svc : New(s, addr, diff)
  BY DEF Build, BuildWarm, BuildCold
<1>3. services'[Dev] = services[Dev]
  BY <1>0 DEF Build, BuildWarm, BuildCold, PoolOK
<1>4. pc'[c] = "idle" \/ (pc'[c] = "setup" /\ key'[c] = k)
  BY <1>0 DEF Build, BuildWarm, BuildCold, Arrive, Finish, Wait, CallOK
<1>5. Serving(c)'
  BY <1>0, <1>4 DEF Serving
<1> QED
  BY <1>0, <1>1, <1>2, <1>3, <1>4, <1>5, NewSpares, QuietOffset DEF OffsetInv

LEMMA BeginOffset ==
    ASSUME PoolInv, OffsetInv, NEW c \in Callers, NEW k \in Keys,
           NEW op \in {"create", "discover", "capabilities"}, Begin(c, op, k)
    PROVE  OffsetInv'
<1>0. CallOK /\ PoolOK /\ Dev \in Keys
  BY PoolInvParts DEF Keys
<1>1. /\ CreateService(c, op, k, dt_diff') /\ UNCHANGED warm
      /\ op # "create" => k = Dev
      /\ dt_diff' \in {dt_diff, None}
  BY DEF Begin
<1>2. OthersStay(c)
  BY <1>0, <1>1, CreateOthers
<1>same. UNCHANGED svc => /\ services[Dev] \in Svc => Spared(services[Dev])
                          /\ \A d \in Callers : local[d] \in Svc => Spared(local[d])
  BY DEF Spared
<1>3. CASE Finish(c) /\ UNCHANGED <<services, svc>>
  <2>1. Serving(c)' /\ pc'[c] = "idle"
    BY <1>0, <1>3, FinishEffect DEF Serving
  <2> QED
    BY <1>1, <1>2, <1>3, <1>same, <2>1, QuietOffset DEF OffsetInv
<1>4. CASE Reusable(k) /\ Arrive(c, op, services[k], dt_diff') /\ UNCHANGED <<services, svc>>
  <2>1. services[k] \in Svc
    BY <1>0, <1>4 DEF Reusable, PoolOK
  <2>2. Serving(c)' /\ pc'[c] # "reclosing"
    BY <1>0, <1>1, <1>4, <2>1, ArriveWhere DEF Serving
  <2> QED
    BY <1>1, <1>2, <1>4, <1>same, <2>2, QuietOffset DEF OffsetInv
<1>5. CASE services[k] = None /\ Build(c, op, k, AddressOf(k), dt_diff')
  <2>1. CASE k = Dev
    <3>1. PICK s \in Svc : /\ New(s, DevAddr, dt_diff')
                           /\ services' = [services EXCEPT ![Dev] = s]
                           /\ Arrive(c, op, s, dt_diff')
      BY <1>5, <2>1 DEF Build, BuildWarm, BuildCold, AddressOf, OffsetInv
    <3>2. \A d \in Callers : pc[d] # "reclosing"
      BY <1>5, <2>1, PoolInvParts DEF Placed
    <3>3. /\ pc'[c] \notin {"setup", "closing", "reclosing", "clockauth"}
          /\ pc'[c] = "clock" => local'[c] = s
      BY <1>0, <3>1, ArriveWhere
    <3> QED
      BY <1>1, <1>2, <1>5, <2>1, <3>1, <3>2, <3>3, DevOffset
  <2>2. CASE k # Dev
    <3>1. k \in Others /\ op = "create"
      BY <1>1, <2>2 DEF Keys
    <3> QED
      BY <1>1, <1>5, <3>1, OtherBuilt
  <2> QED
    BY <2>1, <2>2
<1>6. CASE /\ services[k] # None /\ ~Reusable(k)
           /\ svc' = [svc EXCEPT ![services[k]].open = FALSE]
           /\ Wait(c, "closing", op, k, services[k], AddressOf(k))
           /\ UNCHANGED services
  <2>1. services[k] \in Svc
    BY <1>0, <1>6 DEF PoolOK
  <2>2. k # Dev
    BY <1>6 DEF OffsetInv, AtHome, Reusable, AddressOf
  <2>3. \A r \in Svc : Spared(r)
    BY <1>0, <1>6, <2>1, ShutFacts DEF Spared
  <2>4. pc'[c] = "closing" /\ key'[c] = k
    BY <1>0, <1>6 DEF Wait, CallOK
  <2>5. Serving(c)'
    BY <2>2, <2>4 DEF Serving
  <2> QED
    BY <1>1, <1>2, <1>6, <2>3, <2>4, <2>5, QuietOffset DEF OffsetInv
<1> QED
  BY <1>1, <1>3, <1>4, <1>5, <1>6 DEF CreateService

\* setup() and close() of another service than devicemgmt are over
LEMMA CreateOffset ==
    ASSUME PoolInv, OffsetInv, NEW c \in Callers, SetupReturns(c) \/ OldClosed(c)
    PROVE  OffsetInv'
<1>0. CallOK /\ PoolOK /\ Dev \in Keys
  BY PoolInvParts DEF Keys
<1>1. key[c] \in Others /\ doing[c] = "create"
  BY PoolInvParts DEF SetupReturns, OldClosed, OffsetInv, Serving, Placed, Keys
<1>2. CASE SetupReturns(c)
  <2>1. Finish(c) /\ UNCHANGED <<svc, dt_diff>>
    BY <1>1, <1>2 DEF SetupReturns, Arrive
  <2>2. services'[Dev] = services[Dev] /\ Dev \in warm'
    BY <1>0, <1>1, <1>2, PoolIdentity DEF SetupReturns, PoolOK, OffsetInv
  <2>3. OthersStay(c) /\ pc'[c] = "idle" /\ Serving(c)'
    BY <1>0, <2>1, FinishEffect DEF Serving
  <2>4. \A r \in Svc : Spared(r)
    BY <2>1 DEF Spared
  <2> QED
    BY <2>1, <2>2, <2>3, <2>4, QuietOffset
<1>3. CASE OldClosed(c)
  BY <1>1, <1>3, OtherBuilt DEF OldClosed
<1> QED
  BY <1>2, <1>3

LEMMA ClockOffset ==
    ASSUME PoolInv, OffsetInv, NEW c \in Callers,
           ClockAnswered(c) \/ ClockRefused(c) \/ DevClosed(c)
    PROVE  OffsetInv'
<1>0. CallOK /\ PoolOK /\ Serving(c) /\ UNCHANGED warm
  BY PoolInvParts DEF OffsetInv, ClockAnswered, ClockRefused, DevClosed
<1>1. CASE ClockAnswered(c)
  <2>1. local[c] \in Svc /\ local[c] = services[Dev] /\ svc[local[c]].open
    BY <1>0, <1>1 DEF ClockAnswered, Serving
  <2>2. (\A r \in Svc : Spared(r)) /\ ~svc'[services[Dev]].open
    BY <1>0, <1>1, <2>1, ShutFacts DEF ClockAnswered, Spared
  <2>3. \A d \in Callers \ {c} : pc[d] # "reclosing"
    BY <2>1 DEF OffsetInv, Serving
  <2>4. OthersStay(c) /\ pc'[c] = "reclosing" /\ UNCHANGED services
    BY <1>0, <1>1 DEF ClockAnswered, callVars, CallOK, OthersStay
  <2>5. Serving(c)'
    BY <2>2, <2>3, <2>4 DEF Serving, OthersStay
  <2> QED
    BY <1>0, <2>2, <2>3, <2>4, <2>5, QuietOffset DEF OffsetInv
<1>2. CASE ClockRefused(c)
  <2>1. /\ OthersStay(c) /\ pc'[c] = "clockauth"
        /\ UNCHANGED <<services, svc, local, dt_diff>>
    BY <1>0, <1>2 DEF ClockRefused, callVars, CallOK, OthersStay
  <2>2. Serving(c)' /\ \A r \in Svc : Spared(r)
    BY <1>0, <1>2, <2>1 DEF Serving, ClockRefused, Spared
  <2> QED
    BY <1>0, <2>1, <2>2, QuietOffset DEF OffsetInv
<1>3. CASE DevClosed(c)
  <2>1. PICK s \in Svc : /\ New(s, DevAddr, dt_diff')
                         /\ services' = [services EXCEPT ![Dev] = s]
                         /\ Ask(c, doing[c], s)
    BY <1>3 DEF DevClosed
  <2>2. /\ ~svc[services[Dev]].open
        /\ \A d \in Callers \ {c} : pc[d] # "reclosing"
    BY <1>0, <1>3 DEF DevClosed, Serving
  <2>3. OthersStay(c) /\ pc'[c] \in {"getservices", "getcaps"}
    BY <1>0, <2>1, AskOthers DEF Ask, Wait, CallOK
  <2> QED
    BY <1>0, <2>1, <2>2, <2>3, DevOffset
<1> QED
  BY <1>1, <1>2, <1>3

LEMMA OffsetStep == PoolInv /\ OffsetInv /\ [Next]_vars => OffsetInv'
<1> SUFFICES ASSUME PoolInv, OffsetInv, [Next]_vars PROVE OffsetInv'
  OBVIOUS
<1>1. CASE UNCHANGED vars
  BY <1>1 DEF OffsetInv, AtHome, OffsetServed, Serving, vars, callVars
<1>2. ASSUME NEW c \in Callers, NEW k \in Keys,
             NEW op \in {"create", "discover", "capabilities"}, Begin(c, op, k)
      PROVE  OffsetInv'
  BY <1>2, BeginOffset
<1>3. ASSUME NEW c \in Callers, SetupReturns(c) \/ OldClosed(c) PROVE OffsetInv'
  BY <1>3, CreateOffset
<1>4. ASSUME NEW c \in Callers, ClockAnswered(c) \/ ClockRefused(c) \/ DevClosed(c)
      PROVE  OffsetInv'
  BY <1>4, ClockOffset
<1>5. ASSUME NEW c \in Callers,
             \/ SetupFails(c) \/ ServicesAnswered(c) \/ ServicesMissing(c)
             \/ CapabilitiesAnswered(c) \/ AnswerUnusable(c) \/ RequestFails(c)
             \/ Cancelled(c) \/ CloseBegins(c) \/ CloseFirst(c) \/ CloseNext(c)
             \/ CloseEnds(c) \/ CloseRaises(c)
      PROVE  OffsetInv'
  <2>1. /\ OthersStay(c) /\ UNCHANGED <<services, warm, dt_diff>>
        /\ pc'[c] \in {"idle", "getcaps", "snapshot", "closeall"}
        /\ \A r \in Svc : Spared(r)
    BY <1>5, StillStep DEF Spared
  <2>2. Serving(c)'
    BY <2>1 DEF Serving
  <2> QED
    BY <2>1, <2>2, QuietOffset DEF OffsetInv
<1> QED
  BY <1>1, <1>2, <1>3, <1>4, <1>5 DEF Next, Step

\* Once the document of devicemgmt is loaded, no interleaving, failure or cancellation
\* leaves an open devicemgmt registered that signs with another offset than the one
\* measured last.
THEOREM OffsetAlwaysServed ==
    ASSUME Dev \in Loaded PROVE Spec => []OffsetServed
<1>1. Init => OffsetInv
  BY DEF Init, OffsetInv, AtHome, OffsetServed, Serving, Keys
<1>2. OffsetInv => OffsetServed
  BY DEF OffsetInv
<1> QED
  BY <1>1, <1>2, PoolInvariant, OffsetStep, PTL DEF Spec

-----------------------------------------------------------------------------
(* close().  While it iterates, nothing it has to visit is replaced: what is   *)
(* registered meanwhile comes in addition, and the iteration notices.          *)

Handshaking(c) == pc[c] \in {"clock", "clockauth", "reclosing"}

\* What an iteration has behind it stays closed, and what it has to visit stays
\* registered
Closing(c) ==
    /\ \A s \in visited[c] : ~svc[s].open
    /\ pc[c] = "closeall" => began[c] \subseteq Registered

CloseInv ==
    /\ \A c \in Callers : Closing(c) /\ (Handshaking(c) => AdjustTime)
    /\ closed => \A s \in Svc : ~svc[s].open
    /\ closed /\ OneCaller => AtRest

LEMMA SameRegistered == UNCHANGED services => Registered' = Registered
  BY DEF Registered

\* A step that opens nothing and does not end a close()
LEMMA QuietClose ==
    ASSUME PoolInv, CloseInv, NEW c \in Callers, OthersStay(c), UNCHANGED services,
           \A r \in Svc : svc'[r].open => svc[r].open,
           \A d \in Callers \ {c} : visited'[d] = visited[d] /\ began'[d] = began[d],
           Closing(c)', Handshaking(c)' => AdjustTime,
           closed' => closed /\ (OneCaller => AtRest')
    PROVE  CloseInv'
<1>1. \A d \in Callers \ {c} : visited[d] \subseteq Svc
  BY PoolInvParts DEF RestOK
<1>2. ASSUME NEW d \in Callers \ {c} PROVE Closing(d)' /\ (Handshaking(d)' => AdjustTime)
  BY <1>1, SameRegistered DEF CloseInv, Closing, Handshaking, OthersStay
<1> QED
  BY <1>2 DEF CloseInv

\* A service is opened where none was, or by the only caller
LEMMA OpenClose ==
    ASSUME PoolInv, CloseInv, NEW c \in Callers, OthersStay(c), UNCHANGED <<visited, began>>,
           NEW s \in Svc, NEW k \in Keys, NEW addr, NEW diff, New(s, addr, diff),
           services' = [services EXCEPT ![k] = s], services[k] = None \/ OneCaller,
           pc'[c] # "closeall", Handshaking(c)' => AdjustTime, ~closed'
    PROVE  CloseInv'
<1>0. PoolOK /\ RestOK
  BY PoolInvParts
<1>1. /\ services'[k] = s
      /\ \A j \in Keys \ {k} : services'[j] = services[j]
      /\ \A r \in Svc \ {s} : svc'[r] = svc[r]
      /\ \A d \in Callers : s \notin visited[d] /\ visited[d] \subseteq Svc
  BY <1>0, NewFacts DEF New, First, Free, PoolOK, RestOK
<1>2. ASSUME NEW d \in Callers PROVE \A r \in visited'[d] : ~svc'[r].open
  BY <1>1 DEF CloseInv, Closing
<1>3. ASSUME NEW d \in Callers \ {c}, pc'[d] = "closeall" PROVE began'[d] \subseteq Registered'
  <2>1. began[d] \subseteq Registered
    BY <1>3 DEF CloseInv, Closing, OthersStay
  <2>2. services[k] = None
    BY DEF OneCaller
  <2>3. Registered \subseteq Registered'
    BY <1>1, <2>2 DEF Registered
  <2> QED
    BY <2>1, <2>3
<1>4. ASSUME NEW d \in Callers \ {c} PROVE Handshaking(d)' => AdjustTime
  BY DEF CloseInv, Handshaking, OthersStay
<1> QED
  BY <1>2, <1>3, <1>4 DEF CloseInv, Closing

LEMMA BuildClose ==
    ASSUME PoolInv, LeakInv, CloseInv, NEW c \in Callers, NEW op, NEW k \in Keys, NEW addr,
           NEW diff, Build(c, op, k, addr, diff), UNCHANGED <<visited, began>>,
           services[k] = None \/ OneCaller, ~closed'
    PROVE  CloseInv'
<1>0. CallOK
  BY PoolInvParts
<1>1. PICK s \in Svc : /\ New(s, addr, diff)
                       /\ services' = [services EXCEPT ![k] = s]
                       /\ Arrive(c, op, s, diff)
  BY DEF Build, BuildWarm, BuildCold, LeakInv
<1>2. OthersStay(c)
  BY <1>0, <1>1, ArriveOthers
<1>3. pc'[c] # "closeall" /\ (Handshaking(c)' => AdjustTime)
  BY <1>0, <1>1, ArriveWhere DEF Handshaking
<1> QED
  BY <1>1, <1>2, <1>3, OpenClose

LEMMA BeginClose ==
    ASSUME PoolInv, LeakInv, CloseInv, NEW c \in Callers, NEW k \in Keys,
           NEW op \in {"create", "discover", "capabilities"}, Begin(c, op, k)
    PROVE  CloseInv'
<1>0. CallOK /\ PoolOK
  BY PoolInvParts
<1> DEFINE diff == IF op = "discover" THEN None ELSE dt_diff
<1>1. CreateService(c, op, k, diff) /\ UNCHANGED <<visited, began>> /\ closed' = FALSE
  BY DEF Begin
<1>2. OthersStay(c)
  BY <1>0, <1>1, CreateOthers
<1>3. CASE services[k] = None /\ Build(c, op, k, AddressOf(k), diff)
  BY <1>1, <1>3, BuildClose
<1>4. CASE UNCHANGED <<services, svc>> /\ (Finish(c) \/ Arrive(c, op, services[k], diff))
  <2>1. pc'[c] # "closeall" /\ (Handshaking(c)' => AdjustTime)
    BY <1>0, <1>4, FinishEffect, ArriveWhere DEF Handshaking
  <2>2. Closing(c)'
    BY <1>1, <1>4, <2>1 DEF CloseInv, Closing
  <2> QED
    BY <1>1, <1>2, <1>4, <2>1, <2>2, QuietClose
<1>5. CASE /\ services[k] # None /\ UNCHANGED services
           /\ svc' = [svc EXCEPT ![services[k]].open = FALSE]
           /\ Wait(c, "closing", op, k, services[k], AddressOf(k))
  <2>1. services[k] \in Svc /\ visited[c] \subseteq Svc
    BY <1>0, <1>5, PoolInvParts DEF PoolOK, RestOK
  <2>2. \A r \in Svc : svc'[r].open => svc[r].open
    BY <1>0, <1>5, <2>1, ShutFacts, Zenon
  <2>3. pc'[c] = "closing"
    BY <1>0, <1>5 DEF Wait, CallOK
  <2>4. Closing(c)'
    BY <1>1, <2>1, <2>2, <2>3 DEF CloseInv, Closing
  <2> QED
    BY <1>1, <1>2, <1>5, <2>2, <2>3, <2>4, QuietClose DEF Handshaking
<1> QED
  BY <1>1, <1>3, <1>4, <1>5 DEF CreateService

\* The iteration that ends by itself has visited all that is registered
LEMMA EndsClosed ==
    ASSUME IsFiniteSet(Keys), PoolInv, LeakInv, CloseInv, NEW c \in Callers, CloseEnds(c)
    PROVE  \A s \in Svc : ~svc[s].open
<1>1. IsFiniteSet(Registered)
  <2> DEFINE Held == {services[k] : k \in Keys}
  <2>1. services \in Surjection(Keys, Held)
    BY PoolInvParts DEF PoolOK, Surjection
  <2>2. IsFiniteSet(Held)
    BY <2>1, FS_Surjection
  <2> QED
    BY <2>2, FS_Subset DEF Registered
<1>2. CASE Registered = {}
  BY <1>2, PoolIdentity DEF LeakInv, OpenRegistered, Registered
<1>3. CASE /\ pc[c] = "closeall" /\ Cardinality(Registered) = Cardinality(began[c])
           /\ Registered \subseteq visited[c] \/ Registered # began[c]
  <2>1. began[c] \subseteq Registered
    BY <1>3 DEF CloseInv, Closing
  <2>2. began[c] = Registered
    BY <1>1, <1>3, <2>1, FS_Subset
  <2>3. \A s \in Registered : ~svc[s].open
    BY <1>3, <2>2 DEF CloseInv, Closing
  <2> QED
    BY <2>3, PoolIdentity DEF LeakInv, OpenRegistered, Registered
<1> QED
  BY <1>2, <1>3 DEF CloseEnds

LEMMA CloseInvStep ==
    ASSUME IsFiniteSet(Keys), AdjustTime => OneCaller, PoolInv, LeakInv, CloseInv, [Next]_vars
    PROVE  CloseInv'
<1>0. CallOK /\ PoolOK /\ RestOK /\ Registered \subseteq Svc
  BY PoolInvParts DEF Registered, PoolOK
<1>1. CASE UNCHANGED vars
  <2>1. UNCHANGED <<services, svc, pc, visited, began, closed>>
    BY <1>1 DEF vars, closeVars
  <2> QED
    BY <2>1, SameRegistered DEF CloseInv, Closing, Handshaking, AtRest, Idle
<1>2. ASSUME NEW c \in Callers, NEW k \in Keys,
             NEW op \in {"create", "discover", "capabilities"}, Begin(c, op, k)
      PROVE  CloseInv'
  BY <1>2, BeginClose
<1>3. ASSUME NEW c \in Callers, SetupReturns(c) \/ OldClosed(c)
      PROVE  CloseInv'
  <2>1. Ceding(c) /\ Placed(c)
    BY PoolInvParts DEF LeakInv
  <2>2. OldClosed(c) /\ pc[c] = "closing"
    BY <1>3, <2>1 DEF SetupReturns, OldClosed, Ceding
  <2>3. /\ key[c] \in Keys /\ OneCaller
        /\ Build(c, doing[c], key[c], want[c], dt_diff)
        /\ UNCHANGED <<visited, began, closed>>
    BY <2>1, <2>2 DEF OldClosed, Ceding, Placed, closeVars
  <2>4. ~closed'
    BY <2>2, <2>3 DEF CloseInv, AtRest, Idle
  <2> QED
    BY <2>3, <2>4, BuildClose
<1>4. ASSUME NEW c \in Callers, DevClosed(c)
      PROVE  CloseInv'
  <2>1. PICK s \in Svc : /\ New(s, DevAddr, dt_diff)
                         /\ services' = [services EXCEPT ![Dev] = s]
                         /\ Ask(c, doing[c], s)
    BY <1>4 DEF DevClosed
  <2>2. OneCaller /\ ~closed /\ UNCHANGED <<visited, began, closed>>
    BY <1>4 DEF DevClosed, CloseInv, Handshaking, AtRest, Idle, closeVars
  <2>3. OthersStay(c) /\ pc'[c] \in {"getservices", "getcaps"} /\ Dev \in Keys
    BY <1>0, <2>1, AskOthers DEF Ask, Wait, CallOK, Keys
  <2> QED
    BY <2>1, <2>2, <2>3, OpenClose DEF Handshaking
<1>5. ASSUME NEW c \in Callers, ClockAnswered(c) \/ ClockRefused(c)
      PROVE  CloseInv'
  <2>1. /\ Handshaking(c) /\ OthersStay(c) /\ UNCHANGED services
        /\ pc'[c] # "closeall" /\ UNCHANGED <<visited, began, closed>>
    BY <1>0, <1>5 DEF ClockAnswered, ClockRefused, Handshaking, callVars, closeVars, CallOK,
       OthersStay
  <2>2. local[c] \in Svc /\ visited[c] \subseteq Svc
    BY <1>0, <1>5 DEF LeakInv, Ceding, RestOK, ClockAnswered, ClockRefused
  <2>3. \A r \in Svc : svc'[r].open => svc[r].open
    BY <1>0, <1>5, <2>2, ShutFacts DEF ClockAnswered, ClockRefused
  <2>4. Closing(c)' /\ AdjustTime
    BY <2>1, <2>2, <2>3 DEF CloseInv, Closing
  <2>5. ~closed'
    BY <2>1, <2>4 DEF CloseInv, AtRest, Idle, Handshaking
  <2> QED
    BY <2>1, <2>3, <2>4, <2>5, QuietClose
<1>6. ASSUME NEW c \in Callers,
             \/ SetupFails(c) \/ ServicesAnswered(c) \/ ServicesMissing(c)
             \/ CapabilitiesAnswered(c) \/ AnswerUnusable(c) \/ RequestFails(c)
             \/ Cancelled(c) \/ CloseBegins(c) \/ CloseFirst(c) \/ CloseNext(c)
             \/ CloseRaises(c)
      PROVE  CloseInv'
  <2>1. /\ OthersStay(c) /\ UNCHANGED services
        /\ pc'[c] \in {"idle", "getcaps", "snapshot", "closeall"}
        /\ \A r \in Svc : svc'[r].open => svc[r].open
    BY <1>6, StillStep
  <2>2. /\ \A d \in Callers \ {c} : visited'[d] = visited[d] /\ began'[d] = began[d]
        /\ visited[c] \subseteq Svc
    BY <1>0, <1>6 DEF SetupFails, ServicesAnswered, ServicesMissing, CapabilitiesAnswered,
       AnswerUnusable, RequestFails, Cancelled, CloseBegins, CloseFirst, CloseNext,
       CloseRaises, CloseLeaves, CloseVisits, closeVars, RestOK
  <2>3. closed' => closed /\ (OneCaller => AtRest')
    <3>1. CASE CloseBegins(c)
      BY <3>1 DEF CloseBegins
    <3>2. CASE ~CloseBegins(c)
      <4>1. closed' = closed /\ ~Idle(c)
        BY <1>6, <3>2 DEF SetupFails, ServicesAnswered, ServicesMissing,
           CapabilitiesAnswered, AnswerUnusable, RequestFails, Cancelled, CloseFirst,
           CloseNext, CloseRaises, closeVars, Idle, RequestPoints
      <4> QED
        BY <4>1 DEF CloseInv, AtRest
    <3> QED
      BY <3>1, <3>2
  <2>4. Closing(c)'
    <3>1. CASE CloseFirst(c) \/ CloseNext(c)
      <4>1. PICK s \in Svc : /\ svc' = [svc EXCEPT ![s].open = FALSE]
                             /\ visited'[c] = visited[c] \cup {s}
        BY <1>0, <3>1 DEF CloseFirst, CloseNext, CloseVisits, RestOK
      <4>2. \A r \in visited'[c] : ~svc'[r].open
        BY <1>0, <2>1, <2>2, <4>1, ShutFacts DEF CloseInv, Closing
      <4>3. began'[c] \subseteq Registered
        BY <1>0, <3>1 DEF CloseFirst, CloseNext, CloseInv, Closing, RestOK
      <4> QED
        BY <2>1, <4>2, <4>3, SameRegistered DEF Closing
    <3>2. CASE ~(CloseFirst(c) \/ CloseNext(c))
      <4>1. pc'[c] # "closeall" /\ visited'[c] \subseteq visited[c]
        BY <1>0, <1>6, <3>2 DEF SetupFails, ServicesAnswered, ServicesMissing,
           CapabilitiesAnswered, AnswerUnusable, RequestFails, Cancelled, CloseBegins,
           CloseRaises, CloseLeaves, closeVars, RestOK, Finish, Wait, CallOK
      <4> QED
        BY <2>1, <2>2, <4>1 DEF CloseInv, Closing
    <3> QED
      BY <3>1, <3>2
  <2> QED
    BY <2>1, <2>2, <2>3, <2>4, QuietClose DEF Handshaking
<1>7. ASSUME NEW c \in Callers, CloseEnds(c)
      PROVE  CloseInv'
  <2>1. OthersStay(c) /\ UNCHANGED <<services, svc>> /\ pc'[c] = "idle"
    BY <1>0, <1>7, FinishEffect DEF CloseEnds, CloseLeaves
  <2>2. /\ \A d \in Callers \ {c} : visited'[d] = visited[d] /\ began'[d] = began[d]
        /\ visited'[c] = {}
    BY <1>0, <1>7 DEF CloseEnds, CloseLeaves, RestOK
  <2>3. \A s \in Svc : ~svc'[s].open
    BY <1>7, <2>1, EndsClosed
  <2>4. \A d \in Callers : Closing(d)' /\ (Handshaking(d)' => AdjustTime)
    BY <2>1, <2>2, SameRegistered DEF CloseInv, Closing, Handshaking, OthersStay
  <2>5. OneCaller => AtRest'
    BY <2>1 DEF OneCaller, AtRest, Idle
  <2> QED
    BY <2>3, <2>4, <2>5 DEF CloseInv
<1> QED
  BY <1>2, <1>1, <1>3, <1>4, <1>5, <1>6, <1>7 DEF Next, Step

\* Once close() has returned and nothing was begun since, every session is closed,
\* whatever runs beside it and whatever fails or is cancelled: with every document
\* loaded, and for more than one caller with the addresses stable and no handshake.
THEOREM CloseIsComplete ==
    ASSUME IsFiniteSet(Others), Loaded = Keys, OneCaller \/ (OneAddress /\ ~AdjustTime)
    PROVE  Spec => []ClosesAll
<1>1. IsFiniteSet(Keys)
  BY FS_Singleton, FS_Union DEF Keys
<1>2. Init => CloseInv
  BY DEF Init, CloseInv, Closing, Handshaking, AtRest, Idle
<1>3. PoolInv /\ LeakInv /\ CloseInv /\ [Next]_vars => CloseInv'
  BY <1>1, CloseInvStep
<1>4. CloseInv => ClosesAll
  BY DEF CloseInv, ClosesAll
<1> QED
  BY <1>2, <1>3, <1>4, PoolInvariant, LeakInvariant, PTL DEF Spec

=============================================================================
