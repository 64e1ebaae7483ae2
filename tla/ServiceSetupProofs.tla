-------------------------- MODULE ServiceSetupProofs --------------------------
(***************************************************************************)
(* What holds of ServiceSetup for any callers, urls, documents and clocks: *)
(* it is type correct, the sqlite cache is built by one caller at a time   *)
(* and never replaced, and no service misreads the times cameras write.    *)
(***************************************************************************)
EXTENDS ServiceSetup, TLAPS

-----------------------------------------------------------------------------
(* The time types: pure facts *)

\* What is clipped off is added back, whatever the fields hold.
LEMMA CorrectionExact ==
  ASSUME NEW h \in Nat, NEW m \in Nat, NEW s \in Nat
  PROVE  Corrected(Clock(h, m, s)) = Seconds(Clock(h, m, s))
  BY DEF Corrected, Seconds, Clipped, Offset, Least, Clock

LEMMA ClockFields ==
  ASSUME NEW clock \in Clocks
  PROVE  /\ Corrected(clock) = Seconds(clock) /\ Seconds(clock) \in Nat
         /\ Parses(clock) => Seconds(clock) < Day /\ TwoDigits(clock)
<1>1. clock \in [h : Nat, m : Nat, s : Nat]
  BY SetupAssumption
<1>2. PICK h \in Nat, m \in Nat, s \in Nat : clock = Clock(h, m, s)
  BY <1>1 DEF Clock
<1> QED BY <1>2, CorrectionExact DEF Seconds, Parses, TwoDigits, Clock, Day

\* The readings of a document that was loaded with the two types.
LEMMA LoadedReadsAll == ReadsAll["loaded"]
<1>1. ASSUME NEW v \in Written
      PROVE  FastDateTime(v) = IF Repairable(v) THEN {Seconds(v.clock)} ELSE {}
  <2>1. v.clock \in Clocks
    BY DEF Written
  <2>2. Repaired(v).clock = v.clock
    BY DEF Repaired, Joined, Undashed, Written
  <2>3. CASE Parses(v.clock)
    <3>1. Repairable(v)
      BY <2>1, <2>3, ClockFields DEF Repairable
    <3> QED BY <2>2, <2>3, <3>1 DEF FastDateTime
  <2>4. CASE ~Parses(v.clock)
    <3>1. Repaired(v).sep = "T" <=> v.sep # " " \/ v.trailer \in {"", "Z", ".ffffff"}
      <4>1. CASE v.sep # " " \/ v.trailer \in {"", "Z", ".ffffff"}
        BY <4>1 DEF Repaired, Joined, Undashed, Written, TrailerLength, Trailers
      <4>2. CASE v.sep = " " /\ v.trailer \in {"+hh:mm", ".ffffffZ"}
        <5>1. TrailerLength["+hh:mm"] = 6 /\ TrailerLength[".ffffffZ"] = 8
          BY DEF TrailerLength, Trailers
        <5>2. TrailerLength[v.trailer] = 6 \/ TrailerLength[v.trailer] = 8
          BY <4>2, <5>1, Zenon
        <5>3. Undashed(v).sep = " " /\ Undashed(v).trailer = v.trailer
          BY <4>2 DEF Undashed, Written
        <5>4. TrailerLength[v.trailer] \notin {0, 1, 7}
          BY <5>2
        <5>5. Repaired(v) = Undashed(v)
          BY <5>3, <5>4, Zenon DEF Repaired, Joined
        <5>6. v.sep = " " /\ v.trailer \notin {"", "Z", ".ffffff"}
          BY <4>2
        <5> QED BY <5>3, <5>5, <5>6
      <4> QED BY <4>1, <4>2 DEF Written, Trailers
    <3>2. FastDateTime(v) = IF Repaired(v).sep = "T" /\ TwoDigits(v.clock)
                            THEN {Corrected(v.clock)} ELSE {}
      BY <2>2, <2>4 DEF FastDateTime, Correction
    <3> QED BY <2>1, <2>4, <3>1, <3>2, ClockFields DEF Repairable
  <2> QED BY <2>3, <2>4
<1>2. ASSUME NEW clock \in Clocks
      PROVE  ForgivingTime(clock) =
                 IF TwoDigits(clock) THEN {Seconds(clock) % Day} ELSE {}
  <2>1. CASE Parses(clock)
    <3>1. Seconds(clock) % Day = Seconds(clock) /\ TwoDigits(clock)
      BY <2>1, ClockFields DEF Day
    <3> QED BY <2>1, <3>1 DEF ForgivingTime
  <2>2. CASE ~Parses(clock)
    BY <2>2, ClockFields DEF ForgivingTime, Correction
  <2> QED BY <2>1, <2>2
<1> QED BY <1>1, <1>2 DEF ReadsAll, DocStates, Read, ReadTime

-----------------------------------------------------------------------------
(* Type correctness *)

LEMMA RemovedTyped ==
  ASSUME NEW S, NEW q \in Seq(S), NEW i \in 1..Len(q)
  PROVE  RemoveAt(q, i) \in Seq(S)
<1>1. SubSeq(q, 1, i - 1) \in Seq(S) /\ SubSeq(q, i + 1, Len(q)) \in Seq(S)
  OBVIOUS
<1> QED BY <1>1 DEF RemoveAt

LEMMA WithoutTyped ==
  ASSUME waiters \in Seq(Callers), NEW c
  PROVE  Without(c) \in Seq(Callers)
<1> DEFINE places == {i \in 1..Len(waiters) : waiters[i] = c}
<1>1. CASE places = {}
  BY <1>1 DEF Without
<1>2. CASE places # {}
  <2>1. (CHOOSE i \in places : TRUE) \in 1..Len(waiters)
    BY <1>2
  <2> QED BY <1>2, <2>1, RemovedTyped DEF Without
<1> QED BY <1>1, <1>2

LEMMA HeadTyped ==
  ASSUME NEW q \in Seq(Callers), q # <<>>
  PROVE  Head(q) \in Callers
  OBVIOUS

CallsOK ==
    /\ pc \in [Callers -> Points]
    /\ url \in [Callers -> Urls \cup {None}]
    /\ holds \in [Callers -> Docs \cup {None}]
LockOK ==
    /\ holder \in Callers \cup {None}
    /\ waiters \in Seq(Callers)
    /\ woken \subseteq Callers
DocsOK ==
    /\ documents \in [Urls -> Docs \cup {None}]
    /\ doc \in [Docs -> DocStates]

\* A caller in the queue of the lock knows its url, and one that loads its document
Underway ==
    \A c \in Callers :
        /\ pc[c] \in {"waiting", "constructing", "loading"} => url[c] \in Urls
        /\ pc[c] = "loading" => holds[c] \in Docs

TypeInv == TypeOK /\ Underway

LEMMA TypeParts ==
    TypeOK <=> /\ CallsOK /\ LockOK /\ DocsOK
               /\ cache \in Callers \cup {None} /\ created \in BOOLEAN
  BY DEF TypeOK, CallsOK, LockOK, DocsOK

LEMMA Moved ==
  ASSUME CallsOK, Underway, NEW c \in Callers, NEW p \in Points,
         NEW u \in Urls \cup {None}, NEW d \in Docs \cup {None}, Move(c, p, u, d),
         p \in {"waiting", "constructing", "loading"} => u \in Urls,
         p = "loading" => d \in Docs
  PROVE  CallsOK' /\ Underway'
  BY DEF CallsOK, Underway, Move

LEMMA Queued ==
  ASSUME NEW q \in Seq(Callers), WakeFirst(q)
  PROVE  LockOK'
<1>1. CASE q = <<>>
  BY <1>1 DEF WakeFirst, LockOK
<1>2. CASE q # <<>>
  BY <1>2, HeadTyped DEF WakeFirst, LockOK
<1> QED BY <1>1, <1>2

LEMMA Taken ==
  ASSUME LockOK, NEW c \in Callers, Take(c)
  PROVE  LockOK'
  BY WithoutTyped DEF Take, LockOK

LEMMA Documented ==
  ASSUME CallsOK, Underway, DocsOK, NEW c \in Callers, NEW u \in Urls, Document(c, u)
  PROVE  CallsOK' /\ Underway' /\ DocsOK'
<1>1. CASE documents[u] # None /\ Move(c, "ready", u, documents[u]) /\ UNCHANGED docVars
  <2>1. documents[u] \in Docs \cup {None}
    BY DEF DocsOK
  <2>2. CallsOK' /\ Underway'
    BY <1>1, <2>1, Moved DEF Points
  <2> QED BY <1>1, <2>2 DEF DocsOK, docVars
<1>2. ASSUME NEW d \in Docs, First(d, Unreferenced), doc' = [doc EXCEPT ![d] = "new"],
             Move(c, "loading", u, d), UNCHANGED documents
      PROVE  CallsOK' /\ Underway' /\ DocsOK'
  <2>1. CallsOK' /\ Underway'
    BY <1>2, Moved DEF Points
  <2>2. DocsOK'
    BY <1>2 DEF DocsOK, DocStates
  <2> QED BY <2>1, <2>2
<1> QED BY <1>1, <1>2 DEF Document

LEMMA TypeInit == Init => TypeInv
<1> SUFFICES ASSUME Init PROVE TypeInv
  OBVIOUS
<1>1. CallsOK /\ Underway
  BY DEF Init, CallsOK, Underway, Points
<1>2. LockOK
  <2>1. <<>> \in Seq(Callers)
    OBVIOUS
  <2> QED BY <2>1 DEF Init, LockOK
<1>3. DocsOK
  BY DEF Init, DocsOK, DocStates
<1> QED BY <1>1, <1>2, <1>3, TypeParts DEF Init, TypeInv

LEMMA TypeNext == TypeInv /\ [Next]_vars => TypeInv'
<1> SUFFICES ASSUME TypeInv, [Next]_vars PROVE TypeInv'
  OBVIOUS
<1> USE DEF TypeInv
<1>0. /\ CallsOK /\ LockOK /\ DocsOK /\ Underway
      /\ cache \in Callers \cup {None} /\ created \in BOOLEAN
  BY TypeParts
<1> SUFFICES /\ CallsOK' /\ LockOK' /\ DocsOK' /\ Underway'
             /\ (cache \in Callers \cup {None})' /\ (created \in BOOLEAN)'
  BY DEF TypeOK, CallsOK, LockOK, DocsOK
<1> HIDE DEF TypeInv
<1>idle. ASSUME NEW c \in Callers, Move(c, "idle", None, None)
         PROVE  CallsOK' /\ Underway'
  BY <1>0, <1>idle, Moved DEF Points
<1>docs. ASSUME UNCHANGED docVars PROVE DocsOK'
  BY <1>0, <1>docs DEF DocsOK, docVars
<1>lock. ASSUME UNCHANGED <<holder, waiters, woken>> PROVE LockOK'
  BY <1>0, <1>lock DEF LockOK
<1>1. ASSUME NEW c \in Callers, NEW u \in Urls, Setup(c, u)
      PROVE  /\ CallsOK' /\ LockOK' /\ DocsOK' /\ Underway'
             /\ (cache \in Callers \cup {None})' /\ (created \in BOOLEAN)'
  <2>1. CASE Document(c, u) /\ UNCHANGED lockVars
    BY <1>0, <1>1, <1>lock, <2>1, Documented DEF Setup, lockVars
  <2>2. CASE AskForCache(c, u)
    <3>1. CASE Take(c) /\ Construct(c, u)
      BY <1>0, <1>1, <1>docs, <2>2, <3>1, Taken, Moved DEF Construct, Points, Setup, AskForCache
    <3>2. CASE /\ waiters' = Append(waiters, c) /\ Move(c, "waiting", u, None)
               /\ UNCHANGED <<holder, woken, docVars>>
      <4>1. LockOK'
        BY <1>0, <3>2 DEF LockOK
      <4> QED BY <1>0, <1>1, <1>docs, <2>2, <3>2, <4>1, Moved DEF Points, Setup, AskForCache
    <3> QED BY <2>2, <3>1, <3>2 DEF AskForCache
  <2> QED BY <1>1, <2>1, <2>2 DEF Setup
<1>2. ASSUME NEW c \in Callers, Woken(c)
      PROVE  /\ CallsOK' /\ LockOK' /\ DocsOK' /\ Underway'
             /\ (cache \in Callers \cup {None})' /\ (created \in BOOLEAN)'
  <2>0. url[c] \in Urls
    BY <1>0, <1>2 DEF Woken, Underway
  <2>1. CASE Take(c) /\ Construct(c, url[c])
    BY <1>0, <1>2, <1>docs, <2>0, <2>1, Taken, Moved DEF Construct, Points, Woken
  <2>2. CASE WakeFirst(Without(c)) /\ Document(c, url[c])
    BY <1>0, <1>2, <2>0, <2>2, WithoutTyped, Queued, Documented DEF Woken, LockOK
  <2> QED BY <1>2, <2>1, <2>2 DEF Woken
<1>3. ASSUME NEW c \in Callers, Constructed(c)
      PROVE  /\ CallsOK' /\ LockOK' /\ DocsOK' /\ Underway'
             /\ (cache \in Callers \cup {None})' /\ (created \in BOOLEAN)'
  <2>0. url[c] \in Urls
    BY <1>0, <1>3 DEF Constructed, Underway
  <2> QED BY <1>0, <1>3, <2>0, Queued, Documented DEF Constructed, LockOK
<1>4. ASSUME NEW c \in Callers, ConstructFails(c)
      PROVE  /\ CallsOK' /\ LockOK' /\ DocsOK' /\ Underway'
             /\ (cache \in Callers \cup {None})' /\ (created \in BOOLEAN)'
  BY <1>0, <1>4, <1>idle, <1>docs, Queued DEF ConstructFails, LockOK
<1>5. ASSUME NEW c \in Callers, Loaded(c)
      PROVE  /\ CallsOK' /\ LockOK' /\ DocsOK' /\ Underway'
             /\ (cache \in Callers \cup {None})' /\ (created \in BOOLEAN)'
  <2>1. CallsOK' /\ Underway'
    BY <1>0, <1>5 DEF Loaded, CallsOK, Underway, Points
  <2>2. DocsOK'
    BY <1>0, <1>5 DEF Loaded, CallsOK, DocsOK
  <2> QED BY <1>0, <1>5, <1>lock, <2>1, <2>2 DEF Loaded, lockVars
<1>6. ASSUME NEW c \in Callers, LoadFails(c) \/ Dropped(c)
      PROVE  /\ CallsOK' /\ LockOK' /\ DocsOK' /\ Underway'
             /\ (cache \in Callers \cup {None})' /\ (created \in BOOLEAN)'
  BY <1>0, <1>6, <1>idle, <1>docs, <1>lock DEF LoadFails, Dropped, lockVars
<1>7. ASSUME NEW c \in Callers, Cancelled(c)
      PROVE  /\ CallsOK' /\ LockOK' /\ DocsOK' /\ Underway'
             /\ (cache \in Callers \cup {None})' /\ (created \in BOOLEAN)'
  <2>1. LockOK'
    BY <1>0, <1>7, <1>lock, WithoutTyped, Queued DEF Cancelled, LockOK
  <2>2. DocsOK'
    BY <1>0, <1>7 DEF Cancelled, DocsOK, DocStates
  <2> QED BY <1>0, <1>7, <1>idle, <2>1, <2>2 DEF Cancelled
<1>8. ASSUME NEW d \in Docs, Thread(d)
      PROVE  /\ CallsOK' /\ LockOK' /\ DocsOK' /\ Underway'
             /\ (cache \in Callers \cup {None})' /\ (created \in BOOLEAN)'
  <2>1. DocsOK'
    BY <1>0, <1>8 DEF Thread, Override, OriginalLoad, ThreadFails, DocsOK, DocStates
  <2>2. UNCHANGED <<cache, lockVars, documents, callVars>>
    BY <1>8 DEF Thread, Override, OriginalLoad, ThreadFails
  <2>3. CallsOK' /\ Underway'
    BY <1>0, <2>2 DEF CallsOK, Underway, callVars
  <2> QED BY <1>0, <1>lock, <2>1, <2>2, <2>3 DEF lockVars
<1>9. CASE UNCHANGED vars
  <2>1. CallsOK' /\ Underway'
    BY <1>0, <1>9 DEF CallsOK, Underway, vars, callVars
  <2> QED BY <1>0, <1>9, <1>lock, <1>docs, <2>1 DEF vars, lockVars
<1> QED BY <1>1, <1>2, <1>3, <1>4, <1>5, <1>6, <1>7, <1>8, <1>9 DEF Next, Step

\* Type correctness for any number of callers, documents and urls.
THEOREM SetupTyped == Spec => []TypeOK
<1>1. TypeInv => TypeOK
  BY DEF TypeInv
<1> QED BY <1>1, TypeInit, TypeNext, PTL DEF Spec

-----------------------------------------------------------------------------
(* The sqlite cache.  Who builds it holds the lock, and while somebody in the *)
(* queue of the lock is woken, nobody does.                                   *)

BuildsAlone ==
    \A c \in Callers : pc[c] = "constructing" => holder = c /\ cache = None
WokenAlone ==
    /\ woken # {} => holder = None /\ waiters # <<>>
    /\ \A c, d \in woken : c = d
LockInv == TypeInv /\ BuildsAlone /\ WokenAlone

LEMMA LockNext == LockInv /\ [Next]_vars => LockInv' /\ (cache # None => cache' = cache)
<1> SUFFICES ASSUME LockInv, [Next]_vars
             PROVE  LockInv' /\ (cache # None => cache' = cache)
  OBVIOUS
<1>0. /\ CallsOK /\ LockOK /\ BuildsAlone /\ WokenAlone /\ TypeInv'
      /\ None \notin Callers
  BY TypeNext, TypeParts, SetupAssumption DEF LockInv, TypeInv
<1> SUFFICES BuildsAlone' /\ WokenAlone' /\ (cache # None => cache' = cache)
  BY <1>0 DEF LockInv
<1>wake. ASSUME NEW q, WakeFirst(q) PROVE WokenAlone'
  BY <1>wake DEF WakeFirst, WokenAlone
\* What does not start or end a construction does not disturb it
<1>rest. ASSUME UNCHANGED <<cache, holder>>,
                \A c \in Callers : pc'[c] = "constructing" => pc[c] = "constructing"
         PROVE  BuildsAlone' /\ (cache # None => cache' = cache)
  BY <1>0, <1>rest DEF BuildsAlone
<1>alone. ASSUME UNCHANGED <<holder, waiters, woken>> PROVE WokenAlone'
  BY <1>0, <1>alone DEF WokenAlone
<1>moved. ASSUME NEW c \in Callers, NEW p, NEW u, NEW d, Move(c, p, u, d)
          PROVE  pc'[c] = p /\ \A e \in Callers : e # c => pc'[e] = pc[e]
  BY <1>0, <1>moved DEF Move, CallsOK
<1>doc. ASSUME NEW c \in Callers, NEW u, Document(c, u)
        PROVE  /\ pc'[c] # "constructing"
               /\ \A e \in Callers : e # c => pc'[e] = pc[e]
  BY <1>doc, <1>moved DEF Document
\* The lock is free: nobody builds the cache, and the caller that takes it may
<1>take. ASSUME NEW c \in Callers, NEW u, holder = None, cache = None, UNCHANGED cache,
                woken \subseteq {c}, Take(c), Construct(c, u)
         PROVE  BuildsAlone' /\ WokenAlone' /\ (cache # None => cache' = cache)
  <2>1. pc'[c] = "constructing" /\ \A e \in Callers : e # c => pc'[e] = pc[e]
    BY <1>take, <1>moved DEF Construct
  <2>2. \A e \in Callers : pc[e] # "constructing"
    BY <1>0, <1>take DEF BuildsAlone
  <2> QED BY <1>take, <2>1, <2>2 DEF BuildsAlone, WokenAlone, Take
<1>1. ASSUME NEW c \in Callers, NEW u \in Urls, Setup(c, u)
      PROVE  BuildsAlone' /\ WokenAlone' /\ (cache # None => cache' = cache)
  <2>1. CASE Document(c, u) /\ UNCHANGED lockVars
    BY <1>1, <1>rest, <1>alone, <1>doc, <2>1 DEF Setup, lockVars
  <2>2. CASE AskForCache(c, u)
    <3>1. CASE holder = None /\ waiters = <<>> /\ Take(c) /\ Construct(c, u)
      <4>1. woken = {}
        BY <1>0, <3>1 DEF WokenAlone
      <4> QED BY <1>1, <1>take, <2>2, <3>1, <4>1 DEF Setup, AskForCache
    <3>2. CASE /\ waiters' = Append(waiters, c) /\ Move(c, "waiting", u, None)
               /\ UNCHANGED <<holder, woken, docVars>>
      <4>1. Append(waiters, c) # <<>>
        BY <1>0 DEF LockOK
      <4>2. WokenAlone'
        BY <1>0, <3>2, <4>1 DEF WokenAlone
      <4> QED BY <1>1, <1>rest, <1>moved, <3>2, <4>2 DEF Setup
    <3> QED BY <2>2, <3>1, <3>2 DEF AskForCache
  <2> QED BY <1>1, <2>1, <2>2 DEF Setup
<1>2. ASSUME NEW c \in Callers, Woken(c)
      PROVE  BuildsAlone' /\ WokenAlone' /\ (cache # None => cache' = cache)
  <2>0. holder = None /\ woken \subseteq {c}
    BY <1>0, <1>2 DEF Woken, WokenAlone
  <2>1. CASE cache = None /\ Take(c) /\ Construct(c, url[c])
    BY <1>2, <1>take, <2>0, <2>1 DEF Woken
  <2>2. CASE WakeFirst(Without(c)) /\ Document(c, url[c])
    <3>1. UNCHANGED <<cache, holder>>
      BY <1>2, <2>0, <2>2 DEF Woken, WakeFirst
    <3> QED BY <1>rest, <1>wake, <1>doc, <2>2, <3>1
  <2> QED BY <1>2, <2>1, <2>2 DEF Woken
\* The one construction ends
<1>ends. ASSUME NEW c \in Callers, holder = c \/ holder = None, pc'[c] # "constructing",
                \A e \in Callers : e # c => pc'[e] = pc[e]
         PROVE  BuildsAlone'
  BY <1>0, <1>ends DEF BuildsAlone
<1>3. ASSUME NEW c \in Callers, Constructed(c)
      PROVE  BuildsAlone' /\ WokenAlone' /\ (cache # None => cache' = cache)
  <2>1. holder = c /\ cache = None
    BY <1>0, <1>3 DEF Constructed, BuildsAlone
  <2>2. BuildsAlone'
    BY <1>3, <1>doc, <1>ends, <2>1 DEF Constructed
  <2> QED BY <1>3, <1>wake, <2>1, <2>2 DEF Constructed
<1>4. ASSUME NEW c \in Callers, ConstructFails(c)
      PROVE  BuildsAlone' /\ WokenAlone' /\ (cache # None => cache' = cache)
  <2>1. holder = c
    BY <1>0, <1>4 DEF ConstructFails, BuildsAlone
  <2>2. BuildsAlone'
    BY <1>4, <1>moved, <1>ends, <2>1 DEF ConstructFails
  <2> QED BY <1>4, <1>wake, <2>2 DEF ConstructFails
<1>5. ASSUME NEW c \in Callers, Loaded(c)
      PROVE  BuildsAlone' /\ WokenAlone' /\ (cache # None => cache' = cache)
  <2>1. \A e \in Callers : pc'[e] = "constructing" => pc[e] = "constructing"
    BY <1>0, <1>5 DEF Loaded, CallsOK
  <2> QED BY <1>5, <1>rest, <1>alone, <2>1 DEF Loaded, lockVars
<1>6. ASSUME NEW c \in Callers, LoadFails(c) \/ Dropped(c)
      PROVE  BuildsAlone' /\ WokenAlone' /\ (cache # None => cache' = cache)
  <2>1. \A e \in Callers : pc'[e] = "constructing" => pc[e] = "constructing"
    BY <1>6, <1>moved DEF LoadFails, Dropped
  <2> QED BY <1>6, <1>rest, <1>alone, <2>1 DEF LoadFails, Dropped, lockVars
<1>7. ASSUME NEW c \in Callers, Cancelled(c)
      PROVE  BuildsAlone' /\ WokenAlone' /\ (cache # None => cache' = cache)
  <2>0. /\ pc'[c] = "idle" /\ \A e \in Callers : e # c => pc'[e] = pc[e]
        /\ UNCHANGED cache
    BY <1>7, <1>moved DEF Cancelled
  <2>1. CASE (holder = c \/ holder = None) /\ WakeFirst(Without(c))
    BY <1>wake, <1>ends, <2>0, <2>1
  <2>2. CASE holder # None /\ UNCHANGED <<holder, woken>>
    <3>1. woken' = {}
      BY <1>0, <2>2 DEF WokenAlone
    <3>2. WokenAlone'
      BY <3>1 DEF WokenAlone
    <3> QED BY <1>rest, <2>0, <2>2, <3>2
  <2>3. CASE UNCHANGED <<holder, waiters, woken>>
    BY <1>rest, <1>alone, <2>0, <2>3
  <2> QED BY <1>7, <2>1, <2>2, <2>3 DEF Cancelled
<1>8. ASSUME NEW d \in Docs, Thread(d)
      PROVE  BuildsAlone' /\ WokenAlone' /\ (cache # None => cache' = cache)
  <2>1. UNCHANGED <<cache, lockVars, pc>>
    BY <1>8 DEF Thread, Override, OriginalLoad, ThreadFails, callVars
  <2> QED BY <1>rest, <1>alone, <2>1 DEF lockVars
<1>9. CASE UNCHANGED vars
  BY <1>rest, <1>alone, <1>9 DEF vars, lockVars, callVars
<1> QED BY <1>1, <1>2, <1>3, <1>4, <1>5, <1>6, <1>7, <1>8, <1>9 DEF Next, Step

LEMMA LockInit == Init => LockInv
<1> SUFFICES ASSUME Init PROVE LockInv
  OBVIOUS
<1>1. BuildsAlone /\ WokenAlone
  BY DEF Init, BuildsAlone, WokenAlone
<1> QED BY <1>1, TypeInit DEF LockInv

\* At most one caller builds the cache, and only while there is none, whoever fails
\* or is cancelled, for any number of callers in the queue of the lock.
THEOREM CacheBuiltOnce == Spec => []BuiltOnce
<1>1. LockInv => BuiltOnce
  BY SetupAssumption DEF LockInv, TypeInv, BuildsAlone, BuiltOnce
<1>2. LockInv /\ [Next]_vars => LockInv'
  BY LockNext
<1> QED BY <1>1, <1>2, LockInit, PTL DEF Spec

\* The cache that the first services were given is never replaced.
THEOREM CacheNeverReplaced == Spec => CacheKept
<1>1. LockInv /\ [Next]_vars => LockInv' /\ [cache # None => cache' = cache]_vars
  BY LockNext
<1> QED BY <1>1, LockInit, PTL DEF Spec, CacheKept

-----------------------------------------------------------------------------
(* The documents.  Until its load is over a document is known to one caller *)
(* only, and what services use or the cache holds was loaded.               *)

CachedLoaded == \A u \in Urls : documents[u] # None => doc[documents[u]] = "loaded"
UsedLoaded ==
    \A c \in Callers : pc[c] = "ready" => holds[c] \in Docs /\ doc[holds[c]] = "loaded"
LoadedAlone ==
    \A c \in Callers : pc[c] = "loading" =>
        /\ \A u \in Urls : documents[u] # holds[c]
        /\ \A e \in Callers : e # c => holds[e] # holds[c]
HoldsNothing ==
    \A c \in Callers : pc[c] \notin {"loading", "ready"} => holds[c] = None
NonePlain == \A d \in Docs : doc[d] # "plainloaded"

DocInv ==
    TypeInv /\ CachedLoaded /\ UsedLoaded /\ LoadedAlone /\ HoldsNothing /\ NonePlain

LEMMA DocInit == Init => DocInv
<1> SUFFICES ASSUME Init PROVE DocInv
  OBVIOUS
<1>1. CachedLoaded /\ UsedLoaded /\ LoadedAlone /\ HoldsNothing /\ NonePlain
  BY DEF Init, CachedLoaded, UsedLoaded, LoadedAlone, HoldsNothing, NonePlain
<1> QED BY <1>1, TypeInit DEF DocInv

LEMMA DocNext == DocInv /\ [Next]_vars => DocInv'
<1> SUFFICES ASSUME DocInv, [Next]_vars PROVE DocInv'
  OBVIOUS
<1>0. /\ CallsOK /\ DocsOK /\ Underway /\ TypeInv'
      /\ CachedLoaded /\ UsedLoaded /\ LoadedAlone /\ HoldsNothing /\ NonePlain
      /\ None \notin Docs
  BY TypeNext, TypeParts, SetupAssumption DEF DocInv, TypeInv
<1> DEFINE Kept ==
      CachedLoaded' /\ UsedLoaded' /\ LoadedAlone' /\ HoldsNothing' /\ NonePlain'
<1> SUFFICES Kept
  BY <1>0 DEF DocInv
<1> USE DEF CachedLoaded, UsedLoaded, LoadedAlone, HoldsNothing, NonePlain
\* A caller goes where it holds no document
<1>leave. ASSUME NEW c \in Callers, NEW p \in {"idle", "waiting", "constructing"}, NEW u,
                 Move(c, p, u, None), UNCHANGED docVars
          PROVE  Kept
  <2>1. /\ pc'[c] = p /\ holds'[c] = None
        /\ \A e \in Callers : e # c => pc'[e] = pc[e] /\ holds'[e] = holds[e]
    BY <1>0, <1>leave DEF Move, CallsOK
  <2>2. CachedLoaded' /\ UsedLoaded' /\ HoldsNothing' /\ NonePlain'
    BY <1>0, <1>leave, <2>1 DEF docVars
  <2>3. \A e \in Callers : pc[e] = "loading" => holds[e] # None
    BY <1>0 DEF Underway
  <2>4. LoadedAlone'
    BY <1>0, <1>leave, <2>1, <2>3 DEF docVars
  <2> QED BY <2>2, <2>4
<1>same. ASSUME UNCHANGED docVars, UNCHANGED callVars PROVE Kept
  BY <1>0, <1>same DEF docVars, callVars
<1>doc. ASSUME NEW c \in Callers, NEW u \in Urls, pc[c] # "loading", pc[c] # "ready",
               Document(c, u)
        PROVE  Kept
  <2>1. CASE documents[u] # None /\ Move(c, "ready", u, documents[u]) /\ UNCHANGED docVars
    <3>1. documents[u] \in Docs /\ doc[documents[u]] = "loaded"
      BY <1>0, <2>1 DEF DocsOK
    <3> QED BY <1>0, <2>1, <3>1 DEF Move, CallsOK, docVars
  <2>2. ASSUME NEW d \in Docs, First(d, Unreferenced), doc' = [doc EXCEPT ![d] = "new"],
               Move(c, "loading", u, d), UNCHANGED documents
        PROVE  Kept
    <3>1. /\ \A w \in Urls : documents[w] # d
          /\ \A e \in Callers : holds[e] # d
      BY <2>2 DEF First, Unreferenced
    <3>2. /\ pc'[c] = "loading" /\ holds'[c] = d
          /\ \A e \in Callers : e # c => pc'[e] = pc[e] /\ holds'[e] = holds[e]
      BY <1>0, <2>2 DEF Move, CallsOK
    <3>3. doc'[d] = "new" /\ \A x \in Docs : x # d => doc'[x] = doc[x]
      BY <1>0, <2>2 DEF DocsOK
    <3>4. CachedLoaded' /\ NonePlain'
      BY <1>0, <2>2, <3>1, <3>3 DEF DocsOK
    <3>5. UsedLoaded' /\ HoldsNothing'
      BY <1>0, <3>1, <3>2, <3>3
    <3>6. LoadedAlone'
      BY <1>0, <2>2, <3>1, <3>2
    <3> QED BY <3>4, <3>5, <3>6
  <2> QED BY <1>doc, <2>1, <2>2 DEF Document
<1>1. ASSUME NEW c \in Callers, NEW u \in Urls, Setup(c, u) PROVE Kept
  <2>1. CASE Document(c, u)
    BY <1>1, <1>doc, <2>1 DEF Setup
  <2>2. CASE Construct(c, u)
    BY <1>leave, <2>2 DEF Construct
  <2>3. CASE Move(c, "waiting", u, None) /\ UNCHANGED docVars
    BY <1>leave, <2>3
  <2> QED BY <1>1, <2>1, <2>2, <2>3 DEF Setup, AskForCache
<1>2. ASSUME NEW c \in Callers, Woken(c) PROVE Kept
  <2>1. CASE Document(c, url[c])
    BY <1>0, <1>2, <1>doc, <2>1 DEF Woken, Underway
  <2>2. CASE Construct(c, url[c])
    BY <1>leave, <2>2 DEF Construct
  <2> QED BY <1>2, <2>1, <2>2 DEF Woken
<1>3. ASSUME NEW c \in Callers, Constructed(c) PROVE Kept
  BY <1>0, <1>3, <1>doc DEF Constructed, Underway
<1>4. ASSUME NEW c \in Callers, ConstructFails(c) \/ LoadFails(c) \/ Dropped(c) PROVE Kept
  BY <1>4, <1>leave DEF ConstructFails, LoadFails, Dropped
<1>5. ASSUME NEW c \in Callers, Loaded(c) PROVE Kept
  <2>1. /\ holds[c] \in Docs /\ url[c] \in Urls /\ doc[holds[c]] = "loaded"
    BY <1>0, <1>5 DEF Loaded, Underway
  <2>2. /\ documents'[url[c]] = holds[c]
        /\ \A u \in Urls : u # url[c] => documents'[u] = documents[u]
    BY <1>0, <1>5, <2>1 DEF Loaded, DocsOK
  <2>3. pc'[c] = "ready" /\ \A e \in Callers : e # c => pc'[e] = pc[e]
    BY <1>0, <1>5 DEF Loaded, CallsOK
  <2>4. UNCHANGED <<doc, holds>>
    BY <1>5 DEF Loaded
  <2>5. CachedLoaded' /\ NonePlain'
    BY <1>0, <2>1, <2>2, <2>4
  <2>6. UsedLoaded' /\ HoldsNothing'
    BY <1>0, <2>1, <2>3, <2>4
  <2>7. LoadedAlone'
    BY <1>0, <1>5, <2>1, <2>2, <2>3, <2>4 DEF Loaded
  <2> QED BY <2>5, <2>6, <2>7
<1>6. ASSUME NEW c \in Callers, Cancelled(c) PROVE Kept
  <2>1. /\ pc'[c] = "idle" /\ holds'[c] = None
        /\ \A e \in Callers : e # c => pc'[e] = pc[e] /\ holds'[e] = holds[e]
    BY <1>0, <1>6 DEF Cancelled, Move, CallsOK
  <2>2. /\ UNCHANGED documents
        /\ \A d \in Docs : doc'[d] = IF d = holds[c] THEN "free" ELSE doc[d]
    BY <1>6 DEF Cancelled
  <2>3. pc[c] = "loading" \/ holds[c] = None
    BY <1>0, <1>6 DEF Cancelled
  <2>4. /\ \A u \in Urls : documents[u] # None => documents[u] # holds[c]
        /\ \A e \in Callers : e # c /\ holds[e] # None => holds[e] # holds[c]
    BY <1>0, <2>3
  <2>5. CachedLoaded' /\ NonePlain'
    BY <1>0, <2>2, <2>4 DEF DocsOK
  <2>6. UsedLoaded' /\ HoldsNothing'
    BY <1>0, <2>1, <2>2, <2>4
  <2>7. LoadedAlone'
    <3>1. SUFFICES ASSUME NEW e \in Callers, pc'[e] = "loading"
                   PROVE  /\ \A u \in Urls : documents'[u] # holds'[e]
                          /\ \A f \in Callers : f # e => holds'[f] # holds'[e]
      OBVIOUS
    <3>2. e # c /\ pc[e] = "loading" /\ holds[e] \in Docs
      BY <1>0, <2>1, <3>1 DEF Underway
    <3> QED BY <1>0, <2>1, <2>2, <3>2
  <2> QED BY <2>5, <2>6, <2>7
<1>7. ASSUME NEW d \in Docs, Thread(d) PROVE Kept
  <2>1. /\ doc[d] # "loaded" /\ doc'[d] # "plainloaded"
        /\ \A x \in Docs : x # d => doc'[x] = doc[x]
        /\ UNCHANGED documents /\ UNCHANGED callVars
    BY <1>0, <1>7 DEF Thread, Override, OriginalLoad, ThreadFails, DocsOK
  <2>2. CachedLoaded' /\ NonePlain'
    BY <1>0, <2>1 DEF DocsOK
  <2>3. UsedLoaded' /\ HoldsNothing' /\ LoadedAlone'
    BY <1>0, <2>1 DEF callVars
  <2> QED BY <2>2, <2>3
<1>8. CASE UNCHANGED vars
  BY <1>8, <1>same DEF vars
<1> QED BY <1>1, <1>2, <1>3, <1>4, <1>5, <1>6, <1>7, <1>8 DEF Next, Step

\* Every service that is set up reads a time of two-digit fields as the instant it
\* means and refuses a longer field, for any set of clocks and however the loads of
\* documents interleave.
THEOREM EveryTimeRead == Spec => []TimesRead
<1>1. DocInv => TimesRead
  BY LoadedReadsAll DEF DocInv, UsedLoaded, TimesRead
<1> QED BY <1>1, DocInit, DocNext, PTL DEF Spec

=============================================================================
