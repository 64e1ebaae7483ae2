----------------------------- MODULE ServiceSetup -----------------------------
(***************************************************************************)
(* ONVIFService.setup() of onvif/client.py and what all services of the    *)
(* process share through it: the sqlite cache, built once under a lock     *)
(* that is itself created on first use, and the parsed documents, loaded   *)
(* in executor threads with the time types of onvif/types.py.              *)
(***************************************************************************)
EXTENDS Times, SequencesExt

CONSTANTS
    Callers,   \* coroutines that set up a service
    NoCache,   \* those whose service has no_cache
    Urls,      \* wsdl documents
    Docs,      \* identities of Document objects
    Clocks,    \* the clocks that answers of cameras may hold
    None

ASSUME SetupAssumption ==
    /\ NoCache \subseteq Callers /\ None \notin Callers \cup Docs \cup Urls
    /\ Docs \subseteq Nat
    /\ Clocks \subseteq [h : Nat, m : Nat, s : Nat]

VARIABLES
    cache,     \* _SHARED_SQLITE_CACHE, named by the caller that built it, or None
    created,   \* _SHARED_SQLITE_CACHE_LOCK is not None
    holder,    \* the caller that holds the lock, or None
    waiters,   \* external: the callers in the lock's queue
    woken,     \* external: those whose future is done
    documents, \* _DOCUMENT_CACHE
    doc,       \* the Document objects: how far their executor thread has come
    pc,        \* where each caller is suspended
    url,       \* the document its service needs
    holds      \* the Document it waits for, or that its service uses

lockVars == <<created, holder, waiters, woken>>
docVars == <<documents, doc>>
callVars == <<pc, url, holds>>
vars == <<cache, lockVars, docVars, callVars>>

\* "plainloaded" is what a slip produces: loaded without the time types
DocStates == {"free", "new", "typed", "loaded", "plainloaded", "failed"}
Points == {"idle", "waiting", "constructing", "loading", "ready"}

TypeOK ==
    /\ cache \in Callers \cup {None}
    /\ created \in BOOLEAN
    /\ holder \in Callers \cup {None}
    /\ waiters \in Seq(Callers)
    /\ woken \subseteq Callers
    /\ documents \in [Urls -> Docs \cup {None}]
    /\ doc \in [Docs -> DocStates]
    /\ pc \in [Callers -> Points]
    /\ url \in [Callers -> Urls \cup {None}]
    /\ holds \in [Callers -> Docs \cup {None}]

-----------------------------------------------------------------------------
(* External: asyncio.Lock, whose release wakes the first of its queue *)

\* A coroutine is in the queue at most once
Without(c) ==
    LET places == {i \in 1..Len(waiters) : waiters[i] = c}
    IN  IF places = {} THEN waiters ELSE RemoveAt(waiters, CHOOSE i \in places : TRUE)

\* The lock is free and its queue is what `queue' says
WakeFirst(queue) ==
    /\ holder' = None
    /\ waiters' = queue
    /\ woken' = IF queue = <<>> THEN {} ELSE {Head(queue)}

\* c takes the lock, at once or when it was woken
Take(c) ==
    /\ holder' = c
    /\ waiters' = Without(c)
    /\ woken' = woken \ {c}

-----------------------------------------------------------------------------
(* _cached_document() *)

Unreferenced ==
    {d \in Docs : /\ \A u \in Urls : documents[u] # d
                  /\ \A c \in Callers : holds[c] # d}
First(x, S) == x \in S /\ \A y \in S : x <= y

Move(c, point, u, d) ==
    /\ pc' = [pc EXCEPT ![c] = point]
    /\ url' = [url EXCEPT ![c] = u]
    /\ holds' = [holds EXCEPT ![c] = d]

\* Slip: the document is loaded for each service
LoadAgain(c, u) ==
    /\ \E d \in Docs : /\ First(d, Unreferenced)
                      /\ doc' = [doc EXCEPT ![d] = "new"]
                      /\ Move(c, "loading", u, d)
    /\ UNCHANGED documents

\* The document is in the cache, or a thread of the executor begins to load it
Document(c, u) ==
    \/ /\ documents[u] # None
       /\ Move(c, "ready", u, documents[u])
       /\ UNCHANGED docVars
    \/ /\ documents[u] = None
       /\ \E d \in Docs : /\ First(d, Unreferenced)
                         /\ doc' = [doc EXCEPT ![d] = "new"]
                         /\ Move(c, "loading", u, d)
       /\ UNCHANGED documents

\* The two time types are registered in the document's schema
Override(d) ==
    /\ doc[d] = "new"
    /\ doc' = [doc EXCEPT ![d] = "typed"]
    /\ UNCHANGED <<cache, lockVars, documents, callVars>>

\* Slip: the document is loaded before the types are registered
LoadUntyped(d) ==
    /\ doc[d] = "new"
    /\ doc' = [doc EXCEPT ![d] = "plainloaded"]
    /\ UNCHANGED <<cache, lockVars, documents, callVars>>

\* original_load(): what the document declares is bound to the types of its schema
OriginalLoad(d) ==
    /\ doc[d] = "typed"
    /\ doc' = [doc EXCEPT ![d] = "loaded"]
    /\ UNCHANGED <<cache, lockVars, documents, callVars>>

\* A file that is missing or is no document
ThreadFails(d) ==
    /\ doc[d] \in {"new", "typed"}
    /\ doc' = [doc EXCEPT ![d] = "failed"]
    /\ UNCHANGED <<cache, lockVars, documents, callVars>>

\* The coroutine that waits for the thread puts the document into the cache,
\* whatever is there
Loaded(c) ==
    /\ pc[c] = "loading" /\ doc[holds[c]] \in {"loaded", "plainloaded"}
    /\ documents' = [documents EXCEPT ![url[c]] = holds[c]]
    /\ pc' = [pc EXCEPT ![c] = "ready"]
    /\ UNCHANGED <<cache, lockVars, doc, url, holds>>

LoadFails(c) ==
    /\ pc[c] = "loading" /\ doc[holds[c]] = "failed"
    /\ Move(c, "idle", None, None)
    /\ UNCHANGED <<cache, lockVars, docVars>>

-----------------------------------------------------------------------------
(* _get_shared_sqlite_cache() *)

\* asyncio.to_thread(SqliteCache), under the lock
Construct(c, u) == Move(c, "constructing", u, None) /\ UNCHANGED docVars

\* Slips: the lock is not taken; the cache is built without a second look
ConstructUnlocked(c, u) ==
    /\ cache = None
    /\ created' = TRUE
    /\ Construct(c, u)
    /\ UNCHANGED <<holder, waiters, woken>>
ConstructUnchecked(c) ==
    /\ pc[c] = "waiting" /\ c \in woken
    /\ Take(c) /\ Construct(c, url[c])
    /\ UNCHANGED <<cache, created>>

\* The first look finds no cache: wait for the lock, or take it
AskForCache(c, u) ==
    /\ cache = None
    /\ created' = TRUE
    /\ \/ /\ holder = None /\ waiters = <<>>
          /\ Take(c) /\ Construct(c, u)
       \/ /\ holder # None \/ waiters # <<>>
          /\ waiters' = Append(waiters, c)
          /\ Move(c, "waiting", u, None)
          /\ UNCHANGED <<holder, woken, docVars>>

\* The second look, under the lock
Woken(c) ==
    /\ pc[c] = "waiting" /\ c \in woken
    /\ \/ /\ cache = None
          /\ Take(c) /\ Construct(c, url[c])
       \/ /\ cache # None
          /\ WakeFirst(Without(c))
          /\ Document(c, url[c])
    /\ UNCHANGED <<cache, created>>

\* Slip: to_thread() is not awaited, and its coroutine is stored
Unawaited(c) ==
    /\ pc[c] = "constructing"
    /\ cache' = "coroutine"
    /\ WakeFirst(waiters)
    /\ Document(c, url[c])
    /\ UNCHANGED created

Constructed(c) ==
    /\ pc[c] = "constructing"
    /\ cache' = c
    /\ WakeFirst(waiters)
    /\ Document(c, url[c])
    /\ UNCHANGED created

\* Slip: an exception leaves the lock taken
FailLocked(c) ==
    /\ pc[c] = "constructing"
    /\ Move(c, "idle", None, None)
    /\ UNCHANGED <<cache, lockVars, docVars>>

ConstructFails(c) ==
    /\ pc[c] = "constructing"
    /\ WakeFirst(waiters)
    /\ Move(c, "idle", None, None)
    /\ UNCHANGED <<cache, created, docVars>>

-----------------------------------------------------------------------------
(* ONVIFService.setup() *)

Setup(c, u) ==
    /\ pc[c] = "idle"
    /\ \/ /\ c \in NoCache \/ cache # None
          /\ Document(c, u)
          /\ UNCHANGED lockVars
       \/ c \notin NoCache /\ AskForCache(c, u)
    /\ UNCHANGED cache

\* CancelledError where the caller is suspended: async with releases the lock.  An
\* executor's thread goes on, but nobody sees its document, which is free here.
Cancelled(c) ==
    /\ pc[c] \in {"waiting", "constructing", "loading"}
    /\ Move(c, "idle", None, None)
    /\ \/ /\ holder = c \/ (pc[c] = "waiting" /\ holder = None)
          /\ WakeFirst(Without(c))
       \/ /\ pc[c] = "waiting" /\ holder # None
          /\ waiters' = Without(c)
          /\ UNCHANGED <<holder, woken>>
       \/ pc[c] = "loading" /\ UNCHANGED <<holder, waiters, woken>>
    /\ doc' = [d \in Docs |-> IF d = holds[c] THEN "free" ELSE doc[d]]
    /\ UNCHANGED <<cache, created, documents>>

\* The program drops the service
Dropped(c) ==
    /\ pc[c] = "ready"
    /\ Move(c, "idle", None, None)
    /\ UNCHANGED <<cache, lockVars, docVars>>

Init ==
    /\ cache = None /\ created = FALSE
    /\ holder = None /\ waiters = <<>> /\ woken = {}
    /\ documents = [u \in Urls |-> None]
    /\ doc = [d \in Docs |-> "free"]
    /\ pc = [c \in Callers |-> "idle"]
    /\ url = [c \in Callers |-> None]
    /\ holds = [c \in Callers |-> None]

Step(c) ==
    Woken(c) \/ Constructed(c) \/ ConstructFails(c) \/ Loaded(c) \/ LoadFails(c)
Thread(d) == Override(d) \/ OriginalLoad(d) \/ ThreadFails(d)

Next ==
    \/ \E c \in Callers :
          \/ \E u \in Urls : Setup(c, u)
          \/ Step(c) \/ Cancelled(c) \/ Dropped(c)
    \/ \E d \in Docs : Thread(d)

Spec == Init /\ [][Next]_vars

\* The event loop resumes who can go on, and the executor's threads come to an end
FairSpec ==
    Spec /\ (\A c \in Callers : WF_vars(Step(c))) /\ (\A d \in Docs : WF_vars(Thread(d)))

-----------------------------------------------------------------------------
(* Properties *)

\* "build exactly one SqliteCache instead of racing": at most one coroutine waits
\* for its construction, and only while there is none, whoever failed or was
\* cancelled in the queue of the lock before.
BuiltOnce ==
    \A c \in Callers : pc[c] = "constructing" =>
        cache = None /\ \A d \in Callers : pc[d] = "constructing" => d = c

\* The cache that the first services were given is never replaced by another.
CacheKept == [][cache # None => cache' = cache]_vars

\* No setup() is stuck in the queue of the lock, or elsewhere, because another one
\* failed or was cancelled.
SetupEnds ==
    \A c \in Callers : pc[c] \in {"waiting", "constructing", "loading"} ~> pc[c] \in {"ready", "idle"}

\* Although several coroutines may load one document, and the last one replaces
\* what the others cached, each url is left with one document for good.
DocumentsSettle == <>[][UNCHANGED documents]_vars

\* The readings of a document: by the types it was loaded with
Written ==
    [clock : Clocks, sep : {"T", " ", "-"}, stray : BOOLEAN, trailer : Trailers]
Read(state, v) == IF state = "loaded" THEN FastDateTime(v) ELSE DefaultDateTime(v)
ReadTime(state, clock) ==
    IF state = "loaded" THEN ForgivingTime(clock) ELSE DefaultTime(clock)

\* The texts that types.py repairs: two digits in each field, and a blank is one only
\* before the trailers whose lengths the code names
Repairable(v) ==
    /\ TwoDigits(v.clock)
    /\ Parses(v.clock) \/ v.sep # " " \/ v.trailer \in {"", "Z", ".ffffff"}

\* A reading is the instant meant, or a ValueError if the text cannot be repaired
ReadsAll ==
    [state \in DocStates |->
        /\ \A v \in Written :
              Read(state, v) = IF Repairable(v) THEN {Seconds(v.clock)} ELSE {}
        /\ \A clock \in Clocks :
              ReadTime(state, clock) =
                  IF TwoDigits(clock) THEN {Seconds(clock) % Day} ELSE {}]

\* Whichever of the documents a service was given, and whoever loaded it, the
\* service reads every time of two-digit fields that a camera writes as the instant
\* it means, also one beyond 23:59:59, and nothing as another instant: what it cannot
\* read, as 999:00:00, is a ValueError.
TimesRead == \A c \in Callers : pc[c] = "ready" => ReadsAll[doc[holds[c]]]

=============================================================================
