------------------------------ MODULE Snapshots ------------------------------
(***************************************************************************)
(* get_snapshot_uri() and get_snapshot() of onvif/client.py, with the url  *)
(* helpers of onvif/util.py: the snapshot addresses an ONVIFCamera keeps   *)
(* for each profile, and the one or two requests that fetch a picture.     *)
(*                                                                         *)
(* A url is a record of what the helpers look at: whether it has userinfo, *)
(* the host, the number of ":" parts after it, the keys of its query and   *)
(* whether it is spelled the way yarl writes it.                           *)
(***************************************************************************)
EXTENDS Naturals

CONSTANTS
    Callers,     \* coroutines that want a snapshot
    Profiles,
    Keys,        \* query keys
    Lower,       \* Keys -> Keys: the key in lower case
    Credentials, \* _CREDENTIAL_KEYS
    Advertised,  \* the urls that the camera may answer GetSnapshotUri with
    Bracketed,   \* the hosts that are IPv6 literals, in brackets
    Home,        \* the host the program connects to
    None,
    Unknown      \* _SENTINEL: nothing is kept for the profile

Url == [user : BOOLEAN, host : {a.host : a \in Advertised} \cup {Home}, colons : Nat,
        keys : SUBSET Keys, canonical : BOOLEAN]

ASSUME SnapshotAssumption ==
    /\ Credentials \subseteq Keys /\ Lower \in [Keys -> Keys]
    /\ Advertised \subseteq Url
    /\ \A k \in Credentials : Lower[k] = k
    /\ None \notin Url /\ Unknown \notin Url /\ None # Unknown
    /\ None \notin Profiles

VARIABLES
    nat_override,
    uris,    \* _snapshot_uris
    closed,  \* the session for snapshots is closed
    pc,      \* where each caller is suspended
    profile, \* the profile it asks for
    uri,     \* the address of that profile, as kept
    asked,   \* the url of its last request
    status,  \* the status of the last response
    result   \* how its last call ended

callVars == <<pc, profile, uri, asked, status, result>>
vars == <<nat_override, uris, closed, callVars>>

Points == {"idle", "lookup", "fetching", "reading"}
Results == {"none", "image", "nothing", "autherror", "error", "runtimeerror",
            "valueerror", "raised", "cancelled"}

TypeOK ==
    /\ nat_override \in BOOLEAN
    /\ uris \in [Profiles -> Url \cup {None, Unknown}]
    /\ closed \in BOOLEAN
    /\ pc \in [Callers -> Points]
    /\ profile \in [Callers -> Profiles \cup {None}]
    /\ uri \in [Callers -> Url \cup {None}]
    /\ asked \in [Callers -> Url \cup {None}]
    /\ status \in [Callers -> {0, 200, 401, 404}]
    /\ result \in [Callers -> Results]

-----------------------------------------------------------------------------
(* util.py *)

\* Slips: a part is dropped when there is one only, or when there are three
PartDropped(u) == [u EXCEPT !.colons = @ - 1]
PartKept(u) == [u EXCEPT !.colons = IF @ > 2 THEN @ - 1 ELSE @]

\* normalize_url(): of several ":" parts the last one is dropped, unless the host is
\* in brackets
Normalized(u) ==
    [u EXCEPT !.colons = IF u.host \notin Bracketed /\ @ > 1 THEN @ - 1 ELSE @]

\* replace_host_port(): the whole netloc is replaced
Replaced(u) == [u EXCEPT !.user = FALSE, !.host = Home, !.colons = 1]

\* rewrite_url()
Rewritten(u) == IF nat_override THEN Replaced(u) ELSE u

\* Slip: the whole query is dropped
QueryStripped(u) == [u EXCEPT !.user = FALSE, !.canonical = TRUE, !.keys = {}]

\* strip_user_pass_url(): the query loses each credential key it has, in every
\* spelling of it, and yarl spells the rest
Stripped(u) ==
    [u EXCEPT !.user = FALSE, !.canonical = TRUE,
              !.keys = {k \in @ : ~(Lower[k] \in Credentials /\ Lower[k] \in @)}]

\* aiohttp and yarl can parse it
WellFormed(u) == u.colons <= 1

-----------------------------------------------------------------------------
Finish(c, outcome) ==
    /\ pc' = [pc EXCEPT ![c] = "idle"]
    /\ result' = [result EXCEPT ![c] = outcome]
    /\ UNCHANGED asked

\* _try_snapshot_uri(): a closed session is a RuntimeError, which nobody handles; a
\* malformed url is a ClientError, whose handler fails to parse the url as well
Request(c, u) ==
    \/ closed /\ Finish(c, "runtimeerror")
    \/ ~closed /\ ~WellFormed(u) /\ Finish(c, "valueerror")
    \/ /\ ~closed /\ WellFormed(u)
       /\ pc' = [pc EXCEPT ![c] = "fetching"]
       /\ asked' = [asked EXCEPT ![c] = u]
       /\ result' = [result EXCEPT ![c] = "none"]

\* get_snapshot_uri() has returned u
Fetch(c, u) ==
    /\ uri' = [uri EXCEPT ![c] = u]
    /\ \/ u = None /\ Finish(c, "nothing")
       \/ u # None /\ Request(c, u)

\* Slip: a profile without an address counts as one nothing is known of
UnknownOrNone(p) == uris[p] \in {Unknown, None}

\* Nothing is kept for the profile
Missing(p) == uris[p] = Unknown

Get(c, p) ==
    /\ pc[c] = "idle"
    /\ profile' = [profile EXCEPT ![c] = p]
    /\ status' = [status EXCEPT ![c] = 0]
    /\ \/ /\ Missing(p)
          /\ pc' = [pc EXCEPT ![c] = "lookup"]
          /\ result' = [result EXCEPT ![c] = "none"]
          /\ UNCHANGED <<uri, asked>>
       \/ ~Missing(p) /\ Fetch(c, uris[p])
    /\ UNCHANGED <<uris, closed>>

Keep(c, u) ==
    /\ uris' = [uris EXCEPT ![profile[c]] = u]
    /\ Fetch(c, u)

\* GetSnapshotUri answers; a Fault, or an answer whose address is missing or no
\* string, is kept as None
LookedUp(c) ==
    /\ pc[c] = "lookup"
    /\ \/ \E a \in Advertised : Keep(c, Rewritten(Normalized(a)))
       \/ Keep(c, None)
    /\ UNCHANGED <<closed, profile, status>>

\* Any other error, also of create_media_service(), reaches the caller
LookupFails(c) ==
    /\ pc[c] = "lookup"
    /\ Finish(c, "raised")
    /\ UNCHANGED <<uris, closed, profile, uri, status>>

Responded(c) ==
    /\ pc[c] = "fetching"
    /\ \E code \in {200, 401, 404} : status' = [status EXCEPT ![c] = code]
    /\ pc' = [pc EXCEPT ![c] = "reading"]
    /\ UNCHANGED <<uris, closed, profile, uri, asked, result>>

\* handle_snapshot_errors(): a timeout or a ClientError, also while the body is read
FetchFails(c) ==
    /\ pc[c] \in {"fetching", "reading"}
    /\ Finish(c, "error")
    /\ UNCHANGED <<uris, closed, profile, uri, status>>

Conclude(c) ==
    Finish(c, CASE status[c] = 401 -> "autherror"
                [] status[c] < 300 -> "image"
                [] OTHER -> "nothing")

\* Slip: a refusal is final
ReadOnce(c) ==
    /\ pc[c] = "reading"
    /\ Conclude(c)
    /\ UNCHANGED <<uris, closed, profile, uri, status>>

\* The body is read.  A refused first request is repeated without the credentials
\* in its url, if that makes another url.
Read(c) ==
    LET again == status[c] = 401 /\ asked[c] = uri[c] /\ Stripped(uri[c]) # uri[c] IN
    /\ pc[c] = "reading"
    /\ \/ again /\ Request(c, Stripped(uri[c]))
       \/ ~again /\ Conclude(c)
    /\ UNCHANGED <<uris, closed, profile, uri, status>>

Cancelled(c) ==
    /\ pc[c] # "idle"
    /\ Finish(c, "cancelled")
    /\ UNCHANGED <<uris, closed, profile, uri, status>>

\* ONVIFCamera.close(), as far as the snapshots go
Close == ~closed /\ closed' = TRUE /\ UNCHANGED <<uris, callVars>>

Init ==
    /\ nat_override \in BOOLEAN
    /\ uris = [p \in Profiles |-> Unknown] /\ closed = FALSE
    /\ pc = [c \in Callers |-> "idle"]
    /\ profile = [c \in Callers |-> None]
    /\ uri = [c \in Callers |-> None] /\ asked = [c \in Callers |-> None]
    /\ status = [c \in Callers |-> 0]
    /\ result = [c \in Callers |-> "none"]

Step(c) ==
    \/ \E p \in Profiles : Get(c, p)
    \/ LookedUp(c) \/ LookupFails(c)
    \/ Responded(c) \/ FetchFails(c) \/ Read(c) \/ Cancelled(c)

Next == ((\E c \in Callers : Step(c)) \/ Close) /\ UNCHANGED nat_override

Spec == Init /\ [][Next]_vars

-----------------------------------------------------------------------------
(* Properties *)

\* However many lookups overlap and fail, what is kept for the profiles comes to
\* rest: an answer, also a negative one, is looked up again only by the callers
\* that were on their way when it came.
UrisSettle == <>[][UNCHANGED uris]_vars

\* ONVIFAuthError means that the camera refused the url stripped of its credentials:
\* what it refused last has no userinfo and none of _CREDENTIAL_KEYS as they are
\* written there, however many requests and lookups overlap.  A key in another
\* spelling, as User=, is left only if the address has none in lower case beside it.
AuthErrorEarned ==
    \A c \in Callers : result[c] = "autherror" =>
        /\ ~asked[c].user /\ asked[c].keys \cap Credentials = {}
        /\ \A k \in asked[c].keys : Lower[k] \in Credentials => Lower[k] \notin uri[c].keys

\* The first request and the second go to the host the profile's address names, or
\* to the NAT's, with every key of its query that is no credential.
Others(u) == {k \in u.keys : Lower[k] \notin Credentials}
AsksTheCamera ==
    \A c \in Callers : pc[c] \in {"fetching", "reading"} =>
        /\ asked[c].host = IF nat_override THEN Home ELSE uri[c].host
        /\ Others(asked[c]) = Others(uri[c])

\* A port given twice after a name or an IPv4 address does not keep a snapshot from
\* being fetched: a ValueError comes of an address with more ports than two, or of a
\* bracketed one with more than one, and never behind a NAT.
Irreparable(a) == a.colons > 2 \/ (a.host \in Bracketed /\ a.colons > 1)
DoubledPortServed ==
    \A c \in Callers : result[c] = "valueerror" =>
        ~nat_override /\ \E a \in Advertised : Irreparable(a) /\ uri[c] = Normalized(a)

=============================================================================
