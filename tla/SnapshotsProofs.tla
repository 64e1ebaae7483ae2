--------------------------- MODULE SnapshotsProofs ---------------------------
(***************************************************************************)
(* What holds of Snapshots for any callers, profiles, addresses and query  *)
(* keys.                                                                   *)
(***************************************************************************)
EXTENDS Snapshots, TLAPS

-----------------------------------------------------------------------------
(* The url helpers: pure facts *)

LEMMA StrippedClean ==
  ASSUME NEW u \in Url
  PROVE  /\ Stripped(u) \in Url /\ ~Stripped(u).user
         /\ Stripped(u).keys \cap Credentials = {}
         /\ \A k \in Stripped(u).keys : Lower[k] \in Credentials => Lower[k] \notin u.keys
<1>1. /\ Stripped(u).user = FALSE
      /\ Stripped(u).keys =
            {k \in u.keys : ~(Lower[k] \in Credentials /\ Lower[k] \in u.keys)}
  BY DEF Stripped, Url
<1>2. Stripped(u) \in Url
  BY DEF Stripped, Url
<1> QED BY <1>1, <1>2, SnapshotAssumption

LEMMA StrippedAsks ==
  ASSUME NEW u \in Url
  PROVE  /\ Stripped(u).host = u.host /\ Stripped(u).colons = u.colons
         /\ Others(Stripped(u)) = Others(u)
  BY DEF Stripped, Url, Others

\* The addresses that the camera's answers can leave
Known == {Rewritten(Normalized(a)) : a \in Advertised}

LEMMA KnownAddress ==
  ASSUME NEW u \in Known
  PROVE  /\ u \in Url /\ u # None /\ u # Unknown
         /\ nat_override => u.host = Home /\ WellFormed(u)
         /\ ~WellFormed(u) => \E a \in Advertised : Irreparable(a) /\ u = Normalized(a)
<1>1. PICK a \in Advertised : u = Rewritten(Normalized(a))
  BY DEF Known
<1>2. a \in Url
  BY SnapshotAssumption
<1>3. /\ Normalized(a) \in Url
      /\ Normalized(a).colons =
             IF a.host \notin Bracketed /\ a.colons > 1 THEN a.colons - 1 ELSE a.colons
  BY <1>2 DEF Normalized, Url
<1>4. CASE nat_override
  <2>1. u = Replaced(Normalized(a))
    BY <1>1, <1>4 DEF Rewritten
  <2>2. u \in Url /\ u.host = Home /\ u.colons = 1
    BY <1>3, <2>1 DEF Replaced, Url
  <2> QED BY <2>2, SnapshotAssumption DEF WellFormed
<1>5. CASE ~nat_override
  <2>1. u = Normalized(a)
    BY <1>1, <1>5 DEF Rewritten
  <2>2. ~WellFormed(u) => Irreparable(a)
    BY <1>2, <1>3, <2>1 DEF WellFormed, Irreparable, Url
  <2> QED BY <1>3, <1>5, <2>1, <2>2, SnapshotAssumption
<1> QED BY <1>4, <1>5

-----------------------------------------------------------------------------
(* The inductive invariant: what a caller's position says of its urls, and  *)
(* its last result of the url that was asked.                               *)

Types ==
    /\ nat_override \in BOOLEAN /\ closed \in BOOLEAN
    /\ uris \in [Profiles -> Known \cup {None, Unknown}]
    /\ pc \in [Callers -> Points]
    /\ profile \in [Callers -> Profiles \cup {None}]
    /\ uri \in [Callers -> Known \cup {None}]
    /\ asked \in [Callers -> Url \cup {None}]
    /\ status \in [Callers -> {0, 200, 401, 404}]
    /\ result \in [Callers -> Results]

\* Of one caller: its position, profile, address, last url and result
Consistent(point, p, u, a, outcome) ==
    /\ point = "lookup" => p \in Profiles
    /\ point \in {"fetching", "reading"} =>
          u \in Known /\ WellFormed(u) /\ a \in {u, Stripped(u)}
    /\ outcome = "autherror" => u \in Known /\ a = Stripped(u)
    /\ outcome = "valueerror" => u \in Known /\ ~WellFormed(u)

Inv ==
    /\ Types
    /\ \A c \in Callers : Consistent(pc[c], profile[c], uri[c], asked[c], result[c])

LEMMA InvInit == Init => Inv
<1> SUFFICES ASSUME Init PROVE Inv
  OBVIOUS
<1>1. Types
  BY DEF Init, Types, Points, Results
<1>2. \A c \in Callers : Consistent(pc[c], profile[c], uri[c], asked[c], result[c])
  BY DEF Init, Consistent
<1> QED BY <1>1, <1>2 DEF Inv

\* What the steps of a caller are made of: how a call ends, and a request
LEMMA Finished ==
  ASSUME Types, NEW c \in Callers, NEW outcome \in Results, Finish(c, outcome)
  PROVE  /\ pc' \in [Callers -> Points] /\ asked' \in [Callers -> Url \cup {None}]
         /\ result' \in [Callers -> Results]
         /\ pc'[c] = "idle" /\ asked'[c] = asked[c] /\ result'[c] = outcome
         /\ \A e \in Callers :
               e # c => pc'[e] = pc[e] /\ asked'[e] = asked[e] /\ result'[e] = result[e]
  BY DEF Types, Finish, Points

LEMMA Requested ==
  ASSUME Types, NEW c \in Callers, NEW u \in Url, Request(c, u)
  PROVE  /\ pc' \in [Callers -> Points] /\ asked' \in [Callers -> Url \cup {None}]
         /\ result' \in [Callers -> Results]
         /\ \/ pc'[c] = "idle" /\ result'[c] = "runtimeerror"
            \/ pc'[c] = "idle" /\ result'[c] = "valueerror" /\ ~WellFormed(u)
            \/ /\ pc'[c] = "fetching" /\ asked'[c] = u /\ WellFormed(u)
               /\ result'[c] = "none"
         /\ \A e \in Callers :
               e # c => pc'[e] = pc[e] /\ asked'[e] = asked[e] /\ result'[e] = result[e]
<1>1. CASE Finish(c, "runtimeerror")
  BY <1>1, Finished DEF Results
<1>2. CASE ~WellFormed(u) /\ Finish(c, "valueerror")
  BY <1>2, Finished DEF Results
<1>3. CASE /\ WellFormed(u) /\ pc' = [pc EXCEPT ![c] = "fetching"]
           /\ asked' = [asked EXCEPT ![c] = u] /\ result' = [result EXCEPT ![c] = "none"]
  BY <1>3 DEF Types, Points, Results
<1> QED BY <1>1, <1>2, <1>3 DEF Request

\* get_snapshot_uri() has returned an address or none
LEMMA Fetched ==
  ASSUME Types, NEW c \in Callers, NEW u \in Known \cup {None}, Fetch(c, u)
  PROVE  /\ pc' \in [Callers -> Points] /\ asked' \in [Callers -> Url \cup {None}]
         /\ result' \in [Callers -> Results] /\ uri' \in [Callers -> Known \cup {None}]
         /\ Consistent(pc'[c], profile'[c], uri'[c], asked'[c], result'[c])
         /\ \A e \in Callers : e # c => /\ pc'[e] = pc[e] /\ asked'[e] = asked[e]
                                        /\ result'[e] = result[e] /\ uri'[e] = uri[e]
<1>1. /\ uri' \in [Callers -> Known \cup {None}] /\ uri'[c] = u
      /\ \A e \in Callers : e # c => uri'[e] = uri[e]
  BY DEF Fetch, Types
<1>2. CASE u = None
  BY <1>1, <1>2, Finished DEF Fetch, Consistent, Results
<1>3. CASE u # None
  <2>1. u \in Known /\ u \in Url /\ Request(c, u)
    BY <1>3, KnownAddress DEF Fetch
  <2> QED BY <1>1, <2>1, Requested DEF Consistent
<1> QED BY <1>2, <1>3

LEMMA InvNext == Inv /\ [Next]_vars => Inv'
<1> SUFFICES ASSUME Inv, [Next]_vars PROVE Inv'
  OBVIOUS
<1>0. Types /\ \A c \in Callers : Consistent(pc[c], profile[c], uri[c], asked[c], result[c])
  BY DEF Inv
<1>nat. UNCHANGED nat_override /\ Known' = Known
  BY DEF Next, vars, Known, Rewritten
\* One caller has moved, and what is left is consistent
<1>one. ASSUME NEW c \in Callers, UNCHANGED closed,
               uris' \in [Profiles -> Known \cup {None, Unknown}],
               pc' \in [Callers -> Points],
               profile' \in [Callers -> Profiles \cup {None}],
               uri' \in [Callers -> Known \cup {None}],
               asked' \in [Callers -> Url \cup {None}],
               status' \in [Callers -> {0, 200, 401, 404}],
               result' \in [Callers -> Results],
               Consistent(pc'[c], profile'[c], uri'[c], asked'[c], result'[c]),
               \A e \in Callers : e # c =>
                  /\ pc'[e] = pc[e] /\ profile'[e] = profile[e] /\ uri'[e] = uri[e]
                  /\ asked'[e] = asked[e] /\ result'[e] = result[e]
        PROVE  Inv'
  <2>1. Types'
    BY <1>0, <1>nat, <1>one DEF Types
  <2>2. ASSUME NEW e \in Callers
        PROVE  Consistent(pc'[e], profile'[e], uri'[e], asked'[e], result'[e])
    BY <1>0, <1>one
  <2>3. ASSUME NEW e \in Callers
        PROVE  Consistent(pc[e], profile[e], uri[e], asked[e], result[e])'
    BY <1>nat, <2>2 DEF Consistent
  <2> QED BY <2>1, <2>3 DEF Inv
<1>1. ASSUME NEW c \in Callers, NEW p \in Profiles, Get(c, p) PROVE Inv'
  <2>1. /\ profile' \in [Callers -> Profiles \cup {None}] /\ profile'[c] = p
        /\ \A e \in Callers : e # c => profile'[e] = profile[e]
        /\ status' \in [Callers -> {0, 200, 401, 404}]
        /\ UNCHANGED <<uris, closed>>
    BY <1>0, <1>1 DEF Get, Types
  <2>2. CASE Missing(p)
    <3>1. /\ pc' \in [Callers -> Points] /\ result' \in [Callers -> Results]
          /\ pc'[c] = "lookup" /\ result'[c] = "none" /\ UNCHANGED <<uri, asked>>
          /\ \A e \in Callers : e # c => pc'[e] = pc[e] /\ result'[e] = result[e]
      BY <1>0, <1>1, <2>2 DEF Get, Types, Points, Results
    <3>2. Consistent(pc'[c], profile'[c], uri'[c], asked'[c], result'[c])
      BY <2>1, <3>1 DEF Consistent
    <3> QED BY <1>0, <1>one, <2>1, <3>1, <3>2 DEF Types
  <2>3. CASE ~Missing(p)
    <3>1. uris[p] \in Known \cup {None} /\ Fetch(c, uris[p])
      BY <1>0, <1>1, <2>3 DEF Get, Missing, Types
    <3> QED BY <1>0, <1>one, <2>1, <3>1, Fetched DEF Types
  <2> QED BY <2>2, <2>3
<1>2. ASSUME NEW c \in Callers, LookedUp(c) PROVE Inv'
  <2>1. PICK u \in Known \cup {None} : Keep(c, u)
    BY <1>2 DEF LookedUp, Known
  <2>2. uris' \in [Profiles -> Known \cup {None, Unknown}]
    BY <1>0, <2>1 DEF Keep, Types
  <2> QED BY <1>0, <1>2, <1>one, <2>1, <2>2, Fetched DEF Keep, LookedUp, Types
\* A call ends whose outcome says nothing of its url
<1>over. ASSUME NEW c \in Callers, NEW outcome \in Results \ {"autherror", "valueerror"},
                Finish(c, outcome), UNCHANGED <<uris, closed, profile, uri, status>>
         PROVE  Inv'
  <2>1. Consistent(pc'[c], profile'[c], uri'[c], asked'[c], result'[c])
    BY <1>0, <1>over, Finished DEF Consistent
  <2> QED BY <1>0, <1>one, <1>over, <2>1, Finished DEF Types
<1>3. ASSUME NEW c \in Callers, LookupFails(c) \/ FetchFails(c) \/ Cancelled(c) PROVE Inv'
  BY <1>3, <1>over DEF LookupFails, FetchFails, Cancelled, Results
<1>4. ASSUME NEW c \in Callers, Responded(c) PROVE Inv'
  <2>1. /\ pc[c] = "fetching" /\ pc'[c] = "reading" /\ pc' \in [Callers -> Points]
        /\ \A e \in Callers : e # c => pc'[e] = pc[e]
        /\ status' \in [Callers -> {0, 200, 401, 404}]
        /\ UNCHANGED <<uris, closed, profile, uri, asked, result>>
    BY <1>0, <1>4 DEF Responded, Types, Points
  <2>2. Consistent(pc'[c], profile'[c], uri'[c], asked'[c], result'[c])
    BY <1>0, <2>1 DEF Consistent
  <2> QED BY <1>0, <1>one, <2>1, <2>2 DEF Types
<1>5. ASSUME NEW c \in Callers, Read(c) PROVE Inv'
  <2>0. /\ uri[c] \in Known /\ uri[c] \in Url /\ WellFormed(uri[c])
        /\ asked[c] \in {uri[c], Stripped(uri[c])} /\ status[c] \in {0, 200, 401, 404}
        /\ UNCHANGED <<uris, closed, profile, uri, status>>
    BY <1>0, <1>5, KnownAddress DEF Read, Consistent, Types
  <2>1. CASE Request(c, Stripped(uri[c]))
    <3>1. Stripped(uri[c]) \in Url /\ WellFormed(Stripped(uri[c]))
      BY <2>0, StrippedClean, StrippedAsks DEF WellFormed
    <3>2. Consistent(pc'[c], profile'[c], uri'[c], asked'[c], result'[c])
      BY <1>0, <2>0, <2>1, <3>1, Requested DEF Consistent
    <3> QED BY <1>0, <1>one, <2>0, <2>1, <3>1, <3>2, Requested DEF Types
  <2>2. CASE /\ ~(status[c] = 401 /\ asked[c] = uri[c] /\ Stripped(uri[c]) # uri[c])
             /\ Conclude(c)
    <3>1. CASE status[c] = 401
      <4>1. asked[c] = Stripped(uri[c])
        BY <2>0, <2>2, <3>1
      <4>2. Finish(c, "autherror") /\ "autherror" \in Results
        BY <2>2, <3>1 DEF Conclude, Results
      <4>3. Consistent(pc'[c], profile'[c], uri'[c], asked'[c], result'[c])
        BY <1>0, <2>0, <4>1, <4>2, Finished DEF Consistent
      <4> QED BY <1>0, <1>one, <2>0, <4>2, <4>3, Finished DEF Types
    <3>2. CASE status[c] # 401
      <4>1. PICK outcome \in {"image", "nothing"} : Finish(c, outcome)
        BY <2>0, <2>2, <3>2 DEF Conclude
      <4> QED BY <1>over, <2>0, <4>1 DEF Results
    <3> QED BY <3>1, <3>2
  <2> QED BY <1>5, <2>1, <2>2 DEF Read
<1>6. CASE Close
  BY <1>0, <1>6, <1>nat DEF Close, Inv, Types, Consistent, callVars
<1>7. CASE UNCHANGED vars
  BY <1>0, <1>7, <1>nat DEF vars, Inv, Types, Consistent, callVars
<1> QED BY <1>1, <1>2, <1>3, <1>4, <1>5, <1>6, <1>7 DEF Next, Step

-----------------------------------------------------------------------------
(* The theorems *)

\* Type correctness for any callers, profiles and addresses.
THEOREM SnapshotsTyped == Spec => []TypeOK
<1>1. Known \subseteq Url
  BY KnownAddress
<1>2. Inv => TypeOK
  BY <1>1 DEF Inv, Types, TypeOK
<1> QED BY <1>2, InvInit, InvNext, PTL DEF Spec

\* An ONVIFAuthError follows the refusal of a url without userinfo and without a key
\* of _CREDENTIAL_KEYS in the spelling of that list, whatever addresses the camera
\* names.  A key in another spelling can be left, if the address does not have it in
\* the spelling of the list as well.
THEOREM AuthErrorsEarned == Spec => []AuthErrorEarned
<1>1. Inv => AuthErrorEarned
  BY KnownAddress, StrippedClean DEF Inv, Consistent, AuthErrorEarned
<1> QED BY <1>1, InvInit, InvNext, PTL DEF Spec

\* Both requests go to the host they are meant for, with what is no credential.
THEOREM RightPlaceAsked == Spec => []AsksTheCamera
<1>1. ASSUME Inv PROVE AsksTheCamera
  <2>1. ASSUME NEW c \in Callers, pc[c] \in {"fetching", "reading"}
        PROVE  /\ asked[c].host = IF nat_override THEN Home ELSE uri[c].host
               /\ Others(asked[c]) = Others(uri[c])
    <3>1. /\ uri[c] \in Known /\ uri[c] \in Url
          /\ asked[c] \in {uri[c], Stripped(uri[c])}
      BY <1>1, <2>1, KnownAddress DEF Inv, Consistent
    <3> QED BY <3>1, KnownAddress, StrippedAsks
  <2> QED BY <2>1 DEF AsksTheCamera
<1> QED BY <1>1, InvInit, InvNext, PTL DEF Spec

\* A port given twice makes no snapshot fail with a ValueError, unless the host is an
\* IPv6 literal that no NAT address replaces.
THEOREM DoubledPortsServed == Spec => []DoubledPortServed
<1>1. Inv => DoubledPortServed
  BY KnownAddress DEF Inv, Consistent, DoubledPortServed
<1> QED BY <1>1, InvInit, InvNext, PTL DEF Spec

=============================================================================
