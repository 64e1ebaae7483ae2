----------------------------- MODULE MCSnapshots -----------------------------
(***************************************************************************)
(* An instance of Snapshots for TLC.                                       *)
(***************************************************************************)
EXTENDS Snapshots, TLC

AnyKey == {"user", "User", "channel"}
LowerCase == [k \in AnyKey |-> IF k = "User" THEN "user" ELSE k]

\* A plain address, with a port once, twice and three times, with userinfo, with
\* credentials in its query in two spellings, and one spelled in another way; and an
\* IPv6 literal with a port once and twice
Address(user, colons, keys, canonical) ==
    [user |-> user, host |-> "lan", colons |-> colons, keys |-> keys, canonical |-> canonical]
Literal(colons) ==
    [user |-> FALSE, host |-> "[lan]", colons |-> colons, keys |-> {}, canonical |-> TRUE]
AnyAddress ==
    {Literal(1), Literal(2)} \cup
    {Address(FALSE, 0, {}, TRUE), Address(FALSE, 0, {"channel"}, FALSE),
     Address(TRUE, 1, {"channel"}, TRUE), Address(FALSE, 1, {"user", "channel"}, TRUE),
     Address(FALSE, 1, {"user", "User"}, TRUE), Address(FALSE, 1, {"User"}, TRUE),
     Address(TRUE, 2, {"user"}, TRUE), Address(FALSE, 3, {}, TRUE)}

=============================================================================
