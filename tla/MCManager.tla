------------------------------ MODULE MCManager ------------------------------
(***************************************************************************)
(* Instances of SubscriptionManager for TLC.                               *)
(***************************************************************************)
EXTENDS SubscriptionManager, TLC

\* The addresses and the consumers are interchangeable
Symmetric == Permutations(Addr) \cup Permutations(Consumers)

=============================================================================
