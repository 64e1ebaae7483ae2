---------------------------- MODULE MCCameraServices ---------------------------
(***************************************************************************)
(* Instances of CameraServices for TLC.                                    *)
(***************************************************************************)
EXTENDS CameraServices, TLC

\* Callers, addresses and offsets are interchangeable
Symmetric == Permutations(Callers) \cup Permutations(Addr) \cup Permutations(Skews)

=============================================================================
