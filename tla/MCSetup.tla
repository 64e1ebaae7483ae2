------------------------------- MODULE MCSetup -------------------------------
(***************************************************************************)
(* An instance of ServiceSetup for TLC.                                    *)
(***************************************************************************)
EXTENDS ServiceSetup

\* Either side of each limit, among them that of what two digits can hold
AnyClock ==
    {Clock(h, m, s) : h \in {0, 23, 24, 99, 100}, m \in {0, 59, 60, 99, 100},
                      s \in {0, 59, 61, 99, 100}}

=============================================================================
