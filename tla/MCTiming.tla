------------------------------ MODULE MCTiming ------------------------------
(* RenewalTiming with the kinds of camera that TLC runs it against *)
EXTENDS RenewalTiming

\* A camera that grants what is asked for, one that does not tell the time, one
\* that caps its subscriptions, and one that gets relative times wrong
Sound == [cap |-> 60, relative |-> Interval, tells |-> TRUE]
Silent == [Sound EXCEPT !.tells = FALSE]
Capped == [Sound EXCEPT !.cap = 25]
Wrong == [Sound EXCEPT !.relative = 4]

GoodCameras == {Sound, Silent, Capped, Wrong}
SkewErrs == {-1, 0, 1}

ASSUME SupportedHere == Supported /\ Paced
=============================================================================
