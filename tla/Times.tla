-------------------------------- MODULE Times --------------------------------
(***************************************************************************)
(* onvif/types.py: how FastDateTime and ForgivingTime read the times that  *)
(* cameras write, among them clocks beyond 23:59:59.                       *)
(*                                                                         *)
(* A text is a record: the fields of its clock, what stands between date   *)
(* and time, and the trailer after the seconds.  A field is written in two *)
(* digits, or in more where it needs more.  Dates are valid, a text has a  *)
(* time, and a result is the number of seconds after midnight.             *)
(***************************************************************************)
EXTENDS Naturals

Day == 86400

Trailers == {"", "Z", "+hh:mm", ".ffffff", ".ffffffZ"}
TrailerLength ==
    [t \in Trailers |-> CASE t = "" -> 0 [] t = "Z" -> 1 [] t = "+hh:mm" -> 6
                          [] t = ".ffffff" -> 7 [] t = ".ffffffZ" -> 8]

Clock(h, m, s) == [h |-> h, m |-> m, s |-> s]
Seconds(clock) == 3600 * clock.h + 60 * clock.m + clock.s

\* What the parsers of ciso8601 and isodate accept (a 24:00:00 that one of them
\* takes for the next midnight is what the correction below makes of it, too)
Parses(clock) == clock.h <= 23 /\ clock.m <= 59 /\ clock.s <= 59

-----------------------------------------------------------------------------
(* _try_fix_time_overflow() *)

\* The fields are read at fixed places, two digits each.  A longer one shifts a
\* colon into the next field, or a digit into the trailer: a ValueError.
TwoDigits(clock) == clock.h <= 99 /\ clock.m <= 99 /\ clock.s <= 99

Least(a, b) == IF a <= b THEN a ELSE b

Clipped(clock) == Clock(Least(clock.h, 23), Least(clock.m, 59), Least(clock.s, 59))

\* Slip: an hour beyond the last one counts from 24
OffsetFrom24(clock) == Clock(IF clock.h > 23 THEN clock.h - 24 ELSE 0,
                             IF clock.m > 59 THEN clock.m - 59 ELSE 0,
                             IF clock.s > 59 THEN clock.s - 59 ELSE 0)

Offset(clock) == Clock(IF clock.h > 23 THEN clock.h - 23 ELSE 0,
                       IF clock.m > 59 THEN clock.m - 59 ELSE 0,
                       IF clock.s > 59 THEN clock.s - 59 ELSE 0)

\* The corrected time is parsed and the offset added
Corrected(clock) == Seconds(Clipped(clock)) + Seconds(Offset(clock))

\* What comes of a text that no parser accepts as it is
Correction(clock) == IF TwoDigits(clock) THEN {Corrected(clock)} ELSE {}

-----------------------------------------------------------------------------
(* FastDateTime.pythonvalue() *)

\* "-" instead of "T", and a stray "-" after the separator
Undashed(v) == [v EXCEPT !.sep = IF @ = "-" THEN "T" ELSE @, !.stray = FALSE]

\* A blank, by the length of the text: 19, 20 or 26
Joined(v) ==
    IF v.sep = " " /\ TrailerLength[v.trailer] \in {0, 1, 7}
    THEN [v EXCEPT !.sep = "T"] ELSE v

Repaired(v) == Joined(Undashed(v))

\* A reading is the set of its results, which a ValueError leaves empty.  Without
\* its "T" a text has no time to correct.
FastDateTime(v) ==
    LET r == Repaired(v)
    IN  IF Parses(r.clock) THEN {Seconds(r.clock)}
        ELSE IF r.sep = "T" THEN Correction(r.clock) ELSE {}

-----------------------------------------------------------------------------
(* ForgivingTime.pythonvalue(), whose result is a time of day *)

ForgivingTime(clock) ==
    IF Parses(clock) THEN {Seconds(clock)}
    ELSE {seconds % Day : seconds \in Correction(clock)}

\* What zeep reads without the two types
DefaultDateTime(v) ==
    IF v.sep = "T" /\ ~v.stray /\ Parses(v.clock) THEN {Seconds(v.clock)} ELSE {}
DefaultTime(clock) == IF Parses(clock) THEN {Seconds(clock)} ELSE {}

=============================================================================
