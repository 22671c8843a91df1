------------------------------ MODULE QuietHours ------------------------------
(***************************************************************************)
(* The quiet hours of a room's fast source: the configured window in which *)
(* it may run, as coordinator.py parses it and core/fast_source.py decides *)
(* it.  A time of day is the sequence of its numbers, <<hour, minute, ..>>, *)
(* <<>> when it is not configured; a part that is no number is -1, which   *)
(* is as far out of range.                                                 *)
(***************************************************************************)
EXTENDS Integers, Sequences

MinutesPerDay == 24 * 60
Minutes == 0 .. MinutesPerDay - 1
NoTime == -1

ParsedMinute(raw) ==
    IF Len(raw) >= 2 /\ raw[1] \in 0 .. 23 /\ raw[2] \in 0 .. 59
    THEN raw[1] * 60 + raw[2] ELSE NoTime

\* From start, included, to end, excluded, over midnight when start > end.
WindowAllows(t, start, end) ==
    \/ start < end /\ start <= t /\ t < end
    \/ start > end /\ (t >= start \/ t < end)

\* _fast_source_allowed: anything but two different valid ends fails open.
Allowed(rawStart, rawEnd, now) ==
    LET start == ParsedMinute(rawStart)
        end   == ParsedMinute(rawEnd)
    IN  NoTime \in {start, end} \/ start = end \/ WindowAllows(now, start, end)
=============================================================================
