--------------------------- MODULE OperatingHours ---------------------------
(***************************************************************************)
(* The time arithmetic of app/services/booking_service.py: the lock bucket *)
(* of a start time (_slot_key), the operating-hours test (_within_hours)   *)
(* and the overlap test shared by every conflict query and by the          *)
(* exclusion constraints.                                                  *)
(*                                                                         *)
(* An instant is a number of minutes since a UTC midnight.  A dealership's *)
(* hours are a record [open, close, offset, known]: opening and closing    *)
(* time in minutes of the local day ("HH:MM", so close is at most 23:59),  *)
(* the zone's UTC offset in minutes, and whether the zone name resolves.   *)
(* The offset is one number: a zone between two of its clock changes.      *)
(***************************************************************************)
EXTENDS Integers

Day == 1440
BucketMinutes == 15

HoursType == [open : 0 .. Day - 1, close : 0 .. Day - 1,
              offset : -Day .. Day, known : BOOLEAN]

(* _slot_key: the 15-minute UTC bucket the start falls in.                 *)
SlotKey(t) == t \div BucketMinutes

(* scheduled_start < end AND scheduled_end > start; tstzrange '[)' &&.     *)
Overlaps(s1, e1, s2, e2) == s1 < e2 /\ s2 < e1

(* datetime.astimezone(zone).time(), in minutes.                           *)
TimeOfDay(t, hours) == (t + hours.offset) % Day

(* local_end in seconds: midnight is read as 23:59:59.                     *)
LocalEnd(t, hours) ==
    IF TimeOfDay(t, hours) = 0 THEN 60 * Day - 1 ELSE 60 * TimeOfDay(t, hours)

(* _within_hours: only times of day are compared.                          *)
WithinHours(start, end, hours) ==
    \/ ~hours.known
    \/ /\ hours.open <= TimeOfDay(start, hours)
       /\ LocalEnd(end, hours) <= 60 * hours.close

-----------------------------------------------------------------------------
(* What "[start, end) falls entirely within operating hours" means: the    *)
(* hours of the local day it starts on enclose the interval.               *)
LocalDayOf(t, hours) == (t + hours.offset) \div Day

EntirelyWithin(start, end, hours) ==
    LET midnight == LocalDayOf(start, hours) * Day - hours.offset
    IN  /\ midnight + hours.open <= start
        /\ end <= midnight + hours.close
=============================================================================
