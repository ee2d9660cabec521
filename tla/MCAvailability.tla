--------------------------- MODULE MCAvailability ---------------------------
(***************************************************************************)
(* Availability for TLC: a shop open 90 minutes a day with two bays and    *)
(* two technicians, one of them qualified; a shop that is open until just  *)
(* before midnight in a zone whose name does not resolve; and appointments *)
(* that begin before the day does, that take the second bay inside a slot  *)
(* (the first of them then leaves no technician, both leave no bay), and   *)
(* that end after midnight.                                                *)
(***************************************************************************)
EXTENDS Availability, TLC

CONSTANTS ann, annsCar, north, night, wash, tyres, brakes, bay1, bay2, bay3,
          sam, kim, lee, ghost

MCOwner == annsCar :> ann
MCOfferedAt == wash :> Anywhere @@ tyres :> north @@ brakes :> night
MCDuration == wash :> 30 @@ tyres :> 45 @@ brakes :> 45
MCRequired == wash :> {} @@ tyres :> {"tyres"} @@ brakes :> {"brakes"}
MCHomeOf == bay1 :> north @@ bay2 :> night @@ bay3 :> north @@ sam :> north
                @@ kim :> north @@ lee :> night
MCSkills == sam :> {"tyres"} @@ kim :> {} @@ lee :> {"tyres"}
MCHours ==
    north :> [open |-> 480, close |-> 570, offset |-> 60, known |-> TRUE] @@
    night :> [open |-> 1365, close |-> 1439, offset |-> 60, known |-> FALSE]

Question(dealership, service) ==
    [dealership |-> dealership, service |-> service, date |-> 1]

(* A service that needs a skill, one that needs none, one nobody at the    *)
(* night shop can do, one at an unknown dealership.                        *)
MCQuestions == {Question(north, tyres), Question(night, wash),
                Question(night, brakes), Question(ghost, wash)}

Assigned(b, t, from, len) ==
    [bay |-> b, tech |-> t, from |-> from, to |-> from + len]

(* 08:00 in the northern shop's zone is minute 1860.                       *)
MCRows == {Assigned(bay1, sam, 1850, 20), Assigned(bay3, kim, 1885, 10),
           Assigned(bay2, lee, 2840, 60)}

(* Before the first slot, at its start, and when what was stored before is *)
(* two minutes old.                                                        *)
MCInstants == {1859, 1860, 1861}
MCFaults == {"redis", "db"}

QuerySymmetry == Permutations(Queries) \cup Permutations(Ids)
=============================================================================
