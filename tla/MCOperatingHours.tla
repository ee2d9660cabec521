-------------------------- MODULE MCOperatingHours --------------------------
(***************************************************************************)
(* Checks the time arithmetic against what its docstrings say, over every  *)
(* start of two local days on a coarse grid, services short and long, and  *)
(* three dealerships: daytime, almost round the clock, and a far zone.     *)
(***************************************************************************)
EXTENDS OperatingHours

CONSTANTS
    Step,        \* minutes between two starts that are tried
    LastStart,   \* bound on the starts
    Durations    \* service lengths that are tried

Shops == {
    [open |-> 480, close |-> 1080, offset |-> 0,   known |-> TRUE],
    [open |-> 0,   close |-> 1439, offset |-> 0,   known |-> TRUE],
    [open |-> 600, close |-> 1320, offset |-> 600, known |-> TRUE]}

VARIABLES start, duration, shop

probe == <<start, duration, shop>>

end == start + duration

Init == start = 0 /\ duration \in Durations /\ shop \in Shops

Next ==
    /\ start + Step <= LastStart
    /\ start' = start + Step
    /\ UNCHANGED <<duration, shop>>

Spec == Init /\ [][Next]_probe

-----------------------------------------------------------------------------
(* The docstring of _within_hours, for every appointment.                  *)
AcceptedMeansWithin ==
    WithinHours(start, end, shop) => EntirelyWithin(start, end, shop)
=============================================================================
