------------------------------ MODULE DemoData ------------------------------
(***************************************************************************)
(* The rows that scripts/seed.py inserts, and the booking rules            *)
(* (Catalogue.tla) over them.  Minutes are counted from midnight UTC of    *)
(* 2026-06-20, when New York is four hours behind.                         *)
(***************************************************************************)
EXTENDS Integers

Dealerships == {"sunrise"}
Hours == [d \in Dealerships |->
    [open |-> 8 * 60, close |-> 18 * 60, offset |-> -4 * 60, known |-> TRUE]]

Duration == [oil |-> 60, tyre |-> 45, engine |-> 240]
Required == [oil |-> {"oil"}, tyre |-> {"tyres"},
             engine |-> {"engine", "electrical"}]
Services == DOMAIN Duration
OfferedAt == [s \in Services |-> "sunrise"]

Bays == {"bay1", "bay2", "bay3"}
Skills == [alex |-> {"oil", "tyres", "engine", "electrical"},
           sam |-> {"oil", "tyres"}, jordan |-> {"engine", "electrical"}]
Techs == DOMAIN Skills
HomeOf == [x \in Bays \cup Techs |-> "sunrise"]

Customers == {"jane", "john"}
Owner == [camry |-> "jane", civic |-> "john"]
Vehicles == DOMAIN Owner

Visit(vehicle, service, bay, tech, start, end) ==
    [customer |-> Owner[vehicle], vehicle |-> vehicle,
     dealership |-> "sunrise", service |-> service, bay |-> bay, tech |-> tech,
     start |-> start, end |-> end]

(* Mutant: the times of the script's docstring.                            *)
DemoOfDocstring ==
    [appt1 |-> Visit("camry", "oil", "bay1", "alex", 9 * 60, 10 * 60),
     appt2 |-> Visit("civic", "tyre", "bay2", "sam", 10 * 60, 10 * 60 + 45),
     appt3 |-> Visit("camry", "engine", "bay3", "jordan", 13 * 60, 17 * 60)]

(* The three appointments, all CONFIRMED.                                  *)
Demo ==
    [appt1 |-> Visit("camry", "oil", "bay1", "alex", 13 * 60, 14 * 60),
     appt2 |-> Visit("civic", "tyre", "bay2", "sam", 14 * 60, 14 * 60 + 45),
     appt3 |-> Visit("camry", "engine", "bay3", "jordan", 17 * 60, 21 * 60)]

Appointments == {"appt1", "appt2", "appt3"}

(* The ids of all rows, which the script fixes.                            *)
DemoRows == Dealerships \cup Services \cup Bays \cup Techs \cup Customers
                \cup Vehicles \cup Appointments

Rules == INSTANCE Catalogue WITH
    Active <- Bays \cup Techs, Anywhere <- "NULL", NoKey <- "NULL",
    Payloads <- {}
=============================================================================
