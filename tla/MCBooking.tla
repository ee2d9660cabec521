----------------------------- MODULE MCBooking -----------------------------
(***************************************************************************)
(* Instances of the booking system for TLC.  One dealership is contested:  *)
(* two bays, two technicians of whom only one can do every service, and a  *)
(* third bay and technician that are inactive.  A second dealership makes  *)
(* references that exist but do not belong together.                       *)
(***************************************************************************)
EXTENDS BookingProperties, TLC

CONSTANTS ann, bob, annsCar, bobsCar, north, south, wash, tyres, brakes,
          bay1, bay2, bay3, sam, kim, lee, key1, ghost

MCCustomers == {ann, bob}
MCVehicles == {annsCar, bobsCar}
MCOwner == annsCar :> ann @@ bobsCar :> bob
MCDealerships == {north, south}
MCServices == {wash, tyres, brakes}
MCOfferedAt == wash :> Anywhere @@ tyres :> north @@ brakes :> south
MCDuration == wash :> 10 @@ tyres :> 20 @@ brakes :> 60
MCRequired == wash :> {} @@ tyres :> {"tyres"} @@ brakes :> {"brakes"}

MCBays == {bay1, bay2, bay3}
MCTechs == {sam, kim, lee}
MCHomeOf == [x \in MCBays \cup MCTechs |-> north]
MCActive == {bay1, bay2, sam, kim}
MCSkills == sam :> {"tyres"} @@ kim :> {} @@ lee :> {"tyres"}

(* The same shop with one bay and one technician.                          *)
SmallActive == {bay1, sam}

MCHours == [d \in MCDealerships |->
    [open |-> 480, close |-> 1080, offset |-> 0, known |-> TRUE]]

Order(customer, key, service, start) ==
    [customer |-> customer, key |-> key, dealership |-> north,
     vehicle |-> IF customer = ann THEN annsCar ELSE bobsCar,
     service |-> service, start |-> start]

(* Two overlapping services in one bucket and in two.                      *)
PairPayloads == {Order(ann, NoKey, tyres, 605), Order(ann, NoKey, tyres, 615)}

(* Two customers who use one key, overlapping in one bucket and in two.    *)
KeyPayloads == {Order(ann, key1, tyres, 600), Order(bob, key1, tyres, 605),
                Order(bob, NoKey, tyres, 615)}

(* One customer's retries of one booking.                                  *)
RetryPayloads == {Order(ann, key1, wash, 600)}

(* Every way a request can be refused by validation.                       *)
OddPayloads ==
    LET good == Order(ann, NoKey, tyres, 600)
    IN  {Order(ann, NoKey, tyres, 1070),
         [good EXCEPT !.vehicle = ghost], [good EXCEPT !.vehicle = bobsCar],
         [good EXCEPT !.dealership = ghost], [good EXCEPT !.service = ghost],
         [good EXCEPT !.service = brakes], [good EXCEPT !.customer = ghost],
         [good EXCEPT !.dealership = south, !.service = wash]}

(* One slot, an overlapping one in the next bucket, a short one that       *)
(* shares the first one's bucket without overlapping a wash at 600; and    *)
(* those that are refused.                                                 *)
RacePayloads ==
    OddPayloads \cup
    {Order(ann, NoKey, tyres, 600), Order(ann, NoKey, tyres, 615),
     Order(bob, NoKey, wash, 600), Order(bob, NoKey, wash, 610)}

Morning == {400}
AfterOpening == {400, 605}
NoFaults == {}
InfraFaults == {"redis", "db", "sqs", "crash", "forget"}
LiveFaults == {"expire", "db", "redis"}

RequestSymmetry == Permutations(Requests)
=============================================================================
