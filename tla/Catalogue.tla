----------------------------- MODULE Catalogue -----------------------------
(***************************************************************************)
(* The reference data a booking is validated against: the customers,       *)
(* vehicles, dealerships, service types, bays and technicians tables.  No  *)
(* route of the API writes to the last four, and customers and vehicles    *)
(* are only added, so the catalogue is constant.                           *)
(*                                                                         *)
(* A payload is what a POST /appointments carries: the authenticated       *)
(* customer, the Idempotency-Key header (or NoKey), and the body's ids and *)
(* start.  The ids come from the client and need not exist.                *)
(***************************************************************************)
EXTENDS OperatingHours

CONSTANTS
    Customers, Vehicles, Dealerships, Services, Bays, Techs,
    Owner,       \* vehicles.customer_id
    Anywhere,    \* service_types.dealership_id IS NULL
    OfferedAt,   \* service_types.dealership_id
    Duration,    \* service_types.duration_minutes
    Required,    \* service_types.required_skills
    Skills,      \* technicians.skills
    HomeOf,      \* service_bays.dealership_id, technicians.dealership_id
    Active,      \* the bays and technicians with is_active
    Hours,       \* dealerships.opening_time, closing_time, timezone
    NoKey,       \* no Idempotency-Key header
    Payloads     \* the requests clients may send

ASSUME CatalogueAssumption ==
    /\ Owner \in [Vehicles -> Customers]
    /\ OfferedAt \in [Services -> Dealerships \cup {Anywhere}]
    /\ Duration \in [Services -> Int] /\ \A s \in Services : Duration[s] > 0
    /\ HomeOf \in [Bays \cup Techs -> Dealerships]
    /\ Hours \in [Dealerships -> HoursType]
    /\ \A p \in Payloads : p.start \in Int

(* timedelta(minutes=service_type.duration_minutes) after the start.       *)
EndOf(p) == p.start + Duration[p.service]

(* The bucket under which a payload's bay and technician are locked.       *)
BucketOf(p) == SlotKey(p.start)

(* Mutant: is_active is not asked.                                         *)
QualifiedOnce(t, p) ==
    HomeOf[t] = p.dealership /\ Required[p.service] \subseteq Skills[t]

(* An active technician of the dealership who has every required skill.    *)
Qualified(t, p) ==
    /\ t \in Active
    /\ HomeOf[t] = p.dealership
    /\ Required[p.service] \subseteq Skills[t]

UsableBay(b, p) == b \in Active /\ HomeOf[b] = p.dealership

(* Steps 1 and 2 of create_appointment: the first check that fails names   *)
(* the refusal; "none" when the references are valid and the time is       *)
(* within hours.                                                           *)
UnknownVehicle(p) == p.customer \notin Customers \/ p.vehicle \notin Vehicles

UnknownService(p) ==
    \/ p.dealership \notin Dealerships
    \/ p.service \notin Services
    \/ OfferedAt[p.service] \notin {Anywhere, p.dealership}

Refusal(p) ==
    IF UnknownVehicle(p) THEN "NOT_FOUND"
    ELSE IF Owner[p.vehicle] # p.customer THEN "FORBIDDEN"
    ELSE IF UnknownService(p) THEN "NOT_FOUND"
    ELSE IF ~WithinHours(p.start, EndOf(p), Hours[p.dealership])
         THEN "OUTSIDE_HOURS"
    ELSE "none"
=============================================================================
