------------------------------ MODULE Calendar ------------------------------
(***************************************************************************)
(* What the booking system promises, with no locks, transactions or        *)
(* retries: a calendar to which a confirmed appointment is added in one    *)
(* step and only when its bay and its technician are both free for its     *)
(* whole interval, and from which a confirmed appointment is cancelled in  *)
(* one step, once and for all.  Key invariants of                          *)
(* docs/system-design/02-core-entities.md, as the code is shown to keep    *)
(* them (Booking.tla, property CalendarSpec).                              *)
(***************************************************************************)
EXTENDS Integers

CONSTANTS
    Ids,        \* appointment ids
    Slots,      \* possible assignments: records [bay, tech, from, to]
    NoSlot      \* an id without an appointment

VARIABLES
    state,      \* appointments.status of the committed rows, "none" without
    slot        \* bay, technician and interval of the committed rows

calendarVars == <<state, slot>>

Collide(s, t) ==
    /\ s.bay = t.bay \/ s.tech = t.tech
    /\ s.from < t.to /\ t.from < s.to

Init ==
    /\ state = [a \in Ids |-> "none"]
    /\ slot = [a \in Ids |-> NoSlot]

(* One customer gets one free bay and one free technician, atomically.     *)
Book(a) ==
    /\ state[a] = "none"
    /\ \E s \in Slots :
          /\ \A b \in Ids : state[b] = "CONFIRMED" => ~Collide(slot[b], s)
          /\ slot' = [slot EXCEPT ![a] = s]
    /\ state' = [state EXCEPT ![a] = "CONFIRMED"]

(* A cancelled slot is free again at once; the row stays.                  *)
Cancel(a) ==
    /\ state[a] = "CONFIRMED"
    /\ state' = [state EXCEPT ![a] = "CANCELLED"]
    /\ UNCHANGED slot

Next == \E a \in Ids : Book(a) \/ Cancel(a)

Spec == Init /\ [][Next]_calendarVars

(* No two confirmed appointments share a bay or a technician at one time.  *)
NoDoubleBooking ==
    \A a, b \in Ids :
        a # b /\ state[a] = "CONFIRMED" /\ state[b] = "CONFIRMED"
            => ~Collide(slot[a], slot[b])
=============================================================================
