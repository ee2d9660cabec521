------------------------- MODULE BookingProperties -------------------------
(***************************************************************************)
(* What the booking system of Booking.tla must do, and the claims of its   *)
(* documentation that it does not keep.                                    *)
(***************************************************************************)
EXTENDS Booking

Row(a) == [bay |-> bay[a], tech |-> tech[a],
           from |-> ask[a].start, to |-> EndOf(ask[a])]

Assignments ==
    {[bay |-> b, tech |-> t, from |-> p.start, to |-> EndOf(p)] :
        b \in Bays, t \in Techs, p \in {q \in Payloads : q.service \in Services}}

(* The committed rows, read as a calendar.  An uncommitted row is not on   *)
(* it yet: a booking takes place at COMMIT.                                *)
Ledger == INSTANCE Calendar WITH
    Ids <- Requests,
    Slots <- Assignments,
    NoSlot <- NoOne,
    state <- [a \in Requests |->
                 IF status[a] = "flushed" THEN "none" ELSE status[a]],
    slot <- [a \in Requests |-> IF Committed(a) THEN Row(a) ELSE NoOne]

-----------------------------------------------------------------------------
(* Double booking.                                                         *)

(* No bay and no technician ever serves two confirmed appointments at the  *)
(* same time, whatever fails and however long a request takes (NFR-1;      *)
(* create_appointment with its two exclusion constraints).                 *)
NoDoubleBooking ==
    \A a, b \in Requests :
        a # b /\ status[a] = "CONFIRMED" /\ status[b] = "CONFIRMED"
            => (bay[a] # bay[b] /\ tech[a] # tech[b]) \/ ~Overlap(a, b)

(* Every run of the code is a run of the calendar: a booking takes effect  *)
(* at one instant and only when nothing collides with it, a cancellation   *)
(* is final, and nothing else changes a committed row.                     *)
CalendarSpec == Ledger!Spec

(* Layers 1 and 2 (locks, recheck) suffice inside a lock bucket: as long   *)
(* as no lock expires under its owner, a request that is about to INSERT   *)
(* can only be refused by the exclusion constraint on account of an        *)
(* appointment that starts in another 15-minute bucket, even when Redis    *)
(* and the database fail and workers die.                                  *)
LocksSuffice ==
    "expire" \notin Faults =>
        \A a, r \in Requests :
            pc[r] = "insert" /\ status[a] = "CONFIRMED" /\ Excludes(a, r)
                => BucketOf(ask[a]) # BucketOf(ask[r])

(* What a request believes it has locked, it has: no fault but an expiry   *)
(* parts LockClient._owned from Redis, so no two requests are ever between *)
(* recheck and COMMIT under one key.                                       *)
LocksAreHeld == Redis!OwnedIsHeld

(* The booking protocol uses the lock client as SlotLock.tla describes it: *)
(* it releases only what it owns and never takes a key it owns again.      *)
LockProtocol == Redis!Spec

-----------------------------------------------------------------------------
(* What a booking is.                                                      *)

(* Every committed appointment has a vehicle of its customer, a service    *)
(* offered at its dealership, an active bay and an active, qualified       *)
(* technician of that dealership, and passed the hours test (key           *)
(* invariants of 02-core-entities.md).                                     *)
AssignmentsLegal ==
    \A a \in Requests : Committed(a) =>
        LET p == ask[a]
        IN  /\ Owner[p.vehicle] = p.customer
            /\ OfferedAt[p.service] \in {Anywhere, p.dealership}
            /\ {bay[a], tech[a]} \subseteq Active
            /\ HomeOf[bay[a]] = p.dealership /\ HomeOf[tech[a]] = p.dealership
            /\ Required[p.service] \subseteq Skills[tech[a]]
            /\ WithinHours(p.start, EndOf(p), Hours[p.dealership])

Refusals == {"NO_BAY", "NO_TECHNICIAN", "SLOT_TAKEN"}

(* What a client is told is true: a 201 returns a committed appointment, a *)
(* refusal or a constraint violation left no row behind, and no request    *)
(* leaves a transaction open when it ends ("No record is persisted for     *)
(* failed attempts").                                                      *)
RepliesAreTruthful ==
    \A r \in Requests : Ended(r) =>
        /\ status[r] # "flushed"
        /\ result[r] = "CREATED" => Committed(r)
        /\ result[r] \in Refusals \cup {"INTEGRITY_ERROR"}
               => status[r] = "none"

(* Side effects follow the commit: neither a notification nor an           *)
(* idempotency key ever names an appointment that is not in the database.  *)
EffectsFollowCommit ==
    /\ \A a \in queue : Committed(a)
    /\ \A i \in IdemKeys : idem[i] # NoOne => Committed(idem[i])

(* A replay returns the caller's own appointment, booked under the same    *)
(* key: two customers who happen to send one key never see each other's.   *)
ReplayIsOwn ==
    \A r \in Requests : result[r] = "REPLAYED" =>
        /\ Committed(answer[r])
        /\ ask[answer[r]].customer = ask[r].customer
        /\ ask[answer[r]].key = ask[r].key

(* A retry that comes after the 201 does not book again: unless the key is *)
(* forgotten, a request is never let past step 0 once another one of the   *)
(* same customer and Idempotency-Key has been answered 201.  (One that     *)
(* overlaps the first is: OneBookingPerKey, below.)                        *)
RetryIsReplayed ==
    [][\A a, r \in Requests :
          /\ "forget" \notin Faults
          /\ result[a] = "CREATED"
          /\ ask[a].key # NoKey /\ IdemKey(a) = IdemKey(r)
          => ~(pc[r] = "idem" /\ pc'[r] = "validate")]_vars

(* A cancellation that is on record was decided before the appointment's   *)
(* start, and the row it stands on is cancelled and was never brought back *)
(* by a commit that came later.                                            *)
CancelledInTime ==
    \A a \in Requests :
        /\ status[a] = "CANCELLED" <=> cancelledAt[a] # NoOne
        /\ status[a] = "CANCELLED" => cancelledAt[a] < ask[a].start

-----------------------------------------------------------------------------
(* Progress and fairness among competing requests.                         *)

Servable(p) ==
    /\ Refusal(p) = "none"
    /\ \E b \in Bays : UsableBay(b, p)
    /\ \E t \in Techs : Qualified(t, p)

(* Competing requests never eliminate each other: when all are answered    *)
(* and one that could be served was turned away for contention, somebody   *)
(* got an appointment at that dealership, even when locks expire, keys are *)
(* forgotten and messages lost.                                            *)
SomeoneWins ==
    /\ Faults \cap {"redis", "db", "crash"} = {}
    /\ \A r \in Requests : Ended(r)
    => \A r \in Requests :
            Servable(ask[r]) /\ result[r] \in Refusals \cup {"INTEGRITY_ERROR"}
                => \E a \in Requests :
                      Committed(a) /\ ask[a].dealership = ask[r].dealership

(* A key that is left in Redis for the rest of its TTL belongs to a        *)
(* request whose worker died, or to one that a failing Redis call ended    *)
(* with a 500.  A request that is told anything else (201, 404, 409), and  *)
(* one that fails with the database alone, has given back all it took,     *)
(* the key whose reply was lost included.                                  *)
LocksReleased ==
    \A r \in Requests, k \in LockKeys :
        Ended(r) /\ lock[k] = r =>
            \/ pc[r] = "crashed" /\ "crash" \in Faults
            \/ result[r] = "INTERNAL_ERROR" /\ "redis" \in Faults

(* The scheduling the code relies on: asyncio resumes every coroutine      *)
(* whose awaited call has returned, and every Redis, PostgreSQL and SQS    *)
(* call returns or raises.  Nothing makes a client send a request, the     *)
(* clock tick or a fault happen.                                           *)
Fairness ==
    /\ \A r \in Requests : WF_vars(pc[r] # "idle" /\ Step(r))
    /\ \A c \in Cancels : WF_vars(CancelWrite(c))

FairSpec == Spec /\ Fairness

(* Every request that is received is answered, unless its worker dies:     *)
(* requests never wait for each other in a circle, and an INSERT that      *)
(* waits for another transaction waits for one that ends.                  *)
EventuallyAnswered ==
    \A r \in Requests : pc[r] # "idle" ~> Ended(r)

(* A cancelled slot is free at once (FR-7): a request that is validated    *)
(* when all others are over, none of their appointments is confirmed any   *)
(* more and no key is left in Redis is never refused; unless a call fails, *)
(* it gets an appointment.                                                 *)
Alone(r) ==
    /\ pc[r] = "validate"
    /\ Servable(ask[r])
    /\ \A a \in Requests \ {r} : pc[a] = "done" /\ status[a] # "CONFIRMED"
    /\ \A k \in LockKeys : lock[k] = NoOne

FreedSlotIsBookable ==
    \A r \in Requests : Alone(r) ~> result[r] \in {"CREATED", "INTERNAL_ERROR"}

-----------------------------------------------------------------------------
(* Claims of the documentation that the code does not keep.                *)

(* "This should never trigger in production": without any failure, no      *)
(* INSERT is refused by an exclusion constraint.                           *)
ConstraintNeverFires ==
    \A r \in Requests : result[r] # "INTEGRITY_ERROR"

(* An Idempotency-Key "protects against client retries creating duplicate  *)
(* bookings": one customer's key books at most once.                       *)
OneBookingPerKey ==
    \A a, b \in Requests :
        /\ a # b /\ Committed(a) /\ Committed(b)
        /\ ask[a].key # NoKey
        => IdemKey(a) # IdemKey(b)

(* "Lock release - always in a finally block, even on error": a request    *)
(* that has been answered owns no key.                                     *)
NoKeysAfterReply ==
    \A r \in Requests : pc[r] = "done" => owned[r] = {}

(* "a crash between commit and publish is handled correctly on retry": a   *)
(* client whose retry is told of its booking has been (or will be) sent    *)
(* the confirmation.                                                       *)
ReplayImpliesNotified ==
    \A r \in Requests :
        result[r] = "REPLAYED" /\ Ended(answer[r]) => answer[r] \in queue
=============================================================================
