---------------------------- MODULE Availability ----------------------------
(***************************************************************************)
(* GET /availability: BookingService.check_availability, its cache in      *)
(* Redis, and the calendar it reads, which bookings and cancellations      *)
(* change meanwhile (Calendar.tla, which Booking.tla is shown to           *)
(* implement).                                                             *)
(*                                                                         *)
(* A question names a dealership, a service and a local day; an answer is  *)
(* the set of the starts that are offered, each the start of one slot of   *)
(* the service's length.  A question's ids come from the client.           *)
(***************************************************************************)
EXTENDS Catalogue, FiniteSets

CONSTANTS
    Questions,  \* [dealership, service, date] that are asked
    Queries,    \* executions of check_availability
    Ids,        \* appointments that bookings may create
    Rows,       \* the assignments they may have: [bay, tech, from, to]
    NoSlot,     \* an id without an appointment
    NoSlots,    \* nothing cached, nothing computed
    Never,      \* a moment that has not come
    Instants,   \* the moments the clock is read at
    Ttl,        \* _AVAIL_CACHE_TTL_S
    Faults      \* "redis": a cache call raises; "db": a query raises

ASSUME InstantsAssumption ==
    /\ Instants \subseteq Int /\ Never \notin Instants
    /\ Ttl \in Nat \ {0}

(* Dates are days since the same midnight as instants; what a booking      *)
(* writes has a bay and a technician of one dealership (property           *)
(* AssignmentsLegal of Booking.tla).                                       *)
ASSUME AvailabilityAssumption ==
    /\ \A qn \in Questions : qn.date \in Int
    /\ \A x \in Rows :
          /\ x.bay \in Bays /\ x.tech \in Techs
          /\ HomeOf[x.bay] = HomeOf[x.tech]
          /\ x.from \in Int /\ x.to \in Int

VARIABLES
    now,
    ask,        \* the question of each query
    qpc,        \* where check_availability stands
    slots,      \* what it has computed or answers
    readAt,     \* when it read the clock for them
    doneAt,     \* when it answered
    cache,      \* Redis avail:{dealership}:{service}:{date}
    deadline,   \* the moment Redis drops an entry (EX)
    state, slot \* the committed appointments

queries == <<ask, qpc, slots, readAt, doneAt>>
redis == <<cache, deadline>>
calendar == <<state, slot>>
vars == <<now, ask, qpc, slots, readAt, doneAt, cache, deadline, state, slot>>

Ledger == INSTANCE Calendar WITH Slots <- Rows

(* Mutant: the key forgets the service.                                    *)
CacheKeyNoService(qn) == [qn EXCEPT !.service = "any"]

CacheKey(qn) == qn
CacheKeys == {CacheKey(qn) : qn \in Questions}

-----------------------------------------------------------------------------
(* The local day: opening and closing as instants.  An unknown zone name   *)
(* is read as UTC.                                                         *)
Offset(qn) == LET h == Hours[qn.dealership] IN IF h.known THEN h.offset ELSE 0
Opening(qn) == qn.date * Day + Hours[qn.dealership].open - Offset(qn)
Closing(qn) == qn.date * Day + Hours[qn.dealership].close - Offset(qn)

(* The candidate slots: current = opening, then current += slot_dur while  *)
(* a whole slot fits before closing.                                       *)
Grid(qn) ==
    LET dur == Duration[qn.service]
    IN  {Opening(qn) + i * dur :
            i \in 0 .. ((Closing(qn) - Opening(qn)) \div dur) - 1}

(* An absent entry is not an answer.                                       *)
ASSUME NoSlotsAssumption ==
    \A qn \in Questions :
        UnknownService(qn) \/ \A answer \in SUBSET Grid(qn) : answer # NoSlots

BaysOf(qn) == {b \in Bays : UsableBay(b, qn)}
TechsOf(qn) == {t \in Techs : Qualified(t, qn)}

(* list_confirmed_appointments_in_window over the operating day.           *)
DayRows(qn) ==
    {slot[a] : a \in {x \in Ids :
        /\ state[x] = "CONFIRMED"
        /\ HomeOf[slot[x].bay] = qn.dealership
        /\ Overlaps(slot[x].from, slot[x].to, Opening(qn), Closing(qn))}}

(* Mutant: a resource is occupied only if it is at the slot's start.       *)
OccupyingAtStart(qn, s) ==
    {x \in DayRows(qn) : x.from <= s /\ s < x.to}

(* The day's appointments that occupy their bay and technician in a slot.  *)
Occupying(qn, s) ==
    {x \in DayRows(qn) :
        Overlaps(x.from, x.to, s, s + Duration[qn.service])}

(* The slots with a free bay and a free qualified technician.              *)
FreeSlots(qn) ==
    {s \in Grid(qn) :
        /\ BaysOf(qn) \ {x.bay : x \in Occupying(qn, s)} # {}
        /\ TechsOf(qn) \ {x.tech : x \in Occupying(qn, s)} # {}}

-----------------------------------------------------------------------------
Init ==
    /\ now \in Instants /\ \A t \in Instants : now <= t
    /\ ask \in [Queries -> Questions]
    /\ qpc = [q \in Queries |-> "cache"]
    /\ slots = [q \in Queries |-> NoSlots]
    /\ readAt = [q \in Queries |-> Never]
    /\ doneAt = [q \in Queries |-> Never]
    /\ cache = [k \in CacheKeys |-> NoSlots]
    /\ deadline = [k \in CacheKeys |-> now]
    /\ Ledger!Init

Goto(q, place) == qpc' = [qpc EXCEPT ![q] = place]

Answer(q) ==
    /\ Goto(q, "done")
    /\ doneAt' = [doneAt EXCEPT ![q] = now]

(* GET: an entry whose time is over is not there.                          *)
Cached(q) ==
    LET k == CacheKey(ask[q])
    IN  IF now < deadline[k] THEN cache[k] ELSE NoSlots

(* Mutant: the absent entry is returned.                                   *)
ReadCacheAlways(q) ==
    /\ qpc[q] = "cache"
    /\ slots' = [slots EXCEPT ![q] = Cached(q)]
    /\ Answer(q)
    /\ UNCHANGED <<now, ask, readAt, redis, calendar>>

(* Mutant: a hit is written back, and lives another 60 s.                  *)
ReadCacheRenews(q) ==
    /\ qpc[q] = "cache"
    /\ \/ /\ Cached(q) # NoSlots
          /\ slots' = [slots EXCEPT ![q] = Cached(q)]
          /\ deadline' = [deadline EXCEPT ![CacheKey(ask[q])] = now + Ttl]
          /\ Answer(q)
       \/ /\ Cached(q) = NoSlots
          /\ Goto(q, "lookup")
          /\ UNCHANGED <<slots, doneAt, deadline>>
    /\ UNCHANGED <<now, ask, readAt, cache, calendar>>

(* Cache read: a hit is the answer; an error counts as a miss.             *)
ReadCache(q) ==
    /\ qpc[q] = "cache"
    /\ \/ /\ Cached(q) # NoSlots
          /\ slots' = [slots EXCEPT ![q] = Cached(q)]
          /\ Answer(q)
       \/ /\ Cached(q) = NoSlots \/ "redis" \in Faults
          /\ Goto(q, "lookup")
          /\ UNCHANGED <<slots, doneAt>>
    /\ UNCHANGED <<now, ask, readAt, redis, calendar>>

(* The references (404), then the catalogue reads.  Without a bay or a     *)
(* technician for the service the answer is empty, and it is not cached.   *)
Lookup(q) ==
    /\ qpc[q] = "lookup"
    /\ \/ /\ UnknownService(ask[q])
          /\ Goto(q, "failed")
          /\ UNCHANGED <<slots, doneAt>>
       \/ /\ ~UnknownService(ask[q])
          /\ BaysOf(ask[q]) = {} \/ TechsOf(ask[q]) = {}
          /\ slots' = [slots EXCEPT ![q] = {}]
          /\ Answer(q)
       \/ /\ ~UnknownService(ask[q])
          /\ BaysOf(ask[q]) # {} /\ TechsOf(ask[q]) # {}
          /\ Goto(q, "read")
          /\ UNCHANGED <<slots, doneAt>>
    /\ UNCHANGED <<now, ask, readAt, redis, calendar>>

(* One query for the day's appointments.  What the loop makes of each slot *)
(* of the grid, its start apart, depends on their rows only.               *)
ReadDay(q) ==
    /\ qpc[q] = "read"
    /\ slots' = [slots EXCEPT ![q] = FreeSlots(ask[q])]
    /\ Goto(q, "loop")
    /\ UNCHANGED <<now, ask, readAt, doneAt, redis, calendar>>

(* The clock is read when the rows have come back, and the loop leaves out *)
(* what has begun by then.                                                 *)
DropPast(q) ==
    /\ qpc[q] = "loop"
    /\ slots' = [slots EXCEPT ![q] = {s \in @ : s > now}]
    /\ readAt' = [readAt EXCEPT ![q] = now]
    /\ Goto(q, "store")
    /\ UNCHANGED <<now, ask, doneAt, redis, calendar>>

(* Cache write with its TTL, best effort: an error is swallowed, whether   *)
(* or not the SET ran.                                                     *)
Store(q) ==
    /\ qpc[q] = "store"
    /\ \/ /\ cache' = [cache EXCEPT ![CacheKey(ask[q])] = slots[q]]
          /\ deadline' = [deadline EXCEPT ![CacheKey(ask[q])] = now + Ttl]
       \/ "redis" \in Faults /\ UNCHANGED redis
    /\ Answer(q)
    /\ UNCHANGED <<now, ask, slots, readAt, calendar>>

(* A database call raises.                                                 *)
QueryError(q) ==
    /\ "db" \in Faults
    /\ qpc[q] \in {"lookup", "read"}
    /\ Goto(q, "failed")
    /\ UNCHANGED <<now, ask, slots, readAt, doneAt, redis, calendar>>

(* Bookings and cancellations, none of which touches the cache.            *)
CalendarStep == Ledger!Next /\ UNCHANGED <<now, queries, redis>>

Tick ==
    /\ \E t \in Instants : t > now /\ now' = t
    /\ UNCHANGED <<queries, redis, calendar>>

Step(q) ==
    ReadCache(q) \/ Lookup(q) \/ ReadDay(q) \/ DropPast(q) \/ Store(q)

Next ==
    \/ \E q \in Queries : Step(q) \/ QueryError(q)
    \/ CalendarStep
    \/ Tick

Spec == Init /\ [][Next]_vars

-----------------------------------------------------------------------------
TypeOK ==
    /\ now \in Instants
    /\ ask \in [Queries -> Questions]
    /\ \A q \in Queries : qpc[q] \in {"cache", "lookup", "read", "loop",
                                      "store", "done", "failed"}
    /\ \A q \in Queries : qpc[q] = "done" => slots[q] # NoSlots
    /\ \A q \in Queries : {readAt[q], doneAt[q]} \subseteq Instants \cup {Never}
    /\ \A k \in CacheKeys : deadline[k] \in Int

(* The booking rules (create_appointment's hours test and its two SQL      *)
(* searches) applied to a slot of the question.                            *)
Bookable(qn, s) ==
    LET e == s + Duration[qn.service]
        Busy(x) == Overlaps(x.from, x.to, s, e)
        booked == {slot[a] : a \in {x \in Ids : state[x] = "CONFIRMED"}}
    IN  /\ WithinHours(s, e, Hours[qn.dealership])
        /\ \E b \in Bays : /\ UsableBay(b, qn)
                           /\ \A x \in booked : x.bay = b => ~Busy(x)
        /\ \E t \in Techs : /\ Qualified(t, qn)
                            /\ \A x \in booked : x.tech = t => ~Busy(x)

(* The batched computation in Python and the searches of a booking agree:  *)
(* when the day is read, exactly those slots of the grid are found that a  *)
(* booking would get at that moment, appointments that run into the day or *)
(* out of it included.  (Those that have begun are left out afterwards.)   *)
OfferedIsBookable ==
    [][\A q \in Queries : qpc[q] = "read" /\ qpc'[q] = "loop" =>
          slots'[q] = {s \in Grid(ask[q]) : Bookable(ask[q], s)}]_vars

(* An answer, cached or computed, answers the question that was asked: the *)
(* dealership has the service, and what is offered, if anything, are slots *)
(* of that service on that day.                                            *)
AnswerFitsQuestion ==
    \A q \in Queries :
        qpc[q] = "done" /\ slots[q] # NoSlots
            => ~UnknownService(ask[q]) /\ slots[q] \subseteq Grid(ask[q])

(* Nothing invalidates the cache, and a slow query may store what it read  *)
(* long ago, even over a fresher answer.  But whatever is offered was      *)
(* found by a query with the same question that was still running less     *)
(* than a TTL ago, and had not begun when that query read the clock: the   *)
(* answer misses no change older than a TTL and that query's time, however *)
(* often it was served meanwhile and whatever was stored over what.        *)
AnswerIsRecent ==
    \A q \in Queries : qpc[q] = "done" /\ slots[q] # {} =>
        \E p \in Queries :
            /\ qpc[p] = "done" /\ readAt[p] # Never
            /\ ask[p] = ask[q] /\ slots[p] = slots[q]
            /\ doneAt[p] <= doneAt[q] /\ doneAt[q] - doneAt[p] < Ttl
            /\ \A s \in slots[q] : readAt[p] < s
=============================================================================
