------------------------------ MODULE Booking ------------------------------
(***************************************************************************)
(* POST /appointments and PATCH /appointments/{id}/cancel, from request to *)
(* reply: BookingService.create_appointment and cancel_appointment over    *)
(* Redis (locks, idempotency keys), PostgreSQL (the appointments table     *)
(* with its exclusion constraints) and the notification queue.             *)
(*                                                                         *)
(* Every request runs once; a client's retry is another request with the   *)
(* same customer and key.  A step ends where the coroutine awaits, so any  *)
(* other request, in this worker or another, may act between two steps.    *)
(* The appointment a request creates is named after the request.  A row's  *)
(* columns are the request's local variables, which it sets once.          *)
(*                                                                         *)
(* Faults names what the environment may do to the program:                *)
(*   "expire"  a lock outlives its 30 s TTL                                *)
(*   "forget"  an idempotency key outlives its 24 h TTL                    *)
(*   "redis"   a Redis call raises (before or after it took effect)        *)
(*   "db"      a database call raises (likewise)                           *)
(*   "sqs"     a publish raises                                            *)
(*   "crash"   the worker process of a request dies                        *)
(***************************************************************************)
EXTENDS Catalogue, FiniteSets

CONSTANTS
    Requests,   \* executions of create_appointment
    Cancels,    \* executions of cancel_appointment
    NoOne,      \* no request: a free key, no cached id
    Instants,   \* the moments the clock is read at
    Faults

ASSUME RequestsAssumption ==
    NoOne \notin Requests \cup Instants /\ Instants \subseteq Int

VARIABLES
    now,          \* the wall clock
    ask,          \* the payload of each request
    pc,           \* where create_appointment stands
    result,       \* what it answers; "none" while it has nothing to report
    answer,       \* the appointment a success returns
    bay, tech,    \* the resources found for it; the row's columns
    status,       \* its row: "none", "flushed" (uncommitted), or the column
    cancelledAt,  \* appointments.cancelled_at
    lock, owned,  \* Redis lock keys and each request's LockClient
    idem,         \* Redis idem:{customer}:{key} -> appointment
    queue,        \* appointments whose confirmation was sent to SQS
    cpc,          \* where cancel_appointment stands, or what it answered
    ctarget,      \* the appointment it was asked to cancel
    cnow          \* the clock it read

vars == <<now, ask, pc, result, answer, bay, tech, status, cancelledAt,
          lock, owned, idem, queue, cpc, ctarget, cnow>>

locks == <<lock, owned>>
row == <<bay, tech, status, cancelledAt>>
effects == <<idem, queue>>
cancels == <<cpc, ctarget, cnow>>

-----------------------------------------------------------------------------
(* Keys of the lock and idempotency namespaces.                            *)
Buckets == {BucketOf(p) : p \in Payloads}
BayKey(r) == <<"bay", bay[r], BucketOf(ask[r])>>

(* Mutant: the bay's name goes into the technician's key as well.          *)
TechKeyOfBay(r) == <<"bay", bay[r], BucketOf(ask[r])>>

TechKey(r) == <<"tech", tech[r], BucketOf(ask[r])>>
LockKeys == ({"bay"} \X Bays \X Buckets) \cup ({"tech"} \X Techs \X Buckets)

IdemKeys == {<<p.customer, p.key>> : p \in Payloads}

(* Mutant: the key is not namespaced by customer.                          *)
IdemKeyShared(r) == CHOOSE i \in IdemKeys : i[2] = ask[r].key

IdemKey(r) == <<ask[r].customer, ask[r].key>>

Redis == INSTANCE SlotLock WITH
             Clients <- Requests, Keys <- LockKeys, NoClient <- NoOne

-----------------------------------------------------------------------------
(* Rows and conflicts.                                                     *)
Overlap(a, r) ==
    Overlaps(ask[a].start, EndOf(ask[a]), ask[r].start, EndOf(ask[r]))

(* Mutant: a cancelled appointment still occupies its bay.                 *)
BayTakenByAny(b, r) ==
    \E a \in Requests : status[a] # "none" /\ bay[a] = b /\ Overlap(a, r)

(* The WHERE clause of the conflict queries: READ COMMITTED sees committed *)
(* rows only.                                                              *)
BayTaken(b, r) ==
    \E a \in Requests : status[a] = "CONFIRMED" /\ bay[a] = b /\ Overlap(a, r)

TechTaken(t, r) ==
    \E a \in Requests : status[a] = "CONFIRMED" /\ tech[a] = t /\ Overlap(a, r)

(* Mutant: migration 0002 has not run.                                     *)
ExcludesBayOnly(a, r) == a # r /\ bay[a] = bay[r] /\ Overlap(a, r)

(* no_double_bay_booking and no_double_tech_booking: the rows the two      *)
(* exclusion constraints keep apart from r's.                              *)
Excludes(a, r) ==
    /\ a # r
    /\ bay[a] = bay[r] \/ tech[a] = tech[r]
    /\ Overlap(a, r)

Committed(a) == status[a] \in {"CONFIRMED", "CANCELLED"}

-----------------------------------------------------------------------------
TypeOK ==
    /\ now \in Instants
    /\ ask \in [Requests -> Payloads]
    /\ pc \in [Requests ->
          {"idle", "idem", "validate", "bay", "tech", "lockBay", "lockTech",
           "recheckBay", "recheckTech", "insert", "commit", "release",
           "remember", "publish", "done", "crashed"}]
    /\ result \in [Requests ->
          {"none", "CREATED", "REPLAYED", "UNPROCESSABLE", "NOT_FOUND",
           "FORBIDDEN", "OUTSIDE_HOURS", "NO_BAY", "NO_TECHNICIAN",
           "SLOT_TAKEN", "INTEGRITY_ERROR", "INTERNAL_ERROR"}]
    /\ answer \in [Requests -> Requests \cup {NoOne}]
    /\ bay \in [Requests -> Bays \cup {NoOne}]
    /\ tech \in [Requests -> Techs \cup {NoOne}]
    /\ status \in [Requests -> {"none", "flushed", "CONFIRMED", "CANCELLED"}]
    /\ cancelledAt \in [Requests -> Instants \cup {NoOne}]
    /\ Redis!TypeOK
    /\ idem \in [IdemKeys -> Requests \cup {NoOne}]
    /\ queue \subseteq Requests
    /\ cpc \in [Cancels -> {"idle", "write", "CANCELLED", "NOT_FOUND",
                            "FORBIDDEN", "INVALID_STATE", "PAST_APPOINTMENT",
                            "INTERNAL_ERROR"}]
    /\ ctarget \in [Cancels -> Requests \cup {NoOne}]
    /\ cnow \in [Cancels -> Instants \cup {NoOne}]

Init ==
    /\ now \in Instants /\ \A t \in Instants : now <= t
    /\ ask \in [Requests -> Payloads]
    /\ pc = [r \in Requests |-> "idle"]
    /\ result = [r \in Requests |-> "none"]
    /\ answer = [r \in Requests |-> NoOne]
    /\ bay = [r \in Requests |-> NoOne]
    /\ tech = [r \in Requests |-> NoOne]
    /\ status = [r \in Requests |-> "none"]
    /\ cancelledAt = [r \in Requests |-> NoOne]
    /\ Redis!Init
    /\ idem = [i \in IdemKeys |-> NoOne]
    /\ queue = {}
    /\ cpc = [c \in Cancels |-> "idle"]
    /\ ctarget = [c \in Cancels |-> NoOne]
    /\ cnow = [c \in Cancels |-> NoOne]

-----------------------------------------------------------------------------
Goto(r, place) == pc' = [pc EXCEPT ![r] = place]
Report(r, res) == result' = [result EXCEPT ![r] = res]
Reply(r, res) == Goto(r, "done") /\ Report(r, res)

(* AppointmentCreate.must_be_future, as the body is parsed.                *)
Arrive(r) ==
    /\ pc[r] = "idle"
    /\ \/ /\ ask[r].start > now
          /\ Goto(r, IF ask[r].key = NoKey THEN "validate" ELSE "idem")
          /\ UNCHANGED result
       \/ /\ ask[r].start <= now
          /\ Reply(r, "UNPROCESSABLE")
    /\ UNCHANGED <<now, ask, answer, row, locks, effects, cancels>>

(* Step 0: the key is known and its row exists, so the appointment is      *)
(* returned as it is now; otherwise the request goes ahead.                *)
Known(r) == idem[IdemKey(r)] # NoOne /\ Committed(idem[IdemKey(r)])

Replay(r) ==
    /\ pc[r] = "idem"
    /\ Known(r)
    /\ answer' = [answer EXCEPT ![r] = idem[IdemKey(r)]]
    /\ Reply(r, "REPLAYED")
    /\ UNCHANGED <<now, ask, row, locks, effects, cancels>>

NoReplay(r) ==
    /\ pc[r] = "idem"
    /\ ~Known(r)
    /\ Goto(r, "validate")
    /\ UNCHANGED <<now, ask, result, answer, row, locks, effects, cancels>>

(* Steps 1 and 2: references, ownership, operating hours.                  *)
Validate(r) ==
    /\ pc[r] = "validate"
    /\ \/ /\ Refusal(ask[r]) = "none"
          /\ Goto(r, "bay")
          /\ UNCHANGED result
       \/ /\ Refusal(ask[r]) # "none"
          /\ Reply(r, Refusal(ask[r]))
    /\ UNCHANGED <<now, ask, answer, row, locks, effects, cancels>>

(* Step 3: any usable bay without a conflict (LIMIT 1, no ORDER BY).       *)
FindBay(r) ==
    /\ pc[r] = "bay"
    /\ LET free == {b \in Bays : UsableBay(b, ask[r]) /\ ~BayTaken(b, r)}
       IN  \/ /\ \E b \in free : bay' = [bay EXCEPT ![r] = b]
              /\ Goto(r, "tech")
              /\ UNCHANGED result
           \/ /\ free = {}
              /\ Reply(r, "NO_BAY")
              /\ UNCHANGED bay
    /\ UNCHANGED <<now, ask, answer, tech, status, cancelledAt, locks,
                   effects, cancels>>

FindTech(r) ==
    /\ pc[r] = "tech"
    /\ LET free == {t \in Techs : Qualified(t, ask[r]) /\ ~TechTaken(t, r)}
       IN  \/ /\ \E t \in free : tech' = [tech EXCEPT ![r] = t]
              /\ Goto(r, "lockBay")
              /\ UNCHANGED result
           \/ /\ free = {}
              /\ Reply(r, "NO_TECHNICIAN")
              /\ UNCHANGED tech
    /\ UNCHANGED <<now, ask, answer, bay, status, cancelledAt, locks,
                   effects, cancels>>

-----------------------------------------------------------------------------
(* Mutants: a lock in the worker's memory; a lock that is waited for.      *)
LockBayLocal(r) ==
    /\ pc[r] = "lockBay"
    /\ owned' = [owned EXCEPT ![r] = @ \cup {BayKey(r)}]
    /\ Goto(r, "lockTech")
    /\ UNCHANGED <<now, ask, result, answer, row, lock, effects, cancels>>

LockBaySpin(r) ==
    /\ pc[r] = "lockBay"
    /\ \/ /\ Redis!Acquire(r, BayKey(r))
          /\ Goto(r, "lockTech")
       \/ /\ Redis!Refuse(r, BayKey(r))
          /\ UNCHANGED pc
    /\ UNCHANGED <<now, ask, result, answer, row, effects, cancels>>

(* Step 4: acquire_slot_locks, the bay first.                              *)
LockBay(r) ==
    /\ pc[r] = "lockBay"
    /\ \/ /\ Redis!Acquire(r, BayKey(r))
          /\ Goto(r, "lockTech")
          /\ UNCHANGED result
       \/ /\ Redis!Refuse(r, BayKey(r))
          /\ Reply(r, "SLOT_TAKEN")
    /\ UNCHANGED <<now, ask, answer, row, effects, cancels>>

(* Mutant: a refused technician is answered at once.                       *)
LockTechKeepBay(r) ==
    /\ pc[r] = "lockTech"
    /\ \/ /\ Redis!Acquire(r, TechKey(r))
          /\ Goto(r, "recheckBay")
          /\ UNCHANGED result
       \/ /\ Redis!Refuse(r, TechKey(r))
          /\ Reply(r, "SLOT_TAKEN")
    /\ UNCHANGED <<now, ask, answer, row, effects, cancels>>

(* A refused technician gives the bay back before the 409.                 *)
LockTech(r) ==
    /\ pc[r] = "lockTech"
    /\ \/ /\ Redis!Acquire(r, TechKey(r))
          /\ Goto(r, "recheckBay")
          /\ UNCHANGED result
       \/ /\ Redis!Refuse(r, TechKey(r))
          /\ Goto(r, "release")
          /\ Report(r, "SLOT_TAKEN")
    /\ UNCHANGED <<now, ask, answer, row, effects, cancels>>

(* The conflict queries again, now under the locks.                        *)
RecheckBay(r) ==
    /\ pc[r] = "recheckBay"
    /\ \/ /\ ~BayTaken(bay[r], r)
          /\ Goto(r, "recheckTech")
          /\ UNCHANGED result
       \/ /\ BayTaken(bay[r], r)
          /\ Goto(r, "release")
          /\ Report(r, "NO_BAY")
    /\ UNCHANGED <<now, ask, answer, row, locks, effects, cancels>>

(* Mutant: the technician is not rechecked under the lock.                 *)
RecheckTechSkipped(r) ==
    /\ pc[r] = "recheckTech"
    /\ Goto(r, "insert")
    /\ UNCHANGED <<now, ask, result, answer, row, locks, effects, cancels>>

RecheckTech(r) ==
    /\ pc[r] = "recheckTech"
    /\ \/ /\ ~TechTaken(tech[r], r)
          /\ Goto(r, "insert")
          /\ UNCHANGED result
       \/ /\ TechTaken(tech[r], r)
          /\ Goto(r, "release")
          /\ Report(r, "NO_TECHNICIAN")
    /\ UNCHANGED <<now, ask, answer, row, locks, effects, cancels>>

(* Mutant: an uncommitted row does not hold the INSERT up.                 *)
InsertNoWait(r) ==
    /\ pc[r] = "insert"
    /\ \A a \in Requests : Excludes(a, r) => status[a] # "CONFIRMED"
    /\ status' = [status EXCEPT ![r] = "flushed"]
    /\ Goto(r, "commit")
    /\ UNCHANGED <<now, ask, result, answer, bay, tech, cancelledAt, locks,
                   effects, cancels>>

(* create(): the INSERT is flushed.  PostgreSQL lets it pass when no live  *)
(* row excludes it, refuses it when a committed one does, and makes it     *)
(* wait for the other transaction when only an uncommitted one does.       *)
Insert(r) ==
    /\ pc[r] = "insert"
    /\ \/ /\ \A a \in Requests :
                Excludes(a, r) => status[a] \notin {"flushed", "CONFIRMED"}
          /\ status' = [status EXCEPT ![r] = "flushed"]
          /\ Goto(r, "commit")
          /\ UNCHANGED result
       \/ /\ \E a \in Requests : Excludes(a, r) /\ status[a] = "CONFIRMED"
          /\ Goto(r, "release")
          /\ Report(r, "INTEGRITY_ERROR")
          /\ UNCHANGED status
    /\ UNCHANGED <<now, ask, answer, bay, tech, cancelledAt, locks, effects,
                   cancels>>

Commit(r) ==
    /\ pc[r] = "commit"
    /\ status' = [status EXCEPT ![r] = "CONFIRMED"]
    /\ Goto(r, "release")
    /\ UNCHANGED <<now, ask, result, answer, bay, tech, cancelledAt, locks,
                   effects, cancels>>

-----------------------------------------------------------------------------
(* Mutant: the session is not closed.                                      *)
RollBackNever(r) == status

(* The session closes after the reply is decided: an open transaction is   *)
(* rolled back.                                                            *)
RollBack(r) == [status EXCEPT ![r] = IF @ = "flushed" THEN "none" ELSE @]

(* release_all gives the keys back in the order they were acquired.        *)
NextKey(r) == IF BayKey(r) \in owned[r] THEN BayKey(r) ELSE TechKey(r)

(* Mutant: the context manager swallows the exception.                     *)
ReleaseSwallows(r) ==
    /\ pc[r] = "release"
    /\ Redis!Release(r, NextKey(r))
    /\ IF owned'[r] # {} THEN UNCHANGED pc
       ELSE Goto(r, IF ask[r].key = NoKey THEN "publish" ELSE "remember")
    /\ UNCHANGED <<now, ask, result, answer, row, effects, cancels>>

(* The finally block, one key at a time.  After the last one the request   *)
(* goes on to the side effects, or the exception goes on to the client.    *)
Release(r) ==
    /\ pc[r] = "release"
    /\ Redis!Release(r, NextKey(r))
    /\ \/ /\ owned'[r] # {}
          /\ UNCHANGED <<pc, status>>
       \/ /\ owned'[r] = {} /\ result[r] = "none"
          /\ Goto(r, IF ask[r].key = NoKey THEN "publish" ELSE "remember")
          /\ UNCHANGED status
       \/ /\ owned'[r] = {} /\ result[r] # "none"
          /\ Goto(r, "done")
          /\ status' = RollBack(r)
    /\ UNCHANGED <<now, ask, result, answer, bay, tech, cancelledAt, effects,
                   cancels>>

(* Step 5: the idempotency key, then the notification, then the reply.     *)
Remembered(r) == [idem EXCEPT ![IdemKey(r)] = r]

Remember(r) ==
    /\ pc[r] = "remember"
    /\ idem' = Remembered(r)
    /\ Goto(r, "publish")
    /\ UNCHANGED <<now, ask, result, answer, row, locks, queue, cancels>>

(* publish_booking_confirmation swallows every exception; without a queue  *)
(* URL it does nothing.                                                    *)
Publish(r) ==
    /\ pc[r] = "publish"
    /\ queue' = queue \cup {r} \/ ("sqs" \in Faults /\ queue' = queue)
    /\ answer' = [answer EXCEPT ![r] = r]
    /\ Reply(r, "CREATED")
    /\ UNCHANGED <<now, ask, row, locks, idem, cancels>>

-----------------------------------------------------------------------------
(* Failures.  Any exception but a refusal is answered 500.                 *)

(* A Redis or database read before the locks raises.                       *)
ReadError(r) ==
    /\ \/ pc[r] = "idem" /\ Faults \cap {"redis", "db"} # {}
       \/ pc[r] \in {"validate", "bay", "tech"} /\ "db" \in Faults
    /\ Reply(r, "INTERNAL_ERROR")
    /\ UNCHANGED <<now, ask, answer, row, locks, effects, cancels>>

(* An acquire raises.  The try block has not been entered yet, so nothing  *)
(* is released, not even the bay that was locked before the technician.    *)
LockError(r) ==
    /\ \/ pc[r] = "lockBay" /\ Redis!AcquireError(r, BayKey(r))
       \/ pc[r] = "lockTech" /\ Redis!AcquireError(r, TechKey(r))
    /\ Reply(r, "INTERNAL_ERROR")
    /\ UNCHANGED <<now, ask, answer, row, effects, cancels>>

(* A database call raises under the locks: before the INSERT ran, after it *)
(* (the refresh), or at COMMIT, which may or may not have taken effect.    *)
WriteError(r) ==
    /\ "db" \in Faults
    /\ \/ /\ pc[r] \in {"recheckBay", "recheckTech", "insert"}
          /\ UNCHANGED status
       \/ /\ pc[r] = "commit"
          /\ \E s \in {"none", "flushed", "CONFIRMED"} :
                status' = [status EXCEPT ![r] = s]
    /\ Goto(r, "release")
    /\ Report(r, "INTERNAL_ERROR")
    /\ UNCHANGED <<now, ask, answer, bay, tech, cancelledAt, locks, effects,
                   cancels>>

(* A release raises: release_all stops there and the exception replaces    *)
(* whatever the request was about to answer, a success included.           *)
ReleaseError(r) ==
    /\ pc[r] = "release"
    /\ Redis!ReleaseError(r, NextKey(r))
    /\ status' = RollBack(r)
    /\ Reply(r, "INTERNAL_ERROR")
    /\ UNCHANGED <<now, ask, answer, bay, tech, cancelledAt, effects, cancels>>

(* The SET of the idempotency key raises after the booking is committed.   *)
RememberError(r) ==
    /\ pc[r] = "remember"
    /\ "redis" \in Faults
    /\ idem' \in {idem, Remembered(r)}
    /\ Reply(r, "INTERNAL_ERROR")
    /\ UNCHANGED <<now, ask, answer, row, locks, queue, cancels>>

(* The worker dies: nobody answers, the database rolls back, the keys stay *)
(* in Redis until their TTL.                                               *)
Crash(r) ==
    /\ pc[r] \notin {"idle", "done", "crashed"}
    /\ Redis!Crash(r)
    /\ Goto(r, "crashed")
    /\ status' = RollBack(r)
    /\ UNCHANGED <<now, ask, result, answer, bay, tech, cancelledAt, effects,
                   cancels>>

-----------------------------------------------------------------------------
(* Mutant: the start is not compared with the clock.                       *)
CancelReadLate(c) ==
    /\ cpc[c] = "idle"
    /\ \E a \in Requests :
          /\ ctarget' = [ctarget EXCEPT ![c] = a]
          /\ cnow' = [cnow EXCEPT ![c] = now]
          /\ cpc' = [cpc EXCEPT ![c] =
                IF status[a] # "CONFIRMED" THEN "INVALID_STATE" ELSE "write"]
    /\ UNCHANGED <<now, ask, pc, result, answer, row, locks, effects>>

(* cancel_appointment: the row is read and judged in one step ...          *)
CancelRead(c) ==
    /\ cpc[c] = "idle"
    /\ \E a \in Requests, u \in Customers :
          /\ ctarget' = [ctarget EXCEPT ![c] = a]
          /\ cnow' = [cnow EXCEPT ![c] = now]
          /\ cpc' = [cpc EXCEPT ![c] =
                IF ~Committed(a) THEN "NOT_FOUND"
                ELSE IF ask[a].customer # u THEN "FORBIDDEN"
                ELSE IF status[a] # "CONFIRMED" THEN "INVALID_STATE"
                ELSE IF ask[a].start <= now THEN "PAST_APPOINTMENT"
                ELSE "write"]
    /\ UNCHANGED <<now, ask, pc, result, answer, row, locks, effects>>

(* Mutant: the row's id goes into cancelled_at.                            *)
CancelledMixedUp(c) ==
    /\ status' = [status EXCEPT ![ctarget[c]] = "CANCELLED"]
    /\ cancelledAt' = [cancelledAt EXCEPT ![ctarget[c]] = ctarget[c]]

(* ... and written in another: UPDATE ... WHERE id = :id, whatever the row *)
(* holds by then, then COMMIT.                                             *)
Cancelled(c) ==
    /\ status' = [status EXCEPT ![ctarget[c]] = "CANCELLED"]
    /\ cancelledAt' = [cancelledAt EXCEPT ![ctarget[c]] = cnow[c]]

CancelWrite(c) ==
    /\ cpc[c] = "write"
    /\ Cancelled(c)
    /\ cpc' = [cpc EXCEPT ![c] = "CANCELLED"]
    /\ UNCHANGED <<now, ask, pc, result, answer, bay, tech, locks, effects,
                   ctarget, cnow>>

(* The read raises, or the write, or its COMMIT, which may have run.       *)
CancelError(c) ==
    /\ "db" \in Faults
    /\ \/ /\ cpc[c] = "idle"
          /\ UNCHANGED <<status, cancelledAt>>
       \/ /\ cpc[c] = "write"
          /\ Cancelled(c) \/ UNCHANGED <<status, cancelledAt>>
    /\ cpc' = [cpc EXCEPT ![c] = "INTERNAL_ERROR"]
    /\ UNCHANGED <<now, ask, pc, result, answer, bay, tech, locks, effects,
                   ctarget, cnow>>

-----------------------------------------------------------------------------
(* The environment.                                                        *)
LockExpires(k) ==
    /\ Redis!Expire(k)
    /\ UNCHANGED <<now, ask, pc, result, answer, row, effects, cancels>>

IdemExpires(i) ==
    /\ "forget" \in Faults
    /\ idem[i] # NoOne
    /\ idem' = [idem EXCEPT ![i] = NoOne]
    /\ UNCHANGED <<now, ask, pc, result, answer, row, locks, queue, cancels>>

Tick ==
    /\ \E t \in Instants : t > now /\ now' = t
    /\ UNCHANGED <<ask, pc, result, answer, row, locks, effects, cancels>>

Ended(r) == pc[r] \in {"done", "crashed"}
AllEnded ==
    /\ \A r \in Requests : Ended(r)
    /\ \A c \in Cancels : cpc[c] \notin {"idle", "write"}

(* Everybody has been answered; the server waits.                          *)
Rest == AllEnded /\ UNCHANGED vars

Step(r) ==
    \/ Arrive(r) \/ Replay(r) \/ NoReplay(r) \/ Validate(r)
    \/ FindBay(r) \/ FindTech(r) \/ LockBay(r) \/ LockTech(r)
    \/ RecheckBay(r) \/ RecheckTech(r) \/ Insert(r) \/ Commit(r)
    \/ Release(r) \/ Remember(r) \/ Publish(r)

Fault(r) ==
    \/ ReadError(r) \/ LockError(r) \/ WriteError(r)
    \/ ReleaseError(r) \/ RememberError(r) \/ Crash(r)

Next ==
    \/ \E r \in Requests : Step(r) \/ Fault(r)
    \/ \E c \in Cancels : CancelRead(c) \/ CancelWrite(c) \/ CancelError(c)
    \/ \E k \in LockKeys : LockExpires(k)
    \/ \E i \in IdemKeys : IdemExpires(i)
    \/ Tick
    \/ Rest

Spec == Init /\ [][Next]_vars
=============================================================================
