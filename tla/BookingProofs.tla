--------------------------- MODULE BookingProofs ---------------------------
(***************************************************************************)
(* Theorems about the booking system, for any number of requests, any      *)
(* catalogue and any faults.                                               *)
(***************************************************************************)
EXTENDS BookingProperties, TLAPS

-----------------------------------------------------------------------------
(* Type correctness.  A lock key is built from the bay and technician the  *)
(* request found, so the types of the lock table need to know that they    *)
(* were found by the time they are used.                                   *)
Booked == {"lockBay", "lockTech", "recheckBay", "recheckTech", "insert",
           "commit", "release", "remember", "publish"}

Chosen ==
    /\ \A r \in Requests :
          /\ pc[r] \in Booked \cup {"tech"} => bay[r] \in Bays
          /\ pc[r] \in Booked => tech[r] \in Techs
    /\ \A c \in Cancels :
          cpc[c] = "write" => ctarget[c] \in Requests /\ cnow[c] \in Instants

TypeInv == TypeOK /\ Chosen

LEMMA KeysTyped ==
    ASSUME NEW r \in Requests, TypeInv, pc[r] \in Booked
    PROVE  /\ BayKey(r) \in LockKeys
           /\ TechKey(r) \in LockKeys
           /\ NextKey(r) \in LockKeys
  BY DEF TypeInv, TypeOK, Chosen, BayKey, TechKey, NextKey, LockKeys, Buckets

LEMMA IdemKeyTyped ==
    ASSUME NEW r \in Requests, TypeOK
    PROVE  IdemKey(r) \in IdemKeys
  BY DEF TypeOK, IdemKey, IdemKeys

LEMMA RefusalTyped ==
    ASSUME NEW p
    PROVE  Refusal(p) \in {"none", "NOT_FOUND", "FORBIDDEN", "OUTSIDE_HOURS"}
  BY DEF Refusal

LEMMA InitTypeInv == Init => TypeInv
  BY DEF Init, Redis!Init, TypeInv, TypeOK, Redis!TypeOK, Chosen, Booked

(* The steps of a request that do not touch the lock table.                *)
LEMMA PlainStepType ==
    ASSUME NEW r \in Requests, TypeInv,
           \/ Arrive(r) \/ Replay(r) \/ NoReplay(r) \/ Validate(r)
           \/ FindBay(r) \/ FindTech(r) \/ RecheckBay(r) \/ RecheckTech(r)
           \/ Insert(r) \/ Commit(r) \/ Remember(r) \/ Publish(r)
           \/ ReadError(r) \/ WriteError(r) \/ RememberError(r)
    PROVE  TypeInv'
  <1> USE DEF TypeInv, TypeOK, Redis!TypeOK, Chosen, Booked, Goto, Report, Reply,
              row, locks, effects, cancels
  <1>1. CASE Arrive(r)
    BY <1>1 DEF Arrive
  <1>2. CASE Replay(r)
    BY <1>2, IdemKeyTyped DEF Replay, Known
  <1>3. CASE NoReplay(r)
    BY <1>3 DEF NoReplay
  <1>4. CASE Validate(r)
    BY <1>4, RefusalTyped DEF Validate
  <1>5. CASE FindBay(r)
    BY <1>5 DEF FindBay
  <1>6. CASE FindTech(r)
    BY <1>6 DEF FindTech
  <1>7. CASE RecheckBay(r)
    BY <1>7 DEF RecheckBay
  <1>8. CASE RecheckTech(r)
    BY <1>8 DEF RecheckTech
  <1>9. CASE Insert(r)
    BY <1>9 DEF Insert
  <1>10. CASE Commit(r)
    BY <1>10 DEF Commit
  <1>11. CASE Remember(r)
    BY <1>11, IdemKeyTyped DEF Remember, Remembered
  <1>12. CASE Publish(r)
    BY <1>12 DEF Publish
  <1>13. CASE ReadError(r)
    BY <1>13 DEF ReadError
  <1>14. CASE WriteError(r)
    BY <1>14 DEF WriteError
  <1>15. CASE RememberError(r)
    BY <1>15, IdemKeyTyped DEF RememberError, Remembered
  <1> QED
    BY <1>1, <1>2, <1>3, <1>4, <1>5, <1>6, <1>7, <1>8, <1>9, <1>10, <1>11,
       <1>12, <1>13, <1>14, <1>15

(* The steps of a request that do.                                         *)
LEMMA LockStepType ==
    ASSUME NEW r \in Requests, TypeInv,
           \/ LockBay(r) \/ LockTech(r) \/ Release(r)
           \/ LockError(r) \/ ReleaseError(r) \/ Crash(r)
    PROVE  TypeInv'
  <1> USE DEF TypeInv, TypeOK, Redis!TypeOK, Chosen, Booked, Goto, Report, Reply,
              row, locks, effects, cancels
  <1>1. CASE LockBay(r)
    BY <1>1, KeysTyped DEF LockBay, Redis!Acquire, Redis!Refuse, Redis!lockVars
  <1>2. CASE LockTech(r)
    BY <1>2, KeysTyped DEF LockTech, Redis!Acquire, Redis!Refuse, Redis!lockVars
  <1>3. CASE Release(r)
    BY <1>3, KeysTyped DEF Release, Redis!Release, Redis!Deleted, RollBack
  <1>4. CASE LockError(r)
    BY <1>4, KeysTyped DEF LockError, Redis!AcquireError
  <1>5. CASE ReleaseError(r)
    BY <1>5, KeysTyped DEF ReleaseError, Redis!ReleaseError, Redis!Deleted, RollBack
  <1>6. CASE Crash(r)
    BY <1>6 DEF Crash, Redis!Crash, RollBack
  <1> QED
    BY <1>1, <1>2, <1>3, <1>4, <1>5, <1>6

(* Cancellations, expiries, the clock.                                     *)
LEMMA OtherStepType ==
    ASSUME TypeInv,
           \/ \E c \in Cancels : CancelRead(c) \/ CancelWrite(c) \/ CancelError(c)
           \/ \E k \in LockKeys : LockExpires(k)
           \/ \E i \in IdemKeys : IdemExpires(i)
           \/ Tick
           \/ UNCHANGED vars
    PROVE  TypeInv'
  <1> USE DEF TypeInv, TypeOK, Redis!TypeOK, Chosen, Booked,
              row, locks, effects, cancels
  <1>1. ASSUME NEW c \in Cancels, CancelRead(c) PROVE TypeInv'
    BY <1>1 DEF CancelRead
  <1>2. ASSUME NEW c \in Cancels, CancelWrite(c) \/ CancelError(c) PROVE TypeInv'
    BY <1>2 DEF CancelWrite, CancelError, Cancelled
  <1>3. ASSUME NEW k \in LockKeys, LockExpires(k) PROVE TypeInv'
    BY <1>3 DEF LockExpires, Redis!Expire
  <1>4. ASSUME NEW i \in IdemKeys, IdemExpires(i) PROVE TypeInv'
    BY <1>4 DEF IdemExpires
  <1>5. CASE Tick
    BY <1>5 DEF Tick
  <1>6. CASE UNCHANGED vars
    BY <1>6 DEF vars
  <1> QED
    BY <1>1, <1>2, <1>3, <1>4, <1>5, <1>6

LEMMA NextTypeInv == TypeInv /\ [Next]_vars => TypeInv'
  BY PlainStepType, LockStepType, OtherStepType DEF Next, Step, Fault, Rest

(* Every variable keeps its type, and a request that uses a bay and a      *)
(* technician has found them (all of create_appointment and                *)
(* cancel_appointment).                                                    *)
THEOREM TypeCorrect == Spec => []TypeOK
  <1>1. TypeInv => TypeOK
    BY DEF TypeInv
  <1> QED
    BY <1>1, InitTypeInv, NextTypeInv, PTL DEF Spec

-----------------------------------------------------------------------------
(* Rows.  A row is open exactly while its request stands between INSERT    *)
(* and the end of its session; it is committed once and then only          *)
(* cancelled; and a cancellation is only written over a committed row.     *)
Unwritten == {"idle", "idem", "validate", "bay", "tech", "lockBay", "lockTech",
              "recheckBay", "recheckTech", "insert"}

RowPlaces ==
    /\ \A r \in Requests :
          /\ pc[r] \in Unwritten => status[r] = "none"
          /\ pc[r] = "commit" => status[r] = "flushed"
          /\ status[r] = "flushed" => pc[r] \in {"commit", "release"}
          /\ pc[r] = "release" /\ result[r] = "none" => Committed(r)
          /\ pc[r] \in {"remember", "publish"} => Committed(r)
    /\ \A c \in Cancels : cpc[c] = "write" => Committed(ctarget[c])

(* The exclusion constraints, over open rows too: an INSERT that got       *)
(* through can be committed whatever commits first.                        *)
Live(a) == status[a] \in {"flushed", "CONFIRMED"}

RowsApart ==
    \A a, b \in Requests : Live(a) /\ Live(b) => ~Excludes(a, b)

RowInv == TypeInv /\ RowPlaces /\ RowsApart

LEMMA ExcludesSymmetric ==
    ASSUME NEW a, NEW b
    PROVE  Excludes(a, b) <=> Excludes(b, a)
  BY DEF Excludes, Overlap, Overlaps

(* A step that makes no row live, and moves no live row, keeps rows apart. *)
LEMMA StayApart ==
    ASSUME RowsApart, ask' = ask,
           \A a \in Requests :
               Live(a)' => Live(a) /\ bay'[a] = bay[a] /\ tech'[a] = tech[a]
    PROVE  RowsApart'
  BY DEF RowsApart, Excludes, Overlap

(* A request's bay and technician change only while it has no row, and     *)
(* only an INSERT makes a row live.                                        *)
LEMMA RequestApart ==
    ASSUME NEW r \in Requests, RowInv, Step(r) \/ Fault(r)
    PROVE  RowsApart'
  <1> USE DEF RowInv, TypeInv, TypeOK, RowPlaces, Live, Unwritten, Goto, Report,
              Reply, row, locks, effects, cancels
  <1>1. CASE Insert(r)
    <2> SUFFICES ASSUME NEW a \in Requests, NEW b \in Requests,
                        Live(a)', Live(b)', Excludes(a, b)'
                 PROVE  FALSE
      BY DEF RowsApart
    <2>1. Excludes(a, b) /\ Excludes(b, a)
      BY <1>1, ExcludesSymmetric DEF Insert, Excludes, Overlap
    <2>2. a # b
      BY <2>1 DEF Excludes
    <2>3. CASE a # r /\ b # r
      <3>1. Live(a) /\ Live(b)
        BY <1>1, <2>3 DEF Insert
      <3> QED
        BY <2>1, <3>1 DEF RowsApart
    <2>4. CASE a = r \/ b = r
      <3>1. PICK o \in {a, b} : o # r /\ Live(o)' /\ Excludes(o, r)
        BY <2>1, <2>2, <2>4
      <3>2. Live(o)
        BY <1>1, <3>1 DEF Insert
      <3>3. Live(r)'
        BY <2>4
      <3>4. status[r] = "none" /\ status'[r] # status[r]
        BY <1>1, <3>3 DEF Insert
      <3> QED
        BY <1>1, <3>1, <3>2, <3>4 DEF Insert
    <2> QED
      BY <2>3, <2>4
  <1>2. CASE FindBay(r) \/ FindTech(r)
    BY <1>2, StayApart DEF FindBay, FindTech
  <1>3. CASE Commit(r) \/ WriteError(r)
    BY <1>3, StayApart DEF Commit, WriteError
  <1>4. CASE Release(r) \/ ReleaseError(r) \/ Crash(r)
    BY <1>4, StayApart DEF Release, ReleaseError, Crash, RollBack
  <1>5. CASE \/ Arrive(r) \/ Replay(r) \/ NoReplay(r) \/ Validate(r)
             \/ LockBay(r) \/ LockTech(r) \/ RecheckBay(r) \/ RecheckTech(r)
             \/ Remember(r) \/ Publish(r) \/ ReadError(r) \/ LockError(r)
             \/ RememberError(r)
    BY <1>5, StayApart DEF Arrive, Replay, NoReplay, Validate, LockBay, LockTech,
         RecheckBay, RecheckTech, Remember, Publish, ReadError, LockError,
         RememberError
  <1> QED
    BY <1>1, <1>2, <1>3, <1>4, <1>5 DEF Step, Fault

(* Each step leaves its own row where its next place wants it, and never   *)
(* undoes a committed one.                                                 *)
LEMMA RequestPlaces ==
    ASSUME NEW r \in Requests, RowInv, Step(r) \/ Fault(r)
    PROVE  RowPlaces'
  <1> USE DEF RowInv, TypeInv, TypeOK, Chosen, RowPlaces, Unwritten, Committed,
              Goto, Report, Reply, row, locks, effects, cancels
  <1>1. CASE Arrive(r) \/ Replay(r)
    BY <1>1 DEF Arrive, Replay
  <1>2. CASE NoReplay(r) \/ Validate(r)
    BY <1>2 DEF NoReplay, Validate
  <1>3. CASE FindBay(r)
    BY <1>3 DEF FindBay
  <1>4. CASE FindTech(r)
    BY <1>4 DEF FindTech
  <1>5. CASE LockBay(r) \/ LockTech(r)
    BY <1>5 DEF LockBay, LockTech
  <1>6. CASE RecheckBay(r) \/ RecheckTech(r)
    BY <1>6 DEF RecheckBay, RecheckTech
  <1>7. CASE Insert(r)
    BY <1>7 DEF Insert
  <1>13. CASE Commit(r)
    BY <1>13 DEF Commit
  <1>8. CASE Release(r)
    BY <1>8 DEF Release, RollBack
  <1>9. CASE ReleaseError(r) \/ Crash(r)
    BY <1>9 DEF ReleaseError, Crash, RollBack
  <1>10. CASE Remember(r) \/ Publish(r) \/ RememberError(r)
    BY <1>10 DEF Remember, Publish, RememberError
  <1>11. CASE ReadError(r) \/ LockError(r)
    BY <1>11 DEF ReadError, LockError
  <1>12. CASE WriteError(r)
    BY <1>12 DEF WriteError
  <1> QED
    BY <1>1, <1>2, <1>3, <1>4, <1>5, <1>6, <1>7, <1>8, <1>9, <1>10, <1>11,
       <1>12, <1>13 DEF Step, Fault

(* A cancellation turns a committed row into a cancelled one; the          *)
(* environment touches no row.                                             *)
LEMMA OtherRows ==
    ASSUME RowInv,
           \/ \E c \in Cancels : CancelRead(c) \/ CancelWrite(c) \/ CancelError(c)
           \/ \E k \in LockKeys : LockExpires(k)
           \/ \E i \in IdemKeys : IdemExpires(i)
           \/ Tick
           \/ UNCHANGED vars
    PROVE  RowPlaces' /\ RowsApart'
  <1> USE DEF RowInv, TypeInv, TypeOK, Chosen, RowPlaces, Live, Unwritten,
              Committed, row, locks, effects, cancels
  <1>1. ASSUME NEW c \in Cancels, CancelRead(c)
        PROVE  RowPlaces' /\ RowsApart'
    BY <1>1, StayApart DEF CancelRead
  <1>2. ASSUME NEW c \in Cancels, CancelWrite(c) \/ CancelError(c)
        PROVE  RowPlaces' /\ RowsApart'
    BY <1>2, StayApart DEF CancelWrite, CancelError, Cancelled
  <1>3. ASSUME \/ \E k \in LockKeys : LockExpires(k)
               \/ \E i \in IdemKeys : IdemExpires(i)
               \/ Tick
               \/ UNCHANGED vars
        PROVE  RowPlaces' /\ RowsApart'
    BY <1>3, StayApart DEF LockExpires, IdemExpires, Tick, vars
  <1> QED
    BY <1>1, <1>2, <1>3

LEMMA RowInvariant == Spec => []RowInv
  <1>1. Init => RowInv
    BY InitTypeInv DEF Init, RowInv, RowPlaces, RowsApart, Live, Unwritten
  <1>2. RowInv /\ [Next]_vars => RowInv'
    BY NextTypeInv, RequestApart, RequestPlaces, OtherRows DEF RowInv, Next, Rest
  <1> QED
    BY <1>1, <1>2, PTL DEF Spec

(* No bay and no technician is ever booked twice for one moment, by        *)
(* whatever faults: expired locks, lost replies, crashes, failed commits.  *)
THEOREM NoDoubleBookingAlways == Spec => []NoDoubleBooking
  <1>1. RowInv => NoDoubleBooking
    BY DEF RowInv, RowsApart, Live, Excludes, NoDoubleBooking
  <1> QED
    BY <1>1, RowInvariant, PTL

-----------------------------------------------------------------------------
(***************************************************************************)
(* What comes of a booking: replies, side effects, rows that are legal.    *)
(***************************************************************************)
(* A committed row stays in the database: no step of any request, and no   *)
(* failure, removes it.                                                    *)
LEMMA CommittedStays ==
    ASSUME RowInv, [Next]_vars, NEW a \in Requests, Committed(a)
    PROVE  Committed(a)'
  <1> USE DEF RowInv, TypeInv, TypeOK, RowPlaces, Unwritten, Committed,
              Goto, Report, Reply, row, locks, effects, cancels
  <1>1. ASSUME NEW r \in Requests, Insert(r) \/ Commit(r) \/ WriteError(r)
        PROVE  Committed(a)'
    BY <1>1 DEF Insert, Commit, WriteError
  <1>2. ASSUME NEW r \in Requests, Release(r) \/ ReleaseError(r) \/ Crash(r)
        PROVE  Committed(a)'
    BY <1>2 DEF Release, ReleaseError, Crash, RollBack
  <1>3. ASSUME NEW r \in Requests, Step(r) \/ Fault(r)
        PROVE  Committed(a)'
    BY <1>1, <1>2, <1>3 DEF Step, Fault, Arrive, Replay, NoReplay, Validate,
         FindBay, FindTech, LockBay, LockTech, RecheckBay, RecheckTech, Remember,
         Publish, ReadError, LockError, RememberError
  <1>4. ASSUME NEW c \in Cancels, CancelRead(c) \/ CancelWrite(c) \/ CancelError(c)
        PROVE  Committed(a)'
    BY <1>4 DEF CancelRead, CancelWrite, CancelError, Cancelled
  <1>5. ASSUME \/ \E k \in LockKeys : LockExpires(k)
               \/ \E i \in IdemKeys : IdemExpires(i)
               \/ Tick
               \/ UNCHANGED vars
        PROVE  Committed(a)'
    BY <1>5 DEF LockExpires, IdemExpires, Tick, vars
  <1> QED
    BY <1>3, <1>4, <1>5 DEF Next, Rest

-----------------------------------------------------------------------------
(* Replies and side effects.  A request reports a result only when it is   *)
(* over or on its way out, and what it reports fits its row.               *)
Working == {"idle", "idem", "validate", "bay", "tech", "lockBay", "lockTech",
            "recheckBay", "recheckTech", "insert", "commit", "remember",
            "publish"}

Reported ==
    \A r \in Requests :
        /\ pc[r] \in Working => result[r] = "none"
        /\ result[r] = "CREATED" => Committed(r)
        /\ result[r] \in Refusals \cup {"INTEGRITY_ERROR"} => status[r] = "none"

OutcomeInv == RowInv /\ Reported /\ EffectsFollowCommit

LEMMA RequestReports ==
    ASSUME NEW r \in Requests, OutcomeInv, Step(r) \/ Fault(r)
    PROVE  Reported'
  <1> USE DEF OutcomeInv, Reported, Refusals, Working, RowInv, TypeInv, TypeOK,
              RowPlaces, Unwritten, Committed, Goto, Report, Reply, row, locks,
              effects, cancels
  <1>1. CASE Arrive(r) \/ Replay(r) \/ NoReplay(r)
    BY <1>1 DEF Arrive, Replay, NoReplay
  <1>2. CASE Validate(r)
    BY <1>2, RefusalTyped DEF Validate
  <1>3. CASE FindBay(r)
    BY <1>3 DEF FindBay
  <1>4. CASE FindTech(r)
    BY <1>4 DEF FindTech
  <1>5. CASE LockBay(r) \/ LockTech(r)
    BY <1>5 DEF LockBay, LockTech
  <1>6. CASE RecheckBay(r) \/ RecheckTech(r)
    BY <1>6 DEF RecheckBay, RecheckTech
  <1>7. CASE Insert(r)
    BY <1>7 DEF Insert
  <1>8. CASE Commit(r)
    BY <1>8 DEF Commit
  <1>9. CASE Release(r)
    BY <1>9 DEF Release, RollBack
  <1>10. CASE ReleaseError(r) \/ Crash(r)
    BY <1>10 DEF ReleaseError, Crash, RollBack
  <1>11. CASE Remember(r) \/ Publish(r) \/ RememberError(r)
    BY <1>11 DEF Remember, Publish, RememberError
  <1>12. CASE ReadError(r) \/ LockError(r)
    BY <1>12 DEF ReadError, LockError
  <1>13. CASE WriteError(r)
    BY <1>13 DEF WriteError
  <1> QED
    BY <1>1, <1>2, <1>3, <1>4, <1>5, <1>6, <1>7, <1>8, <1>9, <1>10, <1>11,
       <1>12, <1>13 DEF Step, Fault

LEMMA OtherReports ==
    ASSUME OutcomeInv,
           \/ \E c \in Cancels : CancelRead(c) \/ CancelWrite(c) \/ CancelError(c)
           \/ \E k \in LockKeys : LockExpires(k)
           \/ \E i \in IdemKeys : IdemExpires(i)
           \/ Tick
           \/ UNCHANGED vars
    PROVE  Reported'
  <1> USE DEF OutcomeInv, Reported, RowInv, TypeInv, TypeOK, Chosen, RowPlaces,
              Committed, row, locks, effects, cancels
  <1>1. ASSUME NEW c \in Cancels, CancelRead(c) \/ CancelWrite(c) \/ CancelError(c)
        PROVE  Reported'
    BY <1>1 DEF CancelRead, CancelWrite, CancelError, Cancelled
  <1>2. ASSUME \/ \E k \in LockKeys : LockExpires(k)
               \/ \E i \in IdemKeys : IdemExpires(i)
               \/ Tick
               \/ UNCHANGED vars
        PROVE  Reported'
    BY <1>2 DEF LockExpires, IdemExpires, Tick, vars
  <1> QED
    BY <1>1, <1>2

(* The queue and the idempotency keys gain only the request whose own row  *)
(* is committed by then.                                                   *)
LEMMA EffectsStep ==
    ASSUME OutcomeInv, [Next]_vars
    PROVE  EffectsFollowCommit'
  <1>1. ASSUME NEW r \in Requests, Step(r) \/ Fault(r)
        PROVE  /\ queue' \subseteq queue \cup {r}
               /\ r \in queue' => r \in queue \/ Committed(r)
               /\ \/ idem' = idem
                  \/ idem' = Remembered(r) /\ Committed(r)
    BY <1>1 DEF OutcomeInv, RowInv, RowPlaces, Step, Fault, Arrive, Replay,
         NoReplay, Validate, FindBay, FindTech, LockBay, LockTech, RecheckBay,
         RecheckTech, Insert, Commit, Release, Remember, Publish, ReadError,
         LockError, WriteError, ReleaseError, RememberError, Crash, effects
  <1>2. ASSUME \/ \E c \in Cancels : CancelRead(c) \/ CancelWrite(c) \/ CancelError(c)
               \/ \E k \in LockKeys : LockExpires(k)
               \/ Tick
               \/ UNCHANGED vars
        PROVE  UNCHANGED effects
    BY <1>2 DEF CancelRead, CancelWrite, CancelError, LockExpires, Tick, vars, effects
  <1>3. ASSUME \E i \in IdemKeys : IdemExpires(i)
        PROVE  queue' = queue /\ \A i \in IdemKeys : idem'[i] \in {idem[i], NoOne}
    BY <1>3 DEF IdemExpires, OutcomeInv, RowInv, TypeInv, TypeOK
  <1>4. /\ \A a \in Requests : Committed(a) => Committed(a)'
        /\ queue \subseteq Requests
        /\ idem \in [IdemKeys -> Requests \cup {NoOne}]
    BY CommittedStays DEF OutcomeInv, RowInv, TypeInv, TypeOK
  <1>5. ASSUME NEW r \in Requests, Step(r) \/ Fault(r)
        PROVE  EffectsFollowCommit'
    BY <1>1, <1>4, <1>5 DEF OutcomeInv, EffectsFollowCommit, Remembered
  <1>6. ASSUME UNCHANGED effects
        PROVE  EffectsFollowCommit'
    BY <1>4, <1>6 DEF OutcomeInv, EffectsFollowCommit, effects
  <1>7. ASSUME \E i \in IdemKeys : IdemExpires(i)
        PROVE  EffectsFollowCommit'
    BY <1>3, <1>4, <1>7 DEF OutcomeInv, EffectsFollowCommit
  <1> QED
    BY <1>2, <1>5, <1>6, <1>7 DEF Next, Rest

LEMMA OutcomeInvariant == Spec => []OutcomeInv
  <1>1. Init => OutcomeInv
    BY InitTypeInv DEF Init, OutcomeInv, Reported, Refusals, EffectsFollowCommit,
       RowInv, RowPlaces, RowsApart, Live, Unwritten
  <1>2. RowInv' /\ OutcomeInv /\ [Next]_vars => OutcomeInv'
    BY RequestReports, OtherReports, EffectsStep DEF OutcomeInv, Next, Rest
  <1> QED
    BY <1>1, <1>2, RowInvariant, PTL DEF Spec

(* Neither a notification nor an idempotency key ever names an appointment *)
(* that is not in the database (create_appointment's step 5).              *)
THEOREM EffectsFollowCommitAlways == Spec => []EffectsFollowCommit
  BY OutcomeInvariant, PTL DEF OutcomeInv

(* A 201 is a committed row, a refusal left none, and nobody ends with an  *)
(* open transaction (create_appointment and its error paths).              *)
THEOREM RepliesAreTruthfulAlways == Spec => []RepliesAreTruthful
  <1>1. OutcomeInv => RepliesAreTruthful
    BY DEF OutcomeInv, Reported, RowInv, RowPlaces, RepliesAreTruthful, Ended
  <1> QED
    BY <1>1, OutcomeInvariant, PTL

-----------------------------------------------------------------------------
(* What a row holds was vetted before it was written: by the time a        *)
(* request looks for a bay its references and hours are in order, and the  *)
(* bay and technician it carries are usable for its payload.               *)
HasRow(r) == status[r] # "none"

Vetted ==
    \A r \in Requests :
        /\ pc[r] \in Booked \cup {"bay", "tech"} \/ HasRow(r)
               => Refusal(ask[r]) = "none"
        /\ pc[r] \in Booked \cup {"tech"} \/ HasRow(r)
               => bay[r] \in Bays /\ UsableBay(bay[r], ask[r])
        /\ pc[r] \in Booked \/ HasRow(r)
               => tech[r] \in Techs /\ Qualified(tech[r], ask[r])

LegalInv == RowInv /\ Vetted

LEMMA RequestVetted ==
    ASSUME NEW r \in Requests, LegalInv, Step(r) \/ Fault(r)
    PROVE  Vetted'
  <1> USE DEF LegalInv, Vetted, HasRow, Booked, RowInv, TypeInv, TypeOK, RowPlaces,
              Unwritten, UsableBay, Qualified, Goto, Report, Reply, row, locks,
              effects, cancels
  <1>1. CASE Arrive(r) \/ Replay(r) \/ NoReplay(r)
    BY <1>1 DEF Arrive, Replay, NoReplay
  <1>2. CASE Validate(r)
    BY <1>2 DEF Validate
  <1>3. CASE FindBay(r)
    BY <1>3 DEF FindBay
  <1>4. CASE FindTech(r)
    BY <1>4 DEF FindTech
  <1>5. CASE LockBay(r) \/ LockTech(r)
    BY <1>5 DEF LockBay, LockTech
  <1>6. CASE RecheckBay(r) \/ RecheckTech(r)
    BY <1>6 DEF RecheckBay, RecheckTech
  <1>7. CASE Insert(r) \/ Commit(r)
    BY <1>7 DEF Insert, Commit
  <1>8. CASE Release(r)
    BY <1>8 DEF Release, RollBack
  <1>9. CASE ReleaseError(r) \/ Crash(r)
    BY <1>9 DEF ReleaseError, Crash, RollBack
  <1>10. CASE Remember(r) \/ Publish(r) \/ RememberError(r)
    BY <1>10 DEF Remember, Publish, RememberError
  <1>11. CASE ReadError(r) \/ LockError(r)
    BY <1>11 DEF ReadError, LockError
  <1>12. CASE WriteError(r)
    BY <1>12 DEF WriteError
  <1> QED
    BY <1>1, <1>2, <1>3, <1>4, <1>5, <1>6, <1>7, <1>8, <1>9, <1>10, <1>11,
       <1>12 DEF Step, Fault

LEMMA OtherVetted ==
    ASSUME LegalInv,
           \/ \E c \in Cancels : CancelRead(c) \/ CancelWrite(c) \/ CancelError(c)
           \/ \E k \in LockKeys : LockExpires(k)
           \/ \E i \in IdemKeys : IdemExpires(i)
           \/ Tick
           \/ UNCHANGED vars
    PROVE  Vetted'
  <1> USE DEF LegalInv, Vetted, HasRow, RowInv, TypeInv, TypeOK, Chosen, RowPlaces,
              Committed, row, locks, effects, cancels
  <1>1. ASSUME NEW c \in Cancels, CancelRead(c) \/ CancelWrite(c) \/ CancelError(c)
        PROVE  Vetted'
    BY <1>1 DEF CancelRead, CancelWrite, CancelError, Cancelled
  <1>2. ASSUME \/ \E k \in LockKeys : LockExpires(k)
               \/ \E i \in IdemKeys : IdemExpires(i)
               \/ Tick
               \/ UNCHANGED vars
        PROVE  Vetted'
    BY <1>2 DEF LockExpires, IdemExpires, Tick, vars
  <1> QED
    BY <1>1, <1>2

LEMMA LegalInvariant == Spec => []LegalInv
  <1>1. Init => LegalInv
    BY InitTypeInv DEF Init, LegalInv, Vetted, HasRow, Booked, RowInv, RowPlaces,
       RowsApart, Live, Unwritten
  <1>2. RowInv' /\ LegalInv /\ [Next]_vars => LegalInv'
    BY RequestVetted, OtherVetted DEF LegalInv, Next, Rest
  <1> QED
    BY <1>1, <1>2, RowInvariant, PTL DEF Spec

(* Every appointment in the database is one the business rules allow       *)
(* (steps 1 to 3 of create_appointment).                                   *)
THEOREM AssignmentsLegalAlways == Spec => []AssignmentsLegal
  <1>1. LegalInv => AssignmentsLegal
    BY DEF LegalInv, Vetted, HasRow, Committed, AssignmentsLegal, Refusal,
       UnknownService, UsableBay, Qualified
  <1> QED
    BY <1>1, LegalInvariant, PTL

-----------------------------------------------------------------------------
(* Replays.  A key of the idempotency namespace names an appointment of    *)
(* the customer and key it is made of, and so does every replayed answer.  *)
KeysName ==
    \A i \in IdemKeys : idem[i] # NoOne => IdemKey(idem[i]) = i

AnswersOwn ==
    \A r \in Requests : result[r] = "REPLAYED" =>
        /\ answer[r] \in Requests /\ Committed(answer[r])
        /\ IdemKey(answer[r]) = IdemKey(r)

ReplayInv == OutcomeInv /\ KeysName /\ AnswersOwn

LEMMA StepKeepsKeys ==
    ASSUME ReplayInv, [Next]_vars
    PROVE  KeysName'
  <1> USE DEF row, locks, effects, cancels
  <1>1. /\ ask' = ask
        /\ \/ \A i \in IdemKeys : idem'[i] \in {idem[i], NoOne}
           \/ \E r \in Requests : idem' = Remembered(r)
    BY DEF ReplayInv, OutcomeInv, RowInv, TypeInv, TypeOK, Next, Rest, Step, Fault,
       Arrive, Replay, NoReplay, Validate, FindBay, FindTech, LockBay, LockTech,
       RecheckBay, RecheckTech, Insert, Commit, Release, Remember, Publish,
       ReadError, LockError, WriteError, ReleaseError, RememberError, Crash,
       CancelRead, CancelWrite, CancelError, LockExpires, IdemExpires, Tick, vars
  <1>2. CASE \A i \in IdemKeys : idem'[i] \in {idem[i], NoOne}
    BY <1>1, <1>2 DEF ReplayInv, KeysName, IdemKey
  <1>3. CASE \E r \in Requests : idem' = Remembered(r)
    BY <1>1, <1>3 DEF ReplayInv, OutcomeInv, RowInv, TypeInv, TypeOK, KeysName,
       IdemKey, Remembered
  <1> QED
    BY <1>1, <1>2, <1>3

LEMMA StepKeepsAnswers ==
    ASSUME ReplayInv, [Next]_vars
    PROVE  AnswersOwn'
  <1> USE DEF row, locks, effects, cancels
  <1>1. ask' = ask /\ \A a \in Requests : Committed(a) => Committed(a)'
    BY CommittedStays DEF ReplayInv, OutcomeInv, Next, Rest, Step, Fault,
       Arrive, Replay, NoReplay, Validate, FindBay, FindTech, LockBay, LockTech,
       RecheckBay, RecheckTech, Insert, Commit, Release, Remember, Publish,
       ReadError, LockError, WriteError, ReleaseError, RememberError, Crash,
       CancelRead, CancelWrite, CancelError, LockExpires, IdemExpires, Tick, vars
  <1>2. ASSUME NEW r \in Requests, Replay(r)
        PROVE  AnswersOwn'
    <2>1. /\ idem[IdemKey(r)] \in Requests /\ Committed(idem[IdemKey(r)])
          /\ IdemKey(idem[IdemKey(r)]) = IdemKey(r)
      BY <1>2, IdemKeyTyped DEF Replay, Known, ReplayInv, OutcomeInv, RowInv,
         TypeInv, TypeOK, KeysName
    <2>2. /\ answer' = [answer EXCEPT ![r] = idem[IdemKey(r)]]
          /\ result' = [result EXCEPT ![r] = "REPLAYED"]
      BY <1>2 DEF Replay, Reply, Report
    <2> QED
      BY <1>1, <2>1, <2>2 DEF ReplayInv, OutcomeInv, RowInv, TypeInv, TypeOK,
         AnswersOwn, IdemKey
  <1>3. ASSUME NEW q \in Requests, result'[q] = "REPLAYED",
               ~ \E r \in Requests : Replay(r)
        PROVE  result[q] = "REPLAYED" /\ answer'[q] = answer[q]
    BY <1>3, RefusalTyped DEF ReplayInv, OutcomeInv, Reported, Working, RowInv,
       TypeInv, TypeOK, Goto, Report, Reply, Next, Rest, Step, Fault,
       Arrive, NoReplay, Validate, FindBay, FindTech, LockBay, LockTech,
       RecheckBay, RecheckTech, Insert, Commit, Release, Remember, Publish,
       ReadError, LockError, WriteError, ReleaseError, RememberError, Crash,
       CancelRead, CancelWrite, CancelError, LockExpires, IdemExpires, Tick, vars
  <1> QED
    BY <1>1, <1>2, <1>3 DEF ReplayInv, AnswersOwn, IdemKey

(* A replay returns a committed appointment that the caller booked under   *)
(* the same key (step 0 of create_appointment).                            *)
THEOREM ReplayIsOwnAlways == Spec => []ReplayIsOwn
  <1>1. Init => KeysName /\ AnswersOwn
    BY DEF Init, KeysName, AnswersOwn
  <1>2. OutcomeInv /\ KeysName /\ AnswersOwn /\ [Next]_vars
            => KeysName' /\ AnswersOwn'
    BY StepKeepsKeys, StepKeepsAnswers DEF ReplayInv
  <1>3. OutcomeInv /\ AnswersOwn => ReplayIsOwn
    BY DEF AnswersOwn, ReplayIsOwn, IdemKey
  <1> QED
    BY <1>1, <1>2, <1>3, OutcomeInvariant, PTL DEF Spec

(* The key is stored before the reply and names a committed appointment    *)
(* for as long as it is not forgotten, so that a retry finds it.           *)
KeyKept ==
    "forget" \notin Faults => \A a \in Requests :
        /\ ask[a].key # NoKey
        /\ pc[a] = "publish" \/ result[a] = "CREATED"
        => idem[IdemKey(a)] # NoOne

LEMMA StepKeepsKept ==
    ASSUME OutcomeInv, KeyKept, [Next]_vars
    PROVE  KeyKept'
  <1> SUFFICES ASSUME "forget" \notin Faults, NEW a \in Requests,
                      ask'[a].key # NoKey,
                      pc'[a] = "publish" \/ result'[a] = "CREATED"
               PROVE  (idem[IdemKey(a)] # NoOne)'
    BY DEF KeyKept
  <1> USE DEF OutcomeInv, RowInv, TypeInv, TypeOK, Goto, Report, Reply, row,
              locks, effects, cancels
  <1>1. /\ ask' = ask
        /\ \/ idem' = idem
           \/ \E r \in Requests : idem' = Remembered(r)
    BY DEF Next, Rest, Step, Fault, Arrive, Replay, NoReplay, Validate,
       FindBay, FindTech, LockBay, LockTech, RecheckBay, RecheckTech, Insert,
       Commit, Release, Remember, Publish, ReadError, LockError, WriteError,
       ReleaseError, RememberError, Crash, CancelRead, CancelWrite,
       CancelError, LockExpires, IdemExpires, Tick, vars
  <1>2. IdemKey(a)' = IdemKey(a) /\ IdemKey(a) \in IdemKeys
    BY <1>1, IdemKeyTyped DEF IdemKey
  <1>3. idem[IdemKey(a)] # NoOne => idem'[IdemKey(a)] # NoOne
    BY <1>1, <1>2, RequestsAssumption DEF Remembered
  <1>4. CASE pc[a] = "publish" \/ result[a] = "CREATED"
    BY <1>1, <1>2, <1>3, <1>4 DEF KeyKept
  <1>5. CASE pc[a] # "publish" /\ result[a] # "CREATED"
    <2>1. Remember(a)
      BY <1>1, <1>5, RefusalTyped DEF Next, Rest, Step, Fault, Arrive, Replay,
         NoReplay, Validate, FindBay, FindTech, LockBay, LockTech, RecheckBay,
         RecheckTech, Insert, Commit, Release, Remember, Publish, ReadError,
         LockError, WriteError, ReleaseError, RememberError, Crash,
         CancelRead, CancelWrite, CancelError, LockExpires, IdemExpires, Tick,
         vars
    <2> QED
      BY <1>2, <2>1, RequestsAssumption DEF Remember, Remembered
  <1> QED
    BY <1>4, <1>5

(* A retry that comes after the 201 is replayed (step 0 and step 5 of      *)
(* create_appointment, in this order: remember, publish, answer).          *)
THEOREM RetryIsReplayedAlways == Spec => RetryIsReplayed
  <1>1. Init => KeyKept
    BY DEF Init, KeyKept
  <1>2. OutcomeInv /\ KeyKept /\ [Next]_vars => KeyKept'
    BY StepKeepsKept
  <1>3. ASSUME OutcomeInv, KeyKept, [Next]_vars,
               NEW a \in Requests, NEW r \in Requests,
               "forget" \notin Faults, result[a] = "CREATED",
               ask[a].key # NoKey, IdemKey(a) = IdemKey(r), pc[r] = "idem"
        PROVE  pc'[r] # "validate"
    <2>1. Known(r)
      BY <1>3, IdemKeyTyped DEF KeyKept, Known, OutcomeInv,
         EffectsFollowCommit, RowInv, TypeInv
    <2> QED
      BY <1>3, <2>1 DEF Next, Rest, Step, Fault, Arrive, Replay, NoReplay,
         Validate, FindBay, FindTech, LockBay, LockTech, RecheckBay,
         RecheckTech, Insert, Commit, Release, Remember, Publish, ReadError,
         LockError, WriteError, ReleaseError, RememberError, Crash,
         CancelRead, CancelWrite, CancelError, LockExpires, IdemExpires, Tick,
         vars, OutcomeInv, RowInv, TypeInv, TypeOK, Goto, Report, Reply, row,
         locks, effects, cancels
  <1>4. OutcomeInv /\ KeyKept /\ [Next]_vars =>
            [\A a, r \in Requests :
                /\ "forget" \notin Faults
                /\ result[a] = "CREATED"
                /\ ask[a].key # NoKey /\ IdemKey(a) = IdemKey(r)
                => ~(pc[r] = "idem" /\ pc'[r] = "validate")]_vars
    BY <1>3
  <1> QED
    BY <1>1, <1>2, <1>4, OutcomeInvariant, PTL DEF Spec, RetryIsReplayed

-----------------------------------------------------------------------------
(* Cancellations.  One that is about to be written was found in time, and  *)
(* the appointment's start does not move.                                  *)
Timely ==
    \A c \in Cancels : cpc[c] = "write" => cnow[c] < ask[ctarget[c]].start

LEMMA RequestTimely ==
    ASSUME RowInv, Timely, CancelledInTime, NEW r \in Requests, Step(r) \/ Fault(r)
    PROVE  Timely' /\ CancelledInTime'
  <1> USE DEF row, locks, effects, cancels
  <1>1. UNCHANGED <<ask, cancelledAt, cancels>>
    BY DEF Step, Fault, Arrive, Replay, NoReplay, Validate, FindBay, FindTech,
       LockBay, LockTech, RecheckBay, RecheckTech, Insert, Commit, Release,
       Remember, Publish, ReadError, LockError, WriteError, ReleaseError,
       RememberError, Crash
  <1>2. \A a \in Requests : status'[a] = "CANCELLED" <=> status[a] = "CANCELLED"
    BY DEF RowInv, RowPlaces, Unwritten, TypeInv, TypeOK, RollBack, Step, Fault,
       Arrive, Replay, NoReplay, Validate, FindBay, FindTech, LockBay, LockTech,
       RecheckBay, RecheckTech, Insert, Commit, Release, Remember, Publish,
       ReadError, LockError, WriteError, ReleaseError, RememberError, Crash
  <1> QED
    BY <1>1, <1>2 DEF Timely, CancelledInTime

LEMMA OtherTimely ==
    ASSUME RowInv, Timely, CancelledInTime,
           \/ \E c \in Cancels : CancelRead(c) \/ CancelWrite(c) \/ CancelError(c)
           \/ \E k \in LockKeys : LockExpires(k)
           \/ \E i \in IdemKeys : IdemExpires(i)
           \/ Tick
           \/ UNCHANGED vars
    PROVE  Timely' /\ CancelledInTime'
  <1> USE DEF row, locks, effects, cancels, RowInv, TypeInv, TypeOK, Chosen
  <1>1. ASSUME NEW c \in Cancels, CancelRead(c)
        PROVE  Timely' /\ CancelledInTime'
    <2>1. \A a \in Requests : now \in Int /\ ask[a].start \in Int
      BY RequestsAssumption, CatalogueAssumption
    <2>2. \A a \in Requests : ask[a].start <= now \/ now < ask[a].start
      BY <2>1
    <2> QED
      BY <1>1, <2>2 DEF CancelRead, Timely, CancelledInTime
  <1>2. ASSUME NEW c \in Cancels, CancelWrite(c) \/ CancelError(c)
        PROVE  Timely' /\ CancelledInTime'
    BY <1>2, RequestsAssumption DEF CancelWrite, CancelError, Cancelled, Timely,
       CancelledInTime
  <1>3. ASSUME \/ \E k \in LockKeys : LockExpires(k)
               \/ \E i \in IdemKeys : IdemExpires(i)
               \/ Tick
               \/ UNCHANGED vars
        PROVE  Timely' /\ CancelledInTime'
    BY <1>3 DEF LockExpires, IdemExpires, Tick, vars, Timely, CancelledInTime
  <1> QED
    BY <1>1, <1>2, <1>3

(* A cancellation on record was decided before the appointment started,    *)
(* and nothing brings a cancelled row back (cancel_appointment).           *)
THEOREM CancelledInTimeAlways == Spec => []CancelledInTime
  <1>1. Init => Timely /\ CancelledInTime
    BY DEF Init, Timely, CancelledInTime
  <1>2. RowInv /\ Timely /\ CancelledInTime /\ [Next]_vars
            => Timely' /\ CancelledInTime'
    BY RequestTimely, OtherTimely DEF Next, Rest
  <1> QED
    BY <1>1, <1>2, RowInvariant, PTL DEF Spec

-----------------------------------------------------------------------------
(***************************************************************************)
(* The booking system implements the calendar of Calendar.tla.  A booking  *)
(* takes place when its row is committed (Commit, or a COMMIT whose reply  *)
(* was lost), a cancellation when its UPDATE finds the row confirmed;      *)
(* every other step, a second cancellation included, leaves the calendar   *)
(* alone.                                                                  *)
(***************************************************************************)
Shown(a) == IF status[a] = "flushed" THEN "none" ELSE status[a]

(* A step that changes neither a committed row nor what a row shows.       *)
LEMMA CalendarStutters ==
    ASSUME \A a \in Requests :
               /\ Shown(a)' = Shown(a)
               /\ Committed(a)' <=> Committed(a)
               /\ Committed(a) => Row(a)' = Row(a)
    PROVE  UNCHANGED Ledger!calendarVars
  BY DEF Ledger!calendarVars, Shown

(* COMMIT: the row was kept apart from every live one since its INSERT.    *)
LEMMA CommitBooks ==
    ASSUME LegalInv, NEW r \in Requests, status[r] = "flushed",
           status' = [status EXCEPT ![r] = "CONFIRMED"],
           UNCHANGED <<ask, bay, tech>>
    PROVE  Ledger!Book(r)
  <1> USE DEF LegalInv, RowInv, TypeInv, TypeOK
  <1>1. Row(r) \in Assignments
    <2>1. ask[r].service \in Services /\ bay[r] \in Bays /\ tech[r] \in Techs
      BY DEF Vetted, HasRow, Refusal, UnknownService
    <2> QED
      BY <2>1 DEF Row, Assignments
  <1>2. ASSUME NEW b \in Requests, status[b] = "CONFIRMED"
        PROVE  ~Ledger!Collide(Row(b), Row(r))
    <2>1. ~Excludes(b, r) /\ b # r
      BY <1>2 DEF RowsApart, Live
    <2> QED
      BY <2>1 DEF Excludes, Overlap, Overlaps, Ledger!Collide, Row
  <1>3. /\ \A a \in Requests : Row(a)' = Row(a)
        /\ \A a \in Requests \ {r} :
               status'[a] = status[a] /\ (Committed(a)' <=> Committed(a))
        /\ status'[r] = "CONFIRMED" /\ Committed(r)' /\ ~Committed(r)
    BY DEF Row, Committed
  <1> DEFINE state == [a \in Requests |->
                          IF status[a] = "flushed" THEN "none" ELSE status[a]]
             slot == [a \in Requests |-> IF Committed(a) THEN Row(a) ELSE NoOne]
  <1>4. state[r] = "none" /\ state' = [state EXCEPT ![r] = "CONFIRMED"]
    BY <1>3
  <1>5. slot' = [slot EXCEPT ![r] = Row(r)]
    BY <1>3
  <1>6. \A b \in Requests :
            state[b] = "CONFIRMED" => ~Ledger!Collide(slot[b], Row(r))
    BY <1>2 DEF Committed
  <1> QED
    BY <1>1, <1>4, <1>5, <1>6 DEF Ledger!Book

(* UPDATE ... SET status = 'CANCELLED'.                                    *)
LEMMA CancellationCancels ==
    ASSUME LegalInv, NEW a \in Requests, Committed(a),
           status' = [status EXCEPT ![a] = "CANCELLED"],
           UNCHANGED <<ask, bay, tech>>
    PROVE  Ledger!Cancel(a) \/ UNCHANGED Ledger!calendarVars
  <1> USE DEF LegalInv, RowInv, TypeInv, TypeOK
  <1>1. \A b \in Requests : Row(b)' = Row(b) /\ (Committed(b)' <=> Committed(b))
    BY DEF Row, Committed
  <1>2. CASE status[a] = "CONFIRMED"
    BY <1>1, <1>2 DEF Ledger!Cancel
  <1>3. CASE status[a] = "CANCELLED"
    BY <1>1, <1>3, CalendarStutters DEF Shown
  <1> QED
    BY <1>2, <1>3 DEF Committed

LEMMA RequestImplements ==
    ASSUME LegalInv, NEW r \in Requests, Step(r) \/ Fault(r)
    PROVE  Ledger!Book(r) \/ UNCHANGED Ledger!calendarVars
  <1> USE DEF LegalInv, RowInv, TypeInv, TypeOK, RowPlaces, Unwritten, Goto, Report,
              Reply, row, locks, effects, cancels
  <1>1. CASE FindBay(r) \/ FindTech(r)
    <2>1. ~Committed(r)
      BY <1>1 DEF FindBay, FindTech, Committed
    <2>2. /\ UNCHANGED <<ask, status>>
          /\ \A a \in Requests \ {r} : bay'[a] = bay[a] /\ tech'[a] = tech[a]
      BY <1>1 DEF FindBay, FindTech
    <2> QED
      BY <2>1, <2>2, CalendarStutters DEF Shown, Committed, Row
  <1>2. CASE Insert(r)
    BY <1>2, CalendarStutters DEF Insert, Shown, Committed, Row
  <1>3. CASE Commit(r)
    BY <1>3, CommitBooks DEF Commit
  <1>4. CASE WriteError(r)
    <2>1. CASE status' = [status EXCEPT ![r] = "CONFIRMED"] /\ pc[r] = "commit"
      BY <1>4, <2>1, CommitBooks DEF WriteError
    <2>2. CASE \A a \in Requests : Shown(a)' = Shown(a)
                                   /\ (Committed(a)' <=> Committed(a))
      BY <1>4, <2>2, CalendarStutters DEF WriteError, Row
    <2> QED
      BY <1>4, <2>1, <2>2 DEF WriteError, Shown, Committed
  <1>5. CASE Release(r) \/ ReleaseError(r) \/ Crash(r)
    <2>1. UNCHANGED <<ask, bay, tech>> /\ status' \in {status, RollBack(r)}
      BY <1>5 DEF Release, ReleaseError, Crash
    <2> QED
      BY <2>1, CalendarStutters DEF RollBack, Shown, Committed, Row
  <1>6. CASE \/ Arrive(r) \/ Replay(r) \/ NoReplay(r) \/ Validate(r)
             \/ LockBay(r) \/ LockTech(r) \/ RecheckBay(r) \/ RecheckTech(r)
             \/ Remember(r) \/ Publish(r) \/ ReadError(r) \/ LockError(r)
             \/ RememberError(r)
    <2>1. UNCHANGED <<ask, bay, tech, status>>
      BY <1>6 DEF Arrive, Replay, NoReplay, Validate, LockBay, LockTech, RecheckBay,
         RecheckTech, Remember, Publish, ReadError, LockError, RememberError
    <2> QED
      BY <2>1, CalendarStutters DEF Shown, Committed, Row
  <1> QED
    BY <1>1, <1>2, <1>3, <1>4, <1>5, <1>6 DEF Step, Fault

LEMMA NextImplements ==
    ASSUME LegalInv, [Next]_vars
    PROVE  [Ledger!Next]_(Ledger!calendarVars)
  <1> USE DEF row, locks, effects, cancels
  <1>1. ASSUME NEW r \in Requests, Step(r) \/ Fault(r)
        PROVE  [Ledger!Next]_(Ledger!calendarVars)
    BY <1>1, RequestImplements DEF Ledger!Next
  <1>2. ASSUME NEW c \in Cancels, CancelWrite(c) \/ CancelError(c),
               status' # status
        PROVE  [Ledger!Next]_(Ledger!calendarVars)
    <2>1. /\ ctarget[c] \in Requests /\ Committed(ctarget[c])
          /\ status' = [status EXCEPT ![ctarget[c]] = "CANCELLED"]
          /\ UNCHANGED <<ask, bay, tech>>
      BY <1>2 DEF CancelWrite, CancelError, Cancelled, LegalInv, RowInv, TypeInv,
         Chosen, RowPlaces
    <2> QED
      BY <2>1, CancellationCancels DEF Ledger!Next
  <1>3. ASSUME \/ \E c \in Cancels : CancelRead(c)
               \/ \E c \in Cancels : (CancelWrite(c) \/ CancelError(c))
                                     /\ status' = status
               \/ \E k \in LockKeys : LockExpires(k)
               \/ \E i \in IdemKeys : IdemExpires(i)
               \/ Tick
               \/ UNCHANGED vars
        PROVE  [Ledger!Next]_(Ledger!calendarVars)
    <2>1. UNCHANGED <<ask, bay, tech, status>>
      BY <1>3 DEF CancelRead, CancelWrite, CancelError, LockExpires, IdemExpires,
         Tick, vars
    <2> QED
      BY <2>1, CalendarStutters DEF Shown, Committed, Row
  <1> QED
    BY <1>1, <1>2, <1>3 DEF Next, Rest

(* Every behaviour of create_appointment and cancel_appointment, faults    *)
(* included, is a behaviour of the abstract calendar.                      *)
THEOREM ImplementsCalendar == Spec => CalendarSpec
  <1>1. Init => Ledger!Init
    BY DEF Init, Ledger!Init, Committed
  <1>2. LegalInv /\ [Next]_vars => [Ledger!Next]_(Ledger!calendarVars)
    BY NextImplements
  <1> QED
    BY <1>1, <1>2, LegalInvariant, PTL DEF Spec, CalendarSpec, Ledger!Spec

(* The abstract calendar is sound: no bay and no technician is on it twice *)
(* for one moment.  With ImplementsCalendar this bounds every behaviour of *)
(* the code, and what availability and listings see of it.                 *)
THEOREM CalendarIsSound == CalendarSpec => []Ledger!NoDoubleBooking
  <1> DEFINE st == [a \in Requests |->
                      IF status[a] = "flushed" THEN "none" ELSE status[a]]
             sl == [a \in Requests |->
                      IF Committed(a) THEN Row(a) ELSE NoOne]
  <1>1. Ledger!Init => Ledger!NoDoubleBooking
    BY DEF Ledger!Init, Ledger!NoDoubleBooking
  <1>2. Ledger!NoDoubleBooking /\ [Ledger!Next]_(Ledger!calendarVars)
            => Ledger!NoDoubleBooking'
    <2> SUFFICES ASSUME Ledger!NoDoubleBooking,
                        [Ledger!Next]_(Ledger!calendarVars)
                 PROVE  Ledger!NoDoubleBooking'
      OBVIOUS
    <2>1. /\ DOMAIN st = Requests /\ DOMAIN sl = Requests
          /\ st = [a \in Requests |-> st[a]]
          /\ sl = [a \in Requests |-> sl[a]]
      OBVIOUS
    <2>2. ASSUME NEW a \in Requests, Ledger!Book(a)
          PROVE  Ledger!NoDoubleBooking'
      <3>1. PICK s \in Assignments :
                /\ st[a] = "none"
                /\ \A b \in Requests : st[b] = "CONFIRMED" =>
                      ~Ledger!Collide(sl[b], s)
                /\ sl' = [sl EXCEPT ![a] = s]
                /\ st' = [st EXCEPT ![a] = "CONFIRMED"]
        BY <2>2 DEF Ledger!Book
      <3>2. \A b, c \in Requests :
                b # c /\ st[b] = "CONFIRMED" /\ st[c] = "CONFIRMED"
                    => ~Ledger!Collide(sl[b], sl[c])
        BY DEF Ledger!NoDoubleBooking
      <3> HIDE DEF st, sl
      <3>3. ASSUME NEW b \in Requests, NEW c \in Requests, b # c,
                   st'[b] = "CONFIRMED", st'[c] = "CONFIRMED"
            PROVE  ~Ledger!Collide(sl'[b], sl'[c])
        BY <2>1, <3>1, <3>2, <3>3 DEF Ledger!Collide
      <3> QED
        BY <3>3 DEF Ledger!NoDoubleBooking, Ledger!Collide, st, sl
    <2>3. ASSUME NEW a \in Requests, Ledger!Cancel(a)
          PROVE  Ledger!NoDoubleBooking'
      <3>1. st' = [st EXCEPT ![a] = "CANCELLED"] /\ sl' = sl
        BY <2>3 DEF Ledger!Cancel
      <3>2. \A b, c \in Requests :
                b # c /\ st[b] = "CONFIRMED" /\ st[c] = "CONFIRMED"
                    => ~Ledger!Collide(sl[b], sl[c])
        BY DEF Ledger!NoDoubleBooking
      <3> HIDE DEF st, sl
      <3>3. ASSUME NEW b \in Requests, NEW c \in Requests, b # c,
                   st'[b] = "CONFIRMED", st'[c] = "CONFIRMED"
            PROVE  ~Ledger!Collide(sl'[b], sl'[c])
        BY <2>1, <3>1, <3>2, <3>3
      <3> QED
        BY <3>3 DEF Ledger!NoDoubleBooking, Ledger!Collide, st, sl
    <2>4. CASE UNCHANGED Ledger!calendarVars
      BY <2>4 DEF Ledger!calendarVars, Ledger!NoDoubleBooking, Ledger!Collide
    <2> QED
      BY <2>2, <2>3, <2>4 DEF Ledger!Next
  <1> QED
    BY <1>1, <1>2, PTL DEF CalendarSpec, Ledger!Spec
=============================================================================
