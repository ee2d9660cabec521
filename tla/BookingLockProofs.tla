------------------------- MODULE BookingLockProofs --------------------------
(***************************************************************************)
(* The locks of a booking, for any number of requests and any faults: the  *)
(* protocol uses the lock client as SlotLock.tla describes it, so what is  *)
(* proved of the client holds for a booking's keys; while the client's     *)
(* memory can be trusted, locks and recheck leave the exclusion            *)
(* constraints nothing to refuse inside a lock bucket; and the locks never *)
(* let competing requests eliminate each other.                            *)
(***************************************************************************)
EXTENDS BookingProofs

-----------------------------------------------------------------------------
(* The keys a request owns, by where it stands.                            *)
Keyless == {"idle", "idem", "validate", "bay", "tech", "lockBay", "remember",
            "publish"}
UnderLocks == {"recheckBay", "recheckTech", "insert", "commit"}

Holding ==
    \A r \in Requests :
        /\ pc[r] \in Keyless => owned[r] = {}
        /\ pc[r] = "lockTech" => owned[r] = {BayKey(r)}
        /\ pc[r] \in UnderLocks => owned[r] = {BayKey(r), TechKey(r)}
        /\ pc[r] = "release" => owned[r] \subseteq {BayKey(r), TechKey(r)}
        /\ pc[r] = "done" /\ owned[r] # {}
              => result[r] = "INTERNAL_ERROR" /\ "redis" \in Faults
        /\ pc[r] = "crashed" => "crash" \in Faults

HoldInv == TypeInv /\ Holding

LEMMA InitHolding == Init => Holding
  BY DEF Init, Redis!Init, Holding, UnderLocks, Ended

LEMMA RequestHolding ==
    ASSUME NEW r \in Requests, HoldInv, Step(r) \/ Fault(r)
    PROVE  Holding'
  <1> USE DEF HoldInv, Holding, Keyless, UnderLocks, Ended, TypeInv, TypeOK,
              Redis!TypeOK, BayKey, TechKey, Goto, Report, Reply, row, locks,
              effects, cancels
  <1>1. CASE Arrive(r) \/ Replay(r) \/ NoReplay(r) \/ Validate(r)
    BY <1>1 DEF Arrive, Replay, NoReplay, Validate
  <1>2. CASE FindBay(r) \/ FindTech(r)
    BY <1>2 DEF FindBay, FindTech
  <1>3. CASE LockBay(r)
    BY <1>3 DEF LockBay, Redis!Acquire, Redis!Refuse, Redis!lockVars
  <1>4. CASE LockTech(r)
    BY <1>4 DEF LockTech, Redis!Acquire, Redis!Refuse, Redis!lockVars
  <1>5. CASE RecheckBay(r) \/ RecheckTech(r)
    BY <1>5 DEF RecheckBay, RecheckTech
  <1>6. CASE Insert(r) \/ Commit(r) \/ WriteError(r)
    BY <1>6 DEF Insert, Commit, WriteError
  <1>7. CASE Release(r)
    BY <1>7 DEF Release, Redis!Release
  <1>8. CASE ReleaseError(r)
    BY <1>8 DEF ReleaseError, Redis!ReleaseError
  <1>9. CASE Remember(r) \/ Publish(r) \/ RememberError(r) \/ ReadError(r)
    BY <1>9 DEF Remember, Publish, RememberError, ReadError
  <1>10. CASE LockError(r)
    BY <1>10 DEF LockError, Redis!AcquireError
  <1>11. CASE Crash(r)
    BY <1>11 DEF Crash, Redis!Crash
  <1> QED
    BY <1>1, <1>2, <1>3, <1>4, <1>5, <1>6, <1>7, <1>8, <1>9, <1>10, <1>11
    DEF Step, Fault

LEMMA OtherHolding ==
    ASSUME HoldInv,
           \/ \E c \in Cancels : CancelRead(c) \/ CancelWrite(c) \/ CancelError(c)
           \/ \E k \in LockKeys : LockExpires(k)
           \/ \E i \in IdemKeys : IdemExpires(i)
           \/ Tick
           \/ UNCHANGED vars
    PROVE  Holding'
  <1>1. UNCHANGED <<pc, ask, result, bay, tech, owned>>
    BY DEF CancelRead, CancelWrite, CancelError, LockExpires, Redis!Expire,
       IdemExpires, Tick, vars, row, locks
  <1> QED
    BY <1>1 DEF HoldInv, Holding, BayKey, TechKey, Ended

LEMMA HoldInvariant == Spec => []HoldInv
  <1>1. Init => HoldInv
    BY InitTypeInv, InitHolding DEF HoldInv
  <1>2. HoldInv /\ [Next]_vars => HoldInv'
    BY NextTypeInv, RequestHolding, OtherHolding DEF HoldInv, Next, Rest
  <1> QED
    BY <1>1, <1>2, PTL DEF Spec

-----------------------------------------------------------------------------
(* Every step that touches a key is a step of the lock client.             *)
LEMMA NextUsesClient ==
    ASSUME HoldInv, [Next]_vars
    PROVE  [Redis!Next]_(Redis!lockVars)
  <1> USE DEF Redis!lockVars, locks
  <1>1. ASSUME NEW r \in Requests, LockBay(r) \/ LockTech(r) \/ LockError(r)
        PROVE  [Redis!Next]_(Redis!lockVars)
    <2>1. /\ pc[r] = "lockBay" => BayKey(r) \in LockKeys \ owned[r]
          /\ pc[r] = "lockTech" => TechKey(r) \in LockKeys \ owned[r]
      BY KeysTyped DEF HoldInv, Holding, Keyless, Booked, BayKey, TechKey
    <2> QED
      BY <1>1, <2>1 DEF LockBay, LockTech, LockError, Redis!Next
  <1>2. ASSUME NEW r \in Requests, Release(r) \/ ReleaseError(r) \/ Crash(r)
        PROVE  [Redis!Next]_(Redis!lockVars)
    <2>1. pc[r] = "release" => NextKey(r) \in LockKeys
      BY KeysTyped DEF HoldInv, Booked
    <2> QED
      BY <1>2, <2>1 DEF Release, ReleaseError, Crash, Redis!Next
  <1>3. ASSUME NEW r \in Requests, Step(r) \/ Fault(r)
        PROVE  [Redis!Next]_(Redis!lockVars)
    BY <1>1, <1>2, <1>3 DEF Step, Fault, Arrive, Replay, NoReplay, Validate,
         FindBay, FindTech, RecheckBay, RecheckTech, Insert, Commit, Remember,
         Publish, ReadError, WriteError, RememberError
  <1>4. ASSUME NEW k \in LockKeys, LockExpires(k)
        PROVE  [Redis!Next]_(Redis!lockVars)
    BY <1>4 DEF LockExpires, Redis!Next
  <1>5. ASSUME \/ \E c \in Cancels : CancelRead(c) \/ CancelWrite(c) \/ CancelError(c)
               \/ \E i \in IdemKeys : IdemExpires(i)
               \/ Tick
               \/ UNCHANGED vars
        PROVE  UNCHANGED Redis!lockVars
    BY <1>5 DEF CancelRead, CancelWrite, CancelError, IdemExpires, Tick, vars
  <1> QED
    BY <1>3, <1>4, <1>5 DEF Next, Rest

(* A booking uses the lock client as it is meant to be used: it asks for a *)
(* key it does not own and releases only keys it does (acquire_slot_locks).*)
THEOREM UsesLockProtocol == Spec => LockProtocol
  <1>1. Init => Redis!Init
    BY DEF Init
  <1>2. HoldInv /\ [Next]_vars => [Redis!Next]_(Redis!lockVars)
    BY NextUsesClient
  <1> QED
    BY <1>1, <1>2, HoldInvariant, PTL DEF Spec, LockProtocol, Redis!Spec

(* So the theorems about the client apply.                                 *)
Client == INSTANCE SlotLockProofs WITH
    Clients <- Requests, Keys <- LockKeys, NoClient <- NoOne

LEMMA ClientBehaves == Spec => []Redis!OwnedIsHeld /\ []Client!HeldIsOwned
  <1>1. Client!NoClientAssumption
    BY RequestsAssumption DEF Client!NoClientAssumption
  <1>2. Client!Spec => []Client!OwnedIsHeld /\ []Client!HeldIsOwned
    BY <1>1, Client!OwnedIsHeldAlways, Client!HeldIsOwnedAlways
  <1>3. Redis!Init => Client!Init
    BY DEF Redis!Init, Client!Init
  <1>4. [Redis!Next]_(Redis!lockVars) => [Client!Next]_(Client!lockVars)
    BY DEF Redis!Next, Client!Next, Redis!lockVars, Client!lockVars,
       Redis!Acquire, Client!Acquire, Redis!Refuse, Client!Refuse,
       Redis!AcquireError, Client!AcquireError, Redis!Release, Client!Release,
       Redis!ReleaseError, Client!ReleaseError, Redis!Deleted, Client!Deleted,
       Redis!Expire, Client!Expire, Redis!Crash, Client!Crash
  <1>5. Client!OwnedIsHeld => Redis!OwnedIsHeld
    BY DEF Redis!OwnedIsHeld, Client!OwnedIsHeld
  <1> QED
    BY <1>2, <1>3, <1>4, <1>5, UsesLockProtocol, PTL
    DEF LockProtocol, Redis!Spec, Client!Spec

(* What a request believes it has locked it has, until a TTL runs out.     *)
THEOREM LocksAreHeldAlways == Spec => []LocksAreHeld
  BY ClientBehaves, PTL DEF LocksAreHeld

(* A key that its request does not know of was lost with its worker or in  *)
(* a call that raised, and that call ended the request.                    *)
Lost(r) ==
    \/ pc[r] = "crashed"
    \/ pc[r] = "done" /\ result[r] = "INTERNAL_ERROR" /\ "redis" \in Faults

KeysKnown ==
    \A r \in Requests, k \in LockKeys : lock[k] = r => k \in owned[r] \/ Lost(r)

(* What is over stays over.                                                *)
LEMMA LostStays ==
    ASSUME HoldInv, [Next]_vars, NEW r \in Requests, Lost(r)
    PROVE  Lost(r)'
  BY DEF Lost, HoldInv, TypeInv, TypeOK, Next, Rest, Step, Fault, Arrive, Replay,
         NoReplay, Validate, FindBay, FindTech, LockBay, LockTech, RecheckBay,
         RecheckTech, Insert, Commit, Release, Remember, Publish, ReadError,
         LockError, WriteError, ReleaseError, RememberError, Crash, CancelRead,
         CancelWrite, CancelError, LockExpires, IdemExpires, Tick, Goto, Report,
         Reply, vars

LEMMA NextKeysKnown == HoldInv /\ KeysKnown /\ [Next]_vars => KeysKnown'
  <1> SUFFICES ASSUME HoldInv, KeysKnown, [Next]_vars,
                      NEW r \in Requests, NEW k \in LockKeys, lock'[k] = r,
                      ~Lost(r)
               PROVE  k \in owned'[r] \/ Lost(r)'
    BY LostStays DEF KeysKnown
  <1> USE DEF HoldInv, TypeInv, TypeOK, Redis!TypeOK, Goto, Report, Reply, locks,
              Redis!lockVars
  <1>1. ASSUME NEW q \in Requests, LockBay(q) \/ LockTech(q)
        PROVE  k \in owned'[r]
    BY <1>1 DEF LockBay, LockTech, Redis!Acquire, Redis!Refuse, KeysKnown
  <1>2. ASSUME NEW q \in Requests, Release(q)
        PROVE  k \in owned'[r]
    BY <1>2, RequestsAssumption DEF Release, Redis!Release, Redis!Deleted, KeysKnown
  <1>3. ASSUME NEW q \in Requests, LockError(q)
        PROVE  k \in owned'[r] \/ Lost(r)'
    BY <1>3 DEF LockError, Redis!AcquireError, KeysKnown, Lost
  <1>4. ASSUME NEW q \in Requests, ReleaseError(q)
        PROVE  k \in owned'[r] \/ Lost(r)'
    BY <1>4, RequestsAssumption
    DEF ReleaseError, Redis!ReleaseError, Redis!Deleted, KeysKnown, Lost
  <1>5. ASSUME NEW q \in Requests, Crash(q)
        PROVE  k \in owned'[r] \/ Lost(r)'
    BY <1>5 DEF Crash, Redis!Crash, KeysKnown, Lost
  <1>6. ASSUME NEW x \in LockKeys, LockExpires(x)
        PROVE  k \in owned'[r]
    BY <1>6, RequestsAssumption DEF LockExpires, Redis!Expire, KeysKnown
  <1>7. ASSUME UNCHANGED <<lock, owned>>
        PROVE  k \in owned'[r]
    BY <1>7 DEF KeysKnown
  <1> QED
    BY <1>1, <1>2, <1>3, <1>4, <1>5, <1>6, <1>7
    DEF Next, Rest, Step, Fault, Arrive, Replay, NoReplay, Validate, FindBay,
        FindTech, RecheckBay, RecheckTech, Insert, Commit, Remember, Publish,
        ReadError, WriteError, RememberError, CancelRead, CancelWrite,
        CancelError, IdemExpires, Tick, vars

(* A key is left in Redis for the rest of its TTL only by a worker that    *)
(* died or a Redis call that raised, and then the client was told 500 or   *)
(* nothing: through every other path, errors of the database included, the *)
(* finally block gives back all that was taken (acquire_slot_locks).       *)
THEOREM LocksReleasedAlways == Spec => []LocksReleased
  <1>1. Init => KeysKnown
    BY RequestsAssumption DEF Init, Redis!Init, KeysKnown
  <1>2. HoldInv /\ KeysKnown => LocksReleased
    BY DEF HoldInv, Holding, KeysKnown, Lost, LocksReleased, Ended
  <1> QED
    BY <1>1, <1>2, NextKeysKnown, HoldInvariant, PTL DEF Spec

-----------------------------------------------------------------------------
(* What the recheck found stays true until the row is committed: a         *)
(* conflicting row of the same bucket would have had to be committed by a  *)
(* request that owns the same key.                                         *)
SameBucket(a, r) == BucketOf(ask[a]) = BucketOf(ask[r])

Cleared ==
    "expire" \notin Faults =>
        \A a, r \in Requests :
            status[a] = "CONFIRMED" /\ a # r /\ SameBucket(a, r) /\ Overlap(a, r) =>
                /\ pc[r] \in {"recheckTech", "insert"} => bay[a] # bay[r]
                /\ pc[r] = "insert" => tech[a] # tech[r]

ClearInv == RowInv /\ Holding /\ LocksAreHeld /\ Cleared

(* Two requests under the locks of one bucket have nothing in common.      *)
LEMMA LockedApart ==
    ASSUME ClearInv, "expire" \notin Faults, NEW a \in Requests, NEW r \in Requests,
           a # r, SameBucket(a, r), pc[a] \in UnderLocks, pc[r] \in UnderLocks
    PROVE  bay[a] # bay[r] /\ tech[a] # tech[r]
  <1>1. /\ lock[BayKey(a)] = a /\ lock[TechKey(a)] = a
        /\ lock[BayKey(r)] = r /\ lock[TechKey(r)] = r
    BY DEF ClearInv, Holding, LocksAreHeld, Redis!OwnedIsHeld
  <1> QED
    BY <1>1 DEF BayKey, TechKey, SameBucket

LEMMA RequestCleared ==
    ASSUME ClearInv, NEW q \in Requests, Step(q) \/ Fault(q)
    PROVE  Cleared'
  <1> SUFFICES ASSUME "expire" \notin Faults, NEW a \in Requests, NEW r \in Requests,
                      status'[a] = "CONFIRMED", a # r, SameBucket(a, r)',
                      Overlap(a, r)', pc'[r] \in {"recheckTech", "insert"}
               PROVE  /\ bay'[a] # bay'[r]
                      /\ pc'[r] = "insert" => tech'[a] # tech'[r]
    BY DEF Cleared
  <1> USE DEF ClearInv, RowInv, TypeInv, TypeOK, RowPlaces, Unwritten, Goto, Report,
              Reply, row, locks, effects, cancels
  <1>1. SameBucket(a, r) /\ Overlap(a, r)
    BY DEF SameBucket, Overlap, Step, Fault, Arrive, Replay, NoReplay, Validate,
       FindBay, FindTech, LockBay, LockTech, RecheckBay, RecheckTech, Insert,
       Commit, Release, Remember, Publish, ReadError, LockError, WriteError,
       ReleaseError, RememberError, Crash
  <1>2. CASE status[a] # "CONFIRMED"
    <2>1. q = a /\ pc[a] = "commit" /\ UNCHANGED <<bay, tech>>
          /\ pc'[r] = pc[r]
      BY <1>2 DEF Step, Fault, Arrive, Replay, NoReplay, Validate, FindBay,
         FindTech, LockBay, LockTech, RecheckBay, RecheckTech, Insert, Commit,
         Release, Remember, Publish, ReadError, LockError, WriteError,
         ReleaseError, RememberError, Crash, RollBack
    <2> QED
      BY <2>1, <1>1, LockedApart DEF UnderLocks
  <1>3. CASE status[a] = "CONFIRMED" /\ q = r
    <2>1. CASE RecheckBay(r)
      BY <1>1, <1>3, <2>1 DEF RecheckBay, BayTaken
    <2>2. CASE RecheckTech(r)
      BY <1>1, <1>3, <2>2 DEF RecheckTech, TechTaken, Cleared
    <2> QED
      BY <1>3, <2>1, <2>2 DEF Step, Fault, Arrive, Replay, NoReplay, Validate,
         FindBay, FindTech, LockBay, LockTech, Insert, Commit, Release, Remember,
         Publish, ReadError, LockError, WriteError, ReleaseError, RememberError,
         Crash
  <1>4. CASE status[a] = "CONFIRMED" /\ q # r
    <2>1. /\ pc'[r] = pc[r] /\ bay'[r] = bay[r] /\ tech'[r] = tech[r]
          /\ bay'[a] = bay[a] /\ tech'[a] = tech[a]
      BY <1>4 DEF Step, Fault, Arrive, Replay, NoReplay, Validate, FindBay,
         FindTech, LockBay, LockTech, RecheckBay, RecheckTech, Insert, Commit,
         Release, Remember, Publish, ReadError, LockError, WriteError,
         ReleaseError, RememberError, Crash
    <2> QED
      BY <1>1, <1>4, <2>1 DEF Cleared
  <1> QED
    BY <1>2, <1>3, <1>4

LEMMA OtherCleared ==
    ASSUME ClearInv,
           \/ \E c \in Cancels : CancelRead(c) \/ CancelWrite(c) \/ CancelError(c)
           \/ \E k \in LockKeys : LockExpires(k)
           \/ \E i \in IdemKeys : IdemExpires(i)
           \/ Tick
           \/ UNCHANGED vars
    PROVE  Cleared'
  <1>1. /\ UNCHANGED <<pc, ask, bay, tech>>
        /\ \A a \in Requests : status'[a] = "CONFIRMED" => status[a] = "CONFIRMED"
    BY DEF CancelRead, CancelWrite, CancelError, Cancelled, LockExpires, IdemExpires,
       Tick, vars, row, locks, ClearInv, RowInv, TypeInv, TypeOK
  <1> QED
    BY <1>1 DEF ClearInv, Cleared, SameBucket, Overlap

(* As long as no lock outlives its TTL, an INSERT is never refused on      *)
(* account of an appointment of its own 15-minute bucket (acquire and      *)
(* recheck in create_appointment).                                         *)
THEOREM LocksSufficeAlways == Spec => []LocksSuffice
  <1>1. Init => Cleared
    BY DEF Init, Cleared
  <1>2. RowInv /\ HoldInv /\ LocksAreHeld /\ Cleared /\ [Next]_vars => Cleared'
    BY RequestCleared, OtherCleared DEF ClearInv, HoldInv, Next, Rest
  <1>3. Cleared => LocksSuffice
    BY DEF Cleared, LocksSuffice, Excludes, SameBucket
  <1> QED
    BY <1>1, <1>2, <1>3, RowInvariant, HoldInvariant, LocksAreHeldAlways, PTL DEF Spec
-----------------------------------------------------------------------------
(* Competing requests.  A request is in the race from the moment it has    *)
(* its bay's key until it is told no; at a dealership where somebody was   *)
(* turned away for a key somebody is in the race or has been served.       *)
Racing == {"lockTech"} \cup UnderLocks
NoResource == {"NO_BAY", "NO_TECHNICIAN", "INTEGRITY_ERROR"}
Calm == Faults \cap {"redis", "db", "crash"} = {}

Served(d) == \E a \in Requests : Committed(a) /\ ask[a].dealership = d
InRace(d) ==
    \E a \in Requests :
        ask[a].dealership = d /\ (Committed(a) \/ pc[a] \in Racing)

(* Who turned a request away has an appointment, or is going for one; and  *)
(* who gives its keys back got one, or was turned away, before it had its  *)
(* technician's key when that was for a key.                               *)
Beaten ==
    /\ \A r \in Requests :
          /\ result[r] \in NoResource /\ Servable(ask[r])
                 => Served(ask[r].dealership)
          /\ result[r] = "SLOT_TAKEN" => InRace(ask[r].dealership)
    /\ \A r \in Requests : pc[r] = "release" =>
          \/ result[r] = "none" /\ Committed(r)
          \/ result[r] \in NoResource
          \/ result[r] = "SLOT_TAKEN" /\ TechKey(r) \notin owned[r]

RaceInv ==
    LegalInv /\ OutcomeInv /\ Holding /\ Client!HeldIsOwned /\ Beaten

(* Whoever came as far as the locks can be served.                         *)
LEMMA BookedServable ==
    ASSUME LegalInv, NEW r \in Requests, pc[r] \in Booked
    PROVE  Servable(ask[r])
  BY DEF LegalInv, Vetted, Servable

(* A bay or technician that is taken is taken at its own dealership.       *)
LEMMA TakenServes ==
    ASSUME LegalInv, NEW r \in Requests
    PROVE  /\ \A b \in Bays : UsableBay(b, ask[r]) /\ BayTaken(b, r)
                  => Served(ask[r].dealership)
           /\ \A t \in Techs : Qualified(t, ask[r]) /\ TechTaken(t, r)
                  => Served(ask[r].dealership)
  BY DEF LegalInv, Vetted, HasRow, BayTaken, TechTaken, UsableBay, Qualified,
         Served, Committed

(* Who holds the key of a bay or technician that r found is at the same    *)
(* dealership and in the race, or gives its keys back.                     *)
LEMMA HoldersRace ==
    ASSUME RaceInv, Calm, NEW r \in Requests, pc[r] \in Booked
    PROVE  /\ lock[BayKey(r)] # NoOne =>
                  \E c \in Requests :
                      /\ ask[c].dealership = ask[r].dealership
                      /\ pc[c] \in Racing \cup {"release"}
           /\ lock[TechKey(r)] # NoOne =>
                  \E c \in Requests :
                      /\ ask[c].dealership = ask[r].dealership
                      /\ pc[c] \in UnderLocks \cup {"release"}
                      /\ TechKey(r) = TechKey(c) /\ TechKey(c) \in owned[c]
  <1>1. BayKey(r) \in LockKeys /\ TechKey(r) \in LockKeys
    BY KeysTyped DEF RaceInv, LegalInv, RowInv
  <1>2. ASSUME NEW k \in LockKeys, lock[k] # NoOne
        PROVE  /\ lock[k] \in Requests /\ k \in owned[lock[k]]
               /\ pc[lock[k]] \in Racing \cup {"release"}
               /\ \/ k = BayKey(lock[k])
                  \/ k = TechKey(lock[k]) /\ pc[lock[k]] # "lockTech"
    <2>1. lock[k] \in Requests
      BY <1>2 DEF RaceInv, LegalInv, RowInv, TypeInv, TypeOK, Redis!TypeOK
    <2>2. k \in owned[lock[k]]
      BY <2>1 DEF RaceInv, Calm, Client!HeldIsOwned
    <2>3. pc[lock[k]] \notin Keyless /\ ~Ended(lock[k])
      BY <2>1, <2>2 DEF RaceInv, Holding, Calm, Ended
    <2>4. pc[lock[k]] \in Racing \cup {"release"}
      BY <2>1, <2>3 DEF RaceInv, LegalInv, RowInv, TypeInv, TypeOK, Keyless,
         UnderLocks, Racing, Ended
    <2>5. k = BayKey(lock[k]) \/ k = TechKey(lock[k])
      BY <2>1, <2>2, <2>4 DEF RaceInv, Holding, Racing
    <2>6. pc[lock[k]] = "lockTech" => k = BayKey(lock[k])
      BY <2>1, <2>2 DEF RaceInv, Holding
    <2> QED
      BY <2>1, <2>2, <2>4, <2>5, <2>6
  <1>3. ASSUME NEW c \in Requests, pc[c] \in Racing \cup {"release"},
               \/ bay[c] = bay[r]
               \/ tech[c] = tech[r] /\ pc[c] # "lockTech"
        PROVE  ask[c].dealership = ask[r].dealership
    BY <1>3 DEF RaceInv, LegalInv, Vetted, Booked, Racing, UnderLocks,
       UsableBay, Qualified
  <1>4. ASSUME lock[BayKey(r)] # NoOne
        PROVE  \E c \in Requests :
                   /\ ask[c].dealership = ask[r].dealership
                   /\ pc[c] \in Racing \cup {"release"}
    <2> DEFINE c == lock[BayKey(r)]
    <2>1. c \in Requests /\ pc[c] \in Racing \cup {"release"}
      BY <1>1, <1>2, <1>4
    <2>2. bay[c] = bay[r]
      BY <1>1, <1>2, <1>4 DEF BayKey, TechKey
    <2> HIDE DEF c
    <2>3. ask[c].dealership = ask[r].dealership
      BY <1>3, <2>1, <2>2
    <2> QED
      BY <2>1, <2>3
  <1>5. ASSUME lock[TechKey(r)] # NoOne
        PROVE  \E c \in Requests :
                   /\ ask[c].dealership = ask[r].dealership
                   /\ pc[c] \in UnderLocks \cup {"release"}
                   /\ TechKey(r) = TechKey(c) /\ TechKey(c) \in owned[c]
    <2> DEFINE c == lock[TechKey(r)]
    <2>1. /\ c \in Requests /\ pc[c] \in UnderLocks \cup {"release"}
          /\ TechKey(r) = TechKey(c) /\ TechKey(c) \in owned[c]
      BY <1>1, <1>2, <1>5 DEF BayKey, TechKey, Racing
    <2>2. tech[c] = tech[r] /\ pc[c] # "lockTech"
      BY <2>1 DEF TechKey, UnderLocks
    <2> HIDE DEF c
    <2>3. ask[c].dealership = ask[r].dealership
      BY <1>3, <2>1, <2>2 DEF Racing
    <2> QED
      BY <2>1, <2>3
  <1> QED
    BY <1>4, <1>5

(* Who gives its keys back was served, or somebody else at its dealership  *)
(* was, or it was refused a key.                                           *)
LEMMA ReleaserServed ==
    ASSUME RaceInv, NEW c \in Requests, pc[c] = "release"
    PROVE  /\ InRace(ask[c].dealership)
           /\ TechKey(c) \in owned[c] => Served(ask[c].dealership)
  <1>1. Servable(ask[c])
    BY BookedServable DEF RaceInv, Booked
  <1>2. Served(ask[c].dealership) => InRace(ask[c].dealership)
    BY DEF Served, InRace
  <1>3. CASE result[c] = "none" /\ Committed(c)
    BY <1>2, <1>3 DEF Served
  <1>4. CASE result[c] \in NoResource
    BY <1>1, <1>2, <1>4 DEF RaceInv, Beaten
  <1>5. CASE result[c] = "SLOT_TAKEN" /\ TechKey(c) \notin owned[c]
    BY <1>5 DEF RaceInv, Beaten
  <1> QED
    BY <1>3, <1>4, <1>5 DEF RaceInv, Beaten

(* Nothing fails while it is calm.                                         *)
LEMMA CalmSteps ==
    ASSUME NEW q \in Requests, Calm
    PROVE  ~Fault(q)
  BY DEF Calm, Fault, ReadError, LockError, WriteError, ReleaseError,
         RememberError, Crash, Redis!AcquireError, Redis!ReleaseError,
         Redis!Crash

LEMMA AskStays == [Next]_vars => ask' = ask
  BY DEF Next, Rest, Step, Fault, Arrive, Replay, NoReplay, Validate, FindBay,
         FindTech, LockBay, LockTech, RecheckBay, RecheckTech, Insert, Commit,
         Release, Remember, Publish, ReadError, LockError, WriteError,
         ReleaseError, RememberError, Crash, CancelRead, CancelWrite,
         CancelError, LockExpires, IdemExpires, Tick, vars

LEMMA ServedStays ==
    ASSUME RowInv, [Next]_vars, NEW d, Served(d)
    PROVE  Served(d)' /\ InRace(d)'
  BY AskStays, CommittedStays DEF Served, InRace

(* A step of one request moves no other.                                   *)
LEMMA OthersWait ==
    ASSUME RowInv, NEW q \in Requests, Step(q), NEW r \in Requests, r # q
    PROVE  /\ pc'[r] = pc[r] /\ result'[r] = result[r]
           /\ owned'[r] = owned[r]
           /\ bay'[r] = bay[r] /\ tech'[r] = tech[r]
  BY DEF Step, Arrive, Replay, NoReplay, Validate, FindBay, FindTech, LockBay,
         LockTech, RecheckBay, RecheckTech, Insert, Commit, Release, Remember,
         Publish, Goto, Report, Reply, row, locks, Redis!Acquire,
         Redis!Refuse, Redis!Release, Redis!lockVars,
         RowInv, TypeInv, TypeOK, Redis!TypeOK

(* A request that finds its bay or technician taken once it has keys, or   *)
(* is refused by a constraint, yields to an appointment.                   *)
LEMMA TurnedAwayUnderLocks ==
    ASSUME RaceInv, NEW q \in Requests, pc'[q] = "release",
           \/ RecheckBay(q) \/ RecheckTech(q)
           \/ Insert(q)
    PROVE  /\ Served(ask[q].dealership)
           /\ result'[q] \in NoResource
  <1> USE DEF RaceInv, LegalInv, RowInv, TypeInv, TypeOK, Goto, Report,
              NoResource
  <1>1. CASE RecheckBay(q)
    <2>1. /\ bay[q] \in Bays /\ UsableBay(bay[q], ask[q])
          /\ BayTaken(bay[q], q) /\ result'[q] = "NO_BAY"
      BY <1>1 DEF RecheckBay, Vetted, Booked
    <2> QED
      BY <2>1, TakenServes
  <1>2. CASE RecheckTech(q)
    <2>1. /\ tech[q] \in Techs /\ Qualified(tech[q], ask[q])
          /\ TechTaken(tech[q], q) /\ result'[q] = "NO_TECHNICIAN"
      BY <1>2 DEF RecheckTech, Vetted, Booked
    <2> QED
      BY <2>1, TakenServes
  <1>3. CASE Insert(q)
    <2>1. PICK a \in Requests : Excludes(a, q) /\ status[a] = "CONFIRMED"
      BY <1>3 DEF Insert
    <2>2. result'[q] = "INTEGRITY_ERROR"
      BY <1>3 DEF Insert
    <2>3. ask[a].dealership = ask[q].dealership
      BY <1>3, <2>1 DEF Insert, Excludes, Vetted, HasRow, Booked, UsableBay,
         Qualified
    <2> QED
      BY <2>1, <2>2, <2>3 DEF Served, Committed
  <1> QED
    BY <1>1, <1>2, <1>3

(* Somebody stays in the race until somebody is served.                    *)
LEMMA RaceGoesOn ==
    ASSUME RaceInv, Calm, NEW q \in Requests, Step(q), NEW d, InRace(d)
    PROVE  InRace(d)'
  <1>1. [Next]_vars /\ RowInv
    BY DEF Next, RaceInv, LegalInv
  <1>2. PICK a \in Requests :
            ask[a].dealership = d /\ (Committed(a) \/ pc[a] \in Racing)
    BY DEF InRace
  <1>3. CASE Committed(a)
    BY <1>1, <1>2, <1>3, AskStays, CommittedStays DEF InRace
  <1>4. CASE pc[a] \in Racing /\ pc'[a] \in Racing
    BY <1>1, <1>2, <1>4, AskStays DEF InRace
  <1>5. CASE pc[a] \in Racing /\ pc'[a] \notin Racing
    <2>1. a = q
      BY <1>1, <1>5, OthersWait
    <2>2. \/ LockTech(q) /\ Redis!Refuse(q, TechKey(q))
          \/ RecheckBay(q) \/ RecheckTech(q) \/ Insert(q) \/ Commit(q)
      BY <1>5, <2>1 DEF Step, Racing, UnderLocks, Arrive, Replay, NoReplay,
         Validate, FindBay, FindTech, LockBay, LockTech, Release, Remember,
         Publish, Goto, RaceInv, LegalInv, RowInv, TypeInv, TypeOK
    <2>3. CASE LockTech(q) /\ Redis!Refuse(q, TechKey(q))
      <3>1. pc[q] = "lockTech" /\ lock[TechKey(q)] # NoOne
        BY <2>3 DEF LockTech, Redis!Refuse
      <3>2. PICK c \in Requests :
                /\ ask[c].dealership = ask[q].dealership
                /\ pc[c] \in UnderLocks \cup {"release"}
                /\ TechKey(q) = TechKey(c) /\ TechKey(c) \in owned[c]
        BY <3>1, HoldersRace DEF Booked
      <3>3. CASE pc[c] \in UnderLocks
        <4>1. c # q
          BY <3>1, <3>3 DEF UnderLocks
        <4>2. pc'[c] \in Racing
          BY <1>1, <3>3, <4>1, OthersWait DEF Racing
        <4> QED
          BY <1>1, <1>2, <2>1, <3>2, <4>2, AskStays DEF InRace
      <3>4. CASE pc[c] = "release"
        BY <1>1, <1>2, <2>1, <3>2, <3>4, ReleaserServed, ServedStays
      <3> QED
        BY <3>2, <3>3, <3>4
    <2>4. CASE RecheckBay(q) \/ RecheckTech(q) \/ Insert(q)
      <3>1. pc'[q] = "release"
        BY <1>5, <2>1, <2>4 DEF RecheckBay, RecheckTech, Insert, Goto, Racing,
           UnderLocks, RaceInv, LegalInv, RowInv, TypeInv, TypeOK
      <3> QED
        BY <1>1, <1>2, <2>1, <2>4, <3>1, TurnedAwayUnderLocks, ServedStays
    <2>5. CASE Commit(q)
      <3>1. Committed(q)'
        BY <2>5 DEF Commit, Committed, RaceInv, LegalInv, RowInv, TypeInv,
           TypeOK
      <3> QED
        BY <1>1, <1>2, <2>1, <3>1, AskStays DEF InRace
    <2> QED
      BY <2>2, <2>3, <2>4, <2>5
  <1> QED
    BY <1>2, <1>3, <1>4, <1>5

(* Who is turned away is turned away for somebody.                         *)
LEMMA TurnedAway ==
    ASSUME RaceInv, Calm, NEW q \in Requests, Step(q)
    PROVE  /\ result'[q] \in NoResource /\ Servable(ask[q])
                  => Served(ask[q].dealership)
           /\ result'[q] = "SLOT_TAKEN" => InRace(ask[q].dealership)
  <1> USE DEF RaceInv, LegalInv, RowInv, TypeInv, TypeOK, Goto, Report, Reply,
              NoResource
  <1>1. CASE result'[q] = result[q]
    BY <1>1 DEF Beaten
  <1>2. CASE FindBay(q)
    <2>1. ASSUME Servable(ask[q]), result'[q] # result[q]
          PROVE  Served(ask[q].dealership)
      <3>1. PICK b \in Bays : UsableBay(b, ask[q])
        BY <2>1 DEF Servable
      <3>2. BayTaken(b, q)
        BY <1>2, <2>1, <3>1 DEF FindBay
      <3> QED
        BY <3>1, <3>2, TakenServes
    <2> QED
      BY <1>1, <1>2, <2>1 DEF FindBay
  <1>3. CASE FindTech(q)
    <2>1. ASSUME Servable(ask[q]), result'[q] # result[q]
          PROVE  Served(ask[q].dealership)
      <3>1. PICK t \in Techs : Qualified(t, ask[q])
        BY <2>1 DEF Servable
      <3>2. TechTaken(t, q)
        BY <1>3, <2>1, <3>1 DEF FindTech
      <3> QED
        BY <3>1, <3>2, TakenServes
    <2> QED
      BY <1>1, <1>3, <2>1 DEF FindTech
  <1>4. CASE LockBay(q)
    <2>1. ASSUME Redis!Refuse(q, BayKey(q)), pc[q] = "lockBay"
          PROVE  InRace(ask[q].dealership)
      <3>1. PICK c \in Requests :
                /\ ask[c].dealership = ask[q].dealership
                /\ pc[c] \in Racing \cup {"release"}
        BY <2>1, HoldersRace DEF Booked, Redis!Refuse
      <3>2. CASE pc[c] \in Racing
        BY <3>1, <3>2 DEF InRace
      <3>3. CASE pc[c] = "release"
        BY <3>1, <3>3, ReleaserServed
      <3> QED
        BY <3>1, <3>2, <3>3
    <2> QED
      BY <1>1, <1>4, <2>1 DEF LockBay
  <1>5. CASE LockTech(q)
    <2>1. InRace(ask[q].dealership)
      BY <1>5 DEF LockTech, InRace, Racing
    <2> QED
      BY <1>1, <1>5, <2>1 DEF LockTech
  <1>6. CASE RecheckBay(q) \/ RecheckTech(q) \/ Insert(q)
    <2>1. pc'[q] = "release" \/ result'[q] = result[q]
      BY <1>6 DEF RecheckBay, RecheckTech, Insert
    <2> QED
      BY <1>1, <1>6, <2>1, TurnedAwayUnderLocks
  <1>7. CASE Validate(q)
    BY <1>1, <1>7, RefusalTyped DEF Validate
  <1> QED
    BY <1>1, <1>2, <1>3, <1>4, <1>5, <1>6, <1>7
    DEF Step, Arrive, Replay, NoReplay, Commit, Release, Remember, Publish

(* Who begins to give its keys back has the outcome that Beaten says.      *)
LEMMA ReleaserOutcome ==
    ASSUME RaceInv, NEW q \in Requests, Step(q), pc'[q] = "release"
    PROVE  \/ result'[q] = "none" /\ Committed(q)'
           \/ result'[q] \in NoResource
           \/ result'[q] = "SLOT_TAKEN" /\ TechKey(q)' \notin owned'[q]
  <1> USE DEF RaceInv, LegalInv, RowInv, TypeInv, TypeOK, Redis!TypeOK, Goto,
              Report, Reply
  <1>1. CASE LockTech(q)
    BY <1>1 DEF LockTech, Redis!Refuse, Redis!lockVars, Holding, BayKey,
       TechKey, row
  <1>2. CASE RecheckBay(q) \/ RecheckTech(q) \/ Insert(q)
    BY <1>2, TurnedAwayUnderLocks
  <1>3. CASE Commit(q)
    BY <1>3 DEF Commit, Committed, OutcomeInv, Reported, Working
  <1>4. CASE Release(q)
    <2>1. /\ pc[q] = "release" /\ result'[q] = result[q] /\ status' = status
          /\ owned'[q] \subseteq owned[q]
          /\ TechKey(q)' = TechKey(q)
      BY <1>4 DEF Release, Redis!Release, TechKey
    <2> QED
      BY <2>1 DEF Beaten, Committed
  <1> QED
    BY <1>1, <1>2, <1>3, <1>4
    DEF Step, Arrive, Replay, NoReplay, Validate, FindBay, FindTech, LockBay,
        Remember, Publish

LEMMA StepBeaten ==
    ASSUME RaceInv, Calm, NEW q \in Requests, Step(q)
    PROVE  Beaten'
  <1>1. [Next]_vars /\ RowInv
    BY DEF Next, RaceInv, LegalInv
  <1>2. ask' = ask
    BY <1>1, AskStays
  <1>3. \A r \in Requests : Servable(ask[r])' <=> Servable(ask[r])
    BY <1>2 DEF Servable
  <1>4. ASSUME NEW r \in Requests
        PROVE  /\ result'[r] \in NoResource /\ Servable(ask[r])
                      => Served(ask[r].dealership)
               /\ result'[r] = "SLOT_TAKEN" => InRace(ask[r].dealership)
    BY <1>1, TurnedAway, OthersWait DEF RaceInv, Beaten
  <1>5. ASSUME NEW r \in Requests, pc'[r] = "release"
        PROVE  \/ result'[r] = "none" /\ Committed(r)'
               \/ result'[r] \in NoResource
               \/ result'[r] = "SLOT_TAKEN" /\ TechKey(r)' \notin owned'[r]
    <2>1. CASE r = q
      BY <1>5, <2>1, ReleaserOutcome
    <2>2. CASE r # q
      <3>1. /\ pc[r] = "release" /\ result'[r] = result[r]
            /\ owned'[r] = owned[r] /\ TechKey(r)' = TechKey(r)
        BY <1>1, <1>2, <1>5, <2>2, OthersWait DEF TechKey
      <3>2. Committed(r) => Committed(r)'
        BY <1>1, CommittedStays
      <3> QED
        BY <3>1, <3>2 DEF RaceInv, Beaten
    <2> QED
      BY <2>1, <2>2
  <1>6. ASSUME NEW r \in Requests
        PROVE  /\ Served(ask[r].dealership) => Served(ask[r].dealership)'
               /\ InRace(ask[r].dealership) => InRace(ask[r].dealership)'
    <2>1. ASSUME NEW d
          PROVE  (Served(d) => Served(d)') /\ (InRace(d) => InRace(d)')
      BY <1>1, ServedStays, RaceGoesOn
    <2> QED
      BY <1>2, <2>1 DEF Served, InRace
  <1> QED
    BY <1>3, <1>4, <1>5, <1>6 DEF Beaten

LEMMA OtherBeaten ==
    ASSUME RaceInv,
           \/ \E c \in Cancels :
                 CancelRead(c) \/ CancelWrite(c) \/ CancelError(c)
           \/ \E k \in LockKeys : LockExpires(k)
           \/ \E i \in IdemKeys : IdemExpires(i)
           \/ Tick
           \/ UNCHANGED vars
    PROVE  Beaten'
  <1>1. [Next]_vars /\ RowInv
    BY DEF Next, RaceInv, LegalInv
  <1>2. UNCHANGED <<pc, ask, result, bay, tech, owned>>
    BY DEF CancelRead, CancelWrite, CancelError, Cancelled, LockExpires,
       Redis!Expire, IdemExpires, Tick, vars, row, locks
  <1>3. \A r \in Requests : Committed(r) => Committed(r)'
    BY <1>1, CommittedStays
  <1>4. \A d : (Served(d) => Served(d)') /\ (InRace(d) => InRace(d)')
    BY <1>2, <1>3 DEF Served, InRace
  <1>5. \A r \in Requests : /\ Servable(ask[r])' <=> Servable(ask[r])
                            /\ TechKey(r)' = TechKey(r)
    BY <1>2 DEF Servable, TechKey
  <1> QED
    BY <1>2, <1>3, <1>4, <1>5 DEF RaceInv, Beaten

(* Competing requests never eliminate each other: whoever is turned away   *)
(* for contention, somebody at that dealership got an appointment by the   *)
(* time everybody is answered, however many compete and however often      *)
(* locks expire (acquire_slot_locks never waits, and a refused technician  *)
(* gives its bay back).                                                    *)
THEOREM SomeoneWinsAlways == Spec => []SomeoneWins
  <1>1. Init => Beaten
    BY DEF Init, Beaten, NoResource
  <1>2. LegalInv /\ OutcomeInv /\ HoldInv /\ Client!HeldIsOwned
            /\ (Calm => Beaten) /\ [Next]_vars => (Calm => Beaten')
    BY StepBeaten, OtherBeaten, CalmSteps DEF RaceInv, HoldInv, Next, Rest
  <1>3. Calm' <=> Calm
    BY DEF Calm
  <1>4. (Calm => Beaten) => SomeoneWins
    <2> SUFFICES ASSUME Calm, Beaten, \A r \in Requests : Ended(r),
                        NEW r \in Requests, Servable(ask[r]),
                        result[r] \in Refusals \cup {"INTEGRITY_ERROR"}
                 PROVE  Served(ask[r].dealership)
      BY DEF SomeoneWins, Calm, Served
    <2>1. InRace(ask[r].dealership) => Served(ask[r].dealership)
      BY DEF InRace, Served, Ended, Racing, UnderLocks
    <2>2. result[r] \in NoResource \cup {"SLOT_TAKEN"}
      BY DEF Refusals, NoResource
    <2> QED
      BY <2>1, <2>2 DEF Beaten
  <1> QED
    BY <1>1, <1>2, <1>3, <1>4, LegalInvariant, OutcomeInvariant,
       HoldInvariant, ClientBehaves, PTL DEF Spec
=============================================================================
