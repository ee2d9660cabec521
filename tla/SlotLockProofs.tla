--------------------------- MODULE SlotLockProofs ---------------------------
(***************************************************************************)
(* What the lock client of SlotLock.tla guarantees for any number of       *)
(* clients and keys.  OwnedIsHeld is inductive together with TypeOK: an    *)
(* acquire writes both memories, a lost acquire only the server's, every   *)
(* release drops the client's memory no later than the server's, and the   *)
(* one step that breaks the agreement, an expiry, is excluded.             *)
(***************************************************************************)
EXTENDS SlotLock, TLAPS

LEMMA InitType == Init => TypeOK
  BY DEF Init, TypeOK

LEMMA NextType == TypeOK /\ [Next]_lockVars => TypeOK'
  <1> SUFFICES ASSUME TypeOK, [Next]_lockVars PROVE TypeOK'
    OBVIOUS
  <1> USE DEF TypeOK
  <1>1. ASSUME NEW c \in Clients, NEW k \in Keys,
               Acquire(c, k) \/ Refuse(c, k) \/ AcquireError(c, k)
                 \/ Release(c, k) \/ ReleaseError(c, k)
        PROVE  TypeOK'
    BY <1>1 DEF Acquire, Refuse, AcquireError, Release, ReleaseError, Deleted,
                lockVars
  <1>2. ASSUME NEW k \in Keys, Expire(k) PROVE TypeOK'
    BY <1>2 DEF Expire
  <1>3. ASSUME NEW c \in Clients, Crash(c) PROVE TypeOK'
    BY <1>3 DEF Crash
  <1>4. CASE UNCHANGED lockVars
    BY <1>4 DEF lockVars
  <1> QED
    BY <1>1, <1>2, <1>3, <1>4 DEF Next

(* The lock table and the clients' memories are well formed.               *)
THEOREM LockTypeCorrect == Spec => []TypeOK
  BY InitType, NextType, PTL DEF Spec

-----------------------------------------------------------------------------
LEMMA NextHeld == TypeOK /\ OwnedIsHeld /\ [Next]_lockVars => OwnedIsHeld'
  <1> SUFFICES ASSUME TypeOK, OwnedIsHeld, [Next]_lockVars,
                      "expire" \notin Faults,
                      NEW d \in Clients, NEW l \in owned'[d]
               PROVE  lock'[l] = d
    BY DEF OwnedIsHeld
  <1> USE DEF TypeOK, OwnedIsHeld
  <1>1. ASSUME NEW c \in Clients, NEW k \in Keys, Acquire(c, k)
        PROVE  lock'[l] = d
    BY <1>1, NoClientAssumption DEF Acquire
  <1>2. ASSUME NEW c \in Clients, NEW k \in Keys, AcquireError(c, k)
        PROVE  lock'[l] = d
    BY <1>2, NoClientAssumption DEF AcquireError
  <1>3. ASSUME NEW c \in Clients, NEW k \in Keys,
               Release(c, k) \/ ReleaseError(c, k)
        PROVE  lock'[l] = d
    BY <1>3 DEF Release, ReleaseError, Deleted
  <1>4. ASSUME NEW c \in Clients, Crash(c) PROVE lock'[l] = d
    BY <1>4 DEF Crash
  <1>5. CASE UNCHANGED lockVars
    BY <1>5 DEF lockVars
  <1> QED
    BY <1>1, <1>2, <1>3, <1>4, <1>5 DEF Next, Refuse, Expire

(* Without expiry, what a client believes it owns it does hold.            *)
THEOREM OwnedIsHeldAlways == Spec => []OwnedIsHeld
  <1>1. Init => OwnedIsHeld
    BY DEF Init, OwnedIsHeld
  <1> QED
    BY <1>1, InitType, NextType, NextHeld, PTL DEF Spec

(* Without expiry, no two clients own one key: each of them would be the   *)
(* one holder of it.                                                       *)
THEOREM MutualExclusionAlways == Spec => []MutualExclusion
  <1>1. OwnedIsHeld => MutualExclusion
    BY DEF OwnedIsHeld, MutualExclusion
  <1> QED
    BY <1>1, OwnedIsHeldAlways, PTL

-----------------------------------------------------------------------------
(* When no call fails and no process dies, the server remembers no more    *)
(* than the clients do: a key that is held has an owner who will release   *)
(* it (an expiry only makes the server forget).                            *)
HeldIsOwned ==
    Faults \cap {"redis", "crash"} = {} =>
        \A c \in Clients, k \in Keys : lock[k] = c => k \in owned[c]

LEMMA HeldIsOwnedAlways == Spec => []HeldIsOwned
  <1>1. Init => HeldIsOwned
    BY NoClientAssumption DEF Init, HeldIsOwned
  <1>2. TypeOK /\ HeldIsOwned /\ [Next]_lockVars => HeldIsOwned'
    <2> SUFFICES ASSUME TypeOK, HeldIsOwned, [Next]_lockVars,
                        "redis" \notin Faults, "crash" \notin Faults,
                        NEW d \in Clients, NEW l \in Keys, lock'[l] = d
                 PROVE  l \in owned'[d]
      BY DEF HeldIsOwned
    <2> USE DEF TypeOK, HeldIsOwned
    <2>1. ASSUME NEW c \in Clients, NEW k \in Keys, Acquire(c, k)
          PROVE  l \in owned'[d]
      BY <2>1 DEF Acquire
    <2>2. ASSUME NEW c \in Clients, NEW k \in Keys, Release(c, k)
          PROVE  l \in owned'[d]
      BY <2>2, NoClientAssumption DEF Release, Deleted
    <2>3. ASSUME NEW k \in Keys, Expire(k) PROVE l \in owned'[d]
      BY <2>3, NoClientAssumption DEF Expire
    <2>4. CASE UNCHANGED lockVars
      BY <2>4 DEF lockVars
    <2> QED
      BY <2>1, <2>2, <2>3, <2>4 DEF Next, Refuse, AcquireError, ReleaseError, Crash
  <1> QED
    BY <1>1, <1>2, LockTypeCorrect, PTL DEF Spec

-----------------------------------------------------------------------------
LEMMA NextOwnToken ==
    TypeOK /\ [Next]_lockVars =>
        \A c \in Clients, k \in Keys :
            owned'[c] # owned[c] /\ lock'[k] # lock[k] =>
                {lock[k], lock'[k]} = {c, NoClient}
  <1> SUFFICES ASSUME TypeOK, [Next]_lockVars, NEW c \in Clients, NEW k \in Keys,
                      owned'[c] # owned[c], lock'[k] # lock[k]
               PROVE  {lock[k], lock'[k]} = {c, NoClient}
    OBVIOUS
  <1> USE DEF TypeOK
  <1>1. ASSUME NEW d \in Clients, NEW l \in Keys, Acquire(d, l)
        PROVE  {lock[k], lock'[k]} = {c, NoClient}
    BY <1>1 DEF Acquire
  <1>2. ASSUME NEW d \in Clients, NEW l \in Keys,
               Release(d, l) \/ ReleaseError(d, l)
        PROVE  {lock[k], lock'[k]} = {c, NoClient}
    BY <1>2 DEF Release, ReleaseError, Deleted
  <1> QED
    BY <1>1, <1>2 DEF Next, Refuse, AcquireError, Expire, Crash, lockVars

(* With or without expiry, a client that gives up keys deletes none that   *)
(* belongs to another.                                                     *)
THEOREM OnlyOwnTokenAlways == Spec => OnlyOwnToken
  BY LockTypeCorrect, NextOwnToken, PTL DEF Spec, OnlyOwnToken
=============================================================================
