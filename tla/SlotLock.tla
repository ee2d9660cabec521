------------------------------ MODULE SlotLock ------------------------------
(***************************************************************************)
(* The Redis lock client of app/core/locks.py.                             *)
(*                                                                         *)
(* Every booking request creates one LockClient and asks it for a bay key  *)
(* and a technician key (SET key token NX PX 30000).  The server remembers *)
(* who holds a key, the client remembers which of its SETs were answered   *)
(* "OK", and a release deletes a key only when it still holds the client's *)
(* own token (the Lua compare-and-delete).  The two memories can disagree: *)
(* the key expires after 30 s whether or not the client is done, a reply   *)
(* can be lost after the command ran, and the client's process can die.    *)
(*                                                                         *)
(* A token is a fresh uuid4 per acquire.  The client's identity stands for *)
(* it: a client that does not own a key has no recorded token for it, so   *)
(* at most one token per client and key can ever be compared.              *)
(***************************************************************************)
EXTENDS FiniteSets

CONSTANTS
    Clients,    \* LockClient instances, one per booking request
    Keys,       \* lock:{resource}:{id}:{slot}
    NoClient,   \* the key does not exist in Redis
    Faults      \* what the environment may do: "expire", "redis", "crash"

ASSUME NoClientAssumption == NoClient \notin Clients

VARIABLES
    lock,       \* the Redis server: key -> the client whose token it holds
    owned       \* LockClient._owned: the keys whose SET was answered "OK"

lockVars == <<lock, owned>>

TypeOK ==
    /\ lock \in [Keys -> Clients \cup {NoClient}]
    /\ owned \in [Clients -> SUBSET Keys]

Init ==
    /\ lock = [k \in Keys |-> NoClient]
    /\ owned = [c \in Clients |-> {}]

-----------------------------------------------------------------------------
(* Mutants of acquire: SET without NX; the token kept under the wrong key. *)
AcquireWithoutNX(c, k) ==
    /\ lock' = [lock EXCEPT ![k] = c]
    /\ owned' = [owned EXCEPT ![c] = @ \cup {k}]

AcquireMiskeyed(c, k) ==
    /\ lock[k] = NoClient
    /\ lock' = [lock EXCEPT ![k] = c]
    /\ owned' = [owned EXCEPT ![c] = @ \cup {c}]

(* LockClient.acquire: SET NX succeeds on an absent key and the client     *)
(* records the token; on a present key the client is told no.              *)
Acquire(c, k) ==
    /\ lock[k] = NoClient
    /\ lock' = [lock EXCEPT ![k] = c]
    /\ owned' = [owned EXCEPT ![c] = @ \cup {k}]

Refuse(c, k) ==
    /\ lock[k] # NoClient
    /\ UNCHANGED lockVars

(* The call raises: the SET may or may not have run, and the line that     *)
(* records the token is not reached.                                       *)
AcquireError(c, k) ==
    /\ "redis" \in Faults
    /\ \/ lock' = lock
       \/ /\ lock[k] = NoClient
          /\ lock' = [lock EXCEPT ![k] = c]
    /\ UNCHANGED owned

(* Mutant of the script: a plain DEL.                                      *)
DeletedBlindly(c, k) == [lock EXCEPT ![k] = NoClient]

(* The Lua script: delete the key only if it still holds our token.        *)
Deleted(c, k) == [lock EXCEPT ![k] = IF @ = c THEN NoClient ELSE @]

(* LockClient.release: forget the token, then run the script.              *)
Release(c, k) ==
    /\ k \in owned[c]
    /\ owned' = [owned EXCEPT ![c] = @ \ {k}]
    /\ lock' = Deleted(c, k)

(* The script call raises; it may or may not have run.                     *)
ReleaseError(c, k) ==
    /\ "redis" \in Faults
    /\ k \in owned[c]
    /\ owned' = [owned EXCEPT ![c] = @ \ {k}]
    /\ lock' \in {lock, Deleted(c, k)}

(* PX 30000: Redis drops the key; nobody tells the client.                 *)
Expire(k) ==
    /\ "expire" \in Faults
    /\ lock[k] # NoClient
    /\ lock' = [lock EXCEPT ![k] = NoClient]
    /\ UNCHANGED owned

(* The client's process dies: its memory is gone, its keys stay.           *)
Crash(c) ==
    /\ "crash" \in Faults
    /\ owned' = [owned EXCEPT ![c] = {}]
    /\ UNCHANGED lock

Next ==
    \/ \E c \in Clients, k \in Keys :
          \/ k \notin owned[c] /\ Acquire(c, k)
          \/ k \notin owned[c] /\ Refuse(c, k)
          \/ k \notin owned[c] /\ AcquireError(c, k)
          \/ Release(c, k)
          \/ ReleaseError(c, k)
    \/ \E k \in Keys : Expire(k)
    \/ \E c \in Clients : Crash(c)

Spec == Init /\ [][Next]_lockVars

-----------------------------------------------------------------------------
(* While no key outlives its TTL, a client that believes it owns a key     *)
(* does: _owned agrees with the server through lost replies, lost releases *)
(* and crashes.  This is what makes the recheck under the lock meaningful. *)
OwnedIsHeld ==
    "expire" \notin Faults =>
        \A c \in Clients : \A k \in owned[c] : lock[k] = c

(* ... and so two clients never own the same key.                          *)
MutualExclusion ==
    "expire" \notin Faults =>
        \A c, d \in Clients : c # d => owned[c] \cap owned[d] = {}

(* Even when keys expire under their owners, a client that gives up a key  *)
(* never deletes the key of the client that took it over: whenever c's     *)
(* memory changes, only keys that are c's (or become c's) change.          *)
OnlyOwnToken ==
    [][\A c \in Clients, k \in Keys :
          owned'[c] # owned[c] /\ lock'[k] # lock[k] =>
              {lock[k], lock'[k]} = {c, NoClient}]_lockVars
=============================================================================
