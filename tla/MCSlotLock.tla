----------------------------- MODULE MCSlotLock -----------------------------
(* A small instance of SlotLock: three requests over a bay key and a       *)
(* technician key, with every fault.                                       *)
EXTENDS SlotLock

AllFaults == {"expire", "redis", "crash"}
=============================================================================
