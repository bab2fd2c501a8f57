-------------------------- MODULE MCStorageLifetimes --------------------------
(* One campaign, one pool and a manifest of two allocations, with the fastest   *)
(* ledgers.  The numbers keep the order of the code's: a balance that is still *)
(* above its threshold is not extended and may then die before an expiry, an   *)
(* extension is no longer than an expiry, and TTL is longer than both.         *)
EXTENDS StorageLifetimes
=============================================================================
