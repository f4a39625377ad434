--------------------------- MODULE MC_HatRepository ---------------------------
(* One process checks out, syncs and deletes; another may hold a reset it has begun
   meanwhile.  The lock serialises everything behind it, so that what a second process has
   done before it gets the lock (asked for access, found the clone) is all that overlaps. *)
EXTENDS HatRepository, TLC

CONSTANTS p, q

MCUses == (p :> {"checkout", "sync", "delete"}) @@ (q :> {"reset"})
=============================================================================
