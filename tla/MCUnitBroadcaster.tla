------------------------- MODULE MCUnitBroadcaster --------------------------
(***************************************************************************)
(* Small instance of UnitBroadcaster for TLC: two threads, three           *)
(* subscriptions, two broadcasts per thread.                               *)
(***************************************************************************)
EXTENDS UnitBroadcaster

CONSTANTS t1, t2

MCThreads == {t1, t2}
=============================================================================
