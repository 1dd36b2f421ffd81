------------------------------ MODULE MCShutdown ----------------------------
(***************************************************************************)
(* Three requests, each open, answered or still to come when the signal    *)
(* arrives.                                                                *)
(***************************************************************************)
EXTENDS Shutdown

CONSTANTS r1, r2, r3

MCRequests == {r1, r2, r3}
=============================================================================
