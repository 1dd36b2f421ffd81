-------------------------- MODULE MCResponseConvert -------------------------
(***************************************************************************)
(* Three calls: one with two ids, of which the upstream spells the first   *)
(* as the proxy spells one that is missing, one with only a call_id, and   *)
(* one with no ids at all.                                                 *)
(***************************************************************************)
EXTENDS ResponseConvert, TLC

CONSTANTS c1, c2, c3, k1, k2

MCCalls == {c1, c2, c3}

MCIds == c1 :> [id |-> <<"call", 0>>, call_id |-> k1] @@ c2 :> [id |-> NoId, call_id |-> k2]
         @@ c3 :> [id |-> NoId, call_id |-> NoId]
=============================================================================
