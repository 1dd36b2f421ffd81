---------------------------- MODULE MCAccountPool ---------------------------
(***************************************************************************)
(* Two accounts with two slots each and three requests: an account can be  *)
(* full while the other has room, and a lease can be released twice while  *)
(* another request still holds one on the same account.                    *)
(***************************************************************************)
EXTENDS AccountPool, TLC

CONSTANTS a1, a2, r1, r2, r3

MCAccounts == {a1, a2}
MCRequests == {r1, r2, r3}
MCDurations == {-1, 1}

Symmetry == Permutations(MCAccounts) \cup Permutations(MCRequests)
=============================================================================
