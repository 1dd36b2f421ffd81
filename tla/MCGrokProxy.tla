---------------------------- MODULE MCGrokProxy -----------------------------
(***************************************************************************)
(* Two requests that may compete for the same account.  A Retry-After that *)
(* is absent, short, or beyond the clamp.                                  *)
(***************************************************************************)
EXTENDS GrokProxy, TLC

CONSTANTS a1, a2, r1, r2

TwoAccounts == {a1, a2}
OneAccount == {a1}
TwoRequests == {r1, r2}
OneRequest == {r1}
MCDurations == {1}
MCRetryHeaders == {0, 5}
NoRetryHeader == {0}

Symmetry == Permutations(TwoAccounts) \cup Permutations(TwoRequests)
=============================================================================
