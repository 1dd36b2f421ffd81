---------------------------- MODULE MCTokenStore ----------------------------
(***************************************************************************)
(* Instances: two goroutines on one account, and one goroutine on two      *)
(* accounts that survives restarts.                                        *)
(***************************************************************************)
EXTENDS TokenStore

CONSTANTS a1, a2, g1, g2

OneAccount == {a1}
TwoAccounts == {a1, a2}
OneGoroutine == {g1}
TwoGoroutines == {g1, g2}

OnlyTokens == {"token"}
AllCalls == {"token", "account", "store"}
=============================================================================
