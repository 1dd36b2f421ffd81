--------------------------- MODULE AccountLeasing ---------------------------
(***************************************************************************)
(* What the account pool promises to the request handlers, with no         *)
(* counters, timestamps or selection order: a handler that holds an        *)
(* account holds one account, no account has more than MaxConcurrency      *)
(* holders, and no account is handed out while it is cooling.              *)
(*                                                                         *)
(* AccountPool implements this specification (AccountPool!Leasing).        *)
(***************************************************************************)
EXTENDS Integers, FiniteSets

CONSTANTS
  Accounts,        \* the accounts loaded at start-up
  Requests,        \* the goroutines that serve requests
  MaxConcurrency   \* GROK_MAX_CONCURRENCY_PER_ACCOUNT

VARIABLES
  holders,         \* holders[a]: the requests that may call upstream as a
  cooling          \* the accounts that must not be handed out

vars == <<holders, cooling>>

Init ==
  /\ holders = [a \in Accounts |-> {}]
  /\ cooling = {}

Take(r, a) ==
  /\ \A b \in Accounts : r \notin holders[b]
  /\ Cardinality(holders[a]) < MaxConcurrency
  /\ a \notin cooling
  /\ holders' = [holders EXCEPT ![a] = @ \cup {r}]
  /\ UNCHANGED cooling

Give(r, a) ==
  /\ r \in holders[a]
  /\ holders' = [holders EXCEPT ![a] = @ \ {r}]
  /\ UNCHANGED cooling

Cool(a) ==
  /\ cooling' = cooling \cup {a}
  /\ UNCHANGED holders

\* Time passes: any of the cooling accounts become available again.
Thaw ==
  /\ cooling' \in SUBSET cooling
  /\ UNCHANGED holders

Next ==
  \/ \E r \in Requests, a \in Accounts : Take(r, a) \/ Give(r, a)
  \/ \E a \in Accounts : Cool(a)
  \/ Thaw

Spec == Init /\ [][Next]_vars
=============================================================================
