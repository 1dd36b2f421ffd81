----------------------------- MODULE TokenService ---------------------------
(***************************************************************************)
(* What Lease.AccessToken promises its callers: each account has one       *)
(* current access token.  A call is answered at once with the current      *)
(* token, unless it has to renew it; a renewal replaces the current token  *)
(* by a newer one and answers with that.  Nothing else changes the current *)
(* token, except a restart of the process, which may bring back an older   *)
(* one and ends every call.                                                *)
(***************************************************************************)
EXTENDS Naturals

CONSTANTS Accounts, Goroutines, NoAccount

VARIABLES
  current,       \* the number of each account's access token
  call,          \* "none", "may" or "must" renew, "renewed", "answered"
  account,       \* the account a call is for
  token          \* the token a call has

vars == <<current, call, account, token>>

Init ==
  /\ current = [a \in Accounts |-> 0]
  /\ call = [g \in Goroutines |-> "none"]
  /\ account = [g \in Goroutines |-> NoAccount]
  /\ token = [g \in Goroutines |-> 0]

Step(g, from, to) ==
  /\ call[g] \in from
  /\ call' = [call EXCEPT ![g] = to]

\* A call begins; one after a 401 has to renew.
Ask(g, a) ==
  /\ \/ Step(g, {"none", "answered"}, "may")
     \/ Step(g, {"none", "answered"}, "must")
  /\ account' = [account EXCEPT ![g] = a]
  /\ token' = [token EXCEPT ![g] = 0]
  /\ UNCHANGED current

Reuse(g) ==
  /\ Step(g, {"may"}, "answered")
  /\ token' = [token EXCEPT ![g] = current[account[g]]]
  /\ UNCHANGED <<current, account>>

\* The current token has expired or is about to.
Decide(g) ==
  /\ Step(g, {"may"}, "must")
  /\ UNCHANGED <<current, account, token>>

Renew(g) ==
  LET a == account[g]
  IN  /\ Step(g, {"must"}, "renewed")
      /\ current' \in [Accounts -> Nat]
      /\ current'[a] > current[a]
      /\ \A b \in Accounts \ {a} : current'[b] = current[b]
      /\ token' = [token EXCEPT ![g] = current'[a]]
      /\ UNCHANGED account

Answer(g) ==
  /\ Step(g, {"renewed"}, "answered")
  /\ UNCHANGED <<current, account, token>>

\* The call fails, or its caller is done with the token.
Leave(g) ==
  /\ Step(g, {"may", "must", "renewed", "answered"}, "none")
  /\ account' = [account EXCEPT ![g] = NoAccount]
  /\ token' = [token EXCEPT ![g] = 0]
  /\ UNCHANGED current

Restart ==
  /\ current' \in [Accounts -> Nat]
  /\ \A a \in Accounts : current'[a] <= current[a]
  /\ call' = [g \in Goroutines |-> "none"]
  /\ account' = [g \in Goroutines |-> NoAccount]
  /\ token' = [g \in Goroutines |-> 0]

Next ==
  \/ \E g \in Goroutines :
       \/ \E a \in Accounts : Ask(g, a)
       \/ Reuse(g) \/ Decide(g) \/ Renew(g) \/ Answer(g) \/ Leave(g)
  \/ Restart

Spec == Init /\ [][Next]_vars
=============================================================================
