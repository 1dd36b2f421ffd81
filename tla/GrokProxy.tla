------------------------------ MODULE GrokProxy -----------------------------
(***************************************************************************)
(* The request handler with the access tokens it gets from the credential  *)
(* store: ProxyHandler composed with the token service that TokenStore     *)
(* implements.  A token is the number of the grant that issued it; the     *)
(* upstream may refuse any token.                                          *)
(***************************************************************************)
EXTENDS ProxyHandler

CONSTANT MaxGrants       \* bound on the grants per account

ASSUME GrantAssumption == MaxGrants \in Nat

VARIABLES
  current,   \* account.AccessToken
  token,     \* the local variable token of proxy; 0 while there is none
  refused    \* history: the token of this attempt that got a 401, or -1

tokenVars == <<current, token, refused>>
grokVars == <<handlerVars, tokenVars>>

GrokInit ==
  /\ HandlerInit
  /\ current = [a \in Accounts |-> 0]
  /\ token = [r \in Requests |-> 0]
  /\ refused = [r \in Requests |-> -1]
-----------------------------------------------------------------------------
TakeAnyway(r) ==           \* mutant: AccessToken ignores its argument force
  /\ ~Refreshing(lease[r].account)
  /\ Goto(r, "token", "forward")
  /\ token' = [token EXCEPT ![r] = current[lease[r].account]]
  /\ UNCHANGED <<poolVars, attempt, forced, status, open, penalty, reply, gone,
                 current, refused>>

TakeCached(r) ==
  /\ UseCached(r)
  /\ token' = [token EXCEPT ![r] = current[lease[r].account]]
  /\ UNCHANGED <<current, refused>>

Granted(r) ==
  /\ BeginStamp(r)
  /\ current[lease[r].account] < MaxGrants
  /\ UNCHANGED tokenVars

RenewStale(r) ==           \* mutant: the token is read before the exchange
  /\ EndStamp(r)
  /\ current' = [current EXCEPT ![lease[r].account] = @ + 1]
  /\ token' = [token EXCEPT ![r] = current[lease[r].account]]
  /\ UNCHANGED refused

\* The assignments of AccessToken become visible with the unlock after them.
Renew(r) ==
  /\ EndStamp(r)
  /\ current' = [current EXCEPT ![lease[r].account] = @ + 1]
  /\ token' = [token EXCEPT ![r] = current'[lease[r].account]]
  /\ UNCHANGED refused

RefuseToken(r) ==
  /\ Unauthorized(r)
  /\ refused' = [refused EXCEPT ![r] = token[r]]
  /\ UNCHANGED <<current, token>>

\* The token is a local of one iteration of the loop.
EndAttempt(r) ==
  /\ GiveBack(r) \/ Finish(r)
  /\ token' = [token EXCEPT ![r] = 0]
  /\ refused' = [refused EXCEPT ![r] = -1]
  /\ UNCHANGED current

GetCurrent(r) ==
  \/ TakeCached(r)
  \/ (Exchange(r) \/ TokenFails(r)) /\ UNCHANGED tokenVars

ServeWithToken(r) ==
  \/ GetCurrent(r) \/ Granted(r) \/ Renew(r) \/ RefuseToken(r) \/ EndAttempt(r)
  \/ /\ \/ AcquireLease(r) \/ Refuse(r) \/ Saved(r)
        \/ ForwardFails(r) \/ \E s \in Statuses : ForwardReturns(r, s)
        \/ RejectedAgain(r) \/ RateLimited(r) \/ ServerError(r)
        \/ Bench(r) \/ StartRelay(r)
     /\ UNCHANGED tokenVars

GrokNext ==
  \/ \E r \in Requests :
       \/ ServeWithToken(r)
       \/ (AnswerLocally(r) \/ Admit(r) \/ Relay(r) \/ Depart(r)) /\ UNCHANGED tokenVars
  \/ Tick /\ UNCHANGED <<ownVars, tokenVars>>

GrokSpec == GrokInit /\ [][GrokNext]_grokVars

\* A goroutine is scheduled, and http.Client.Timeout ends its upstream calls.
\* A sync.Mutex starves no goroutine that waits for it (GetCurrent).  A relay
\* ends when its client is gone; before, it also waits for the client to read.
FairGrokSpec ==
  /\ GrokSpec
  /\ \A r \in Requests :
       /\ WF_grokVars(ServeWithToken(r)) /\ SF_grokVars(GetCurrent(r))
       /\ WF_grokVars(gone[r] /\ Relay(r) /\ UNCHANGED tokenVars)
-----------------------------------------------------------------------------
GrokTypeOK ==
  /\ HandlerTypeOK
  /\ current \in [Accounts -> 0 .. MaxGrants]
  /\ token \in [Requests -> 0 .. MaxGrants]
  /\ refused \in [Requests -> -1 .. MaxGrants]

\* With one request per account (the default), nobody renews the token under a
\* request: what it presents is the account's current token, and a renewal it
\* forces replaces the very token the upstream refused.
TokensFollowLeases ==
  MaxConcurrency = 1 =>
    \A r \in Requests :
      /\ step[r] \in {"save", "forward", "judge", "relay"} =>
           token[r] = current[lease[r].account]
      /\ forced[r] /\ step[r] \in {"token", "exchange", "stamp"} =>
           refused[r] = current[lease[r].account]

\* However many requests share an account and renew its token, the one retry
\* after a 401 presents a newer token than the one that was refused, so that
\* the five-minute penalty follows two refusals of different tokens.
RetryUsesNewerToken ==
  \A r \in Requests :
    forced[r] /\ step[r] \in {"save", "forward", "judge"} => token[r] > refused[r]

\* What the handler does between two calls of the token service.
CallOf(r) ==
  CASE step[r] = "token" -> IF forced[r] THEN "must" ELSE "may"
    [] step[r] \in {"exchange", "stamp"} -> "must"
    [] step[r] = "save" -> "renewed"
    [] step[r] \in {"forward", "judge"} -> "answered"
    [] OTHER -> "none"

\* The handler and what it takes AccessToken to do are a behaviour of the
\* service that TokenStore implements.
Service == INSTANCE TokenService WITH
  Goroutines <- Requests,
  call    <- [r \in Requests |-> CallOf(r)],
  account <- [r \in Requests |->
                IF CallOf(r) = "none" THEN NoAccount ELSE lease[r].account],
  token   <- [r \in Requests |->
                IF CallOf(r) \in {"renewed", "answered"} THEN token[r] ELSE 0]

UsesTokenService == Service!Spec
=============================================================================
