---------------------------- MODULE ProxyHandler ----------------------------
(***************************************************************************)
(* Handler.ServeHTTP and Handler.proxy in internal/proxy/handler.go: each  *)
(* request goroutine takes a lease from the account pool, gets a token,    *)
(* calls the upstream, and either relays the answer or benches the account *)
(* and tries the next one.                                                 *)
(*                                                                         *)
(* The steps of the goroutines interleave with one another and with the    *)
(* clock.  A response is its class of status code and whether its body is  *)
(* still open; tokens are the subject of TokenStore.                       *)
(***************************************************************************)
EXTENDS AccountPool

CONSTANTS
  Short, FiveMinutes, Hour,  \* 15 s, 5 min and 1 h in units of the clock
  RetryHeaders,              \* Retry-After in clock units; <= 0: absent or invalid
  Leavers                    \* the requests whose clients may disconnect

ASSUME HandlerAssumption ==
  /\ Accounts # {}           \* credential.Load fails without an account
  /\ {Short, FiveMinutes, Hour} \subseteq Nat \ {0}
  /\ RetryHeaders \subseteq Int
  /\ Leavers \subseteq Requests

VARIABLES
  step,      \* where each goroutine is in proxy; "idle" between requests
  attempt,   \* the loop counter
  forced,    \* the token was refreshed because of a 401
  status,    \* class of resp.StatusCode
  open,      \* resp.Body has not been closed
  penalty,   \* the argument of the Cooldown call to come
  reply,     \* what the client was sent
  gone       \* the client has disconnected

ownVars == <<step, attempt, forced, status, open, penalty, reply, gone>>
handlerVars == <<poolVars, ownVars>>

\* resp.StatusCode by what proxy does with it; "none" while there is no response.
Statuses == {"ok", "unauthorized", "limited", "serverError", "other"}

HandlerInit ==
  /\ PoolInit
  /\ step = [r \in Requests |-> "idle"]
  /\ attempt = [r \in Requests |-> 0]
  /\ forced = [r \in Requests |-> FALSE]
  /\ status = [r \in Requests |-> "none"]
  /\ open = [r \in Requests |-> FALSE]
  /\ penalty = [r \in Requests |-> 0]
  /\ reply = [r \in Requests |-> "none"]
  /\ gone = [r \in Requests |-> FALSE]

Goto(r, from, to) ==
  /\ step[r] = from
  /\ step' = [step EXCEPT ![r] = to]

Refreshing(a) ==
  \E r \in Requests : step[r] \in {"exchange", "stamp"} /\ lease[r].account = a

\* retryAfter: clamped to an hour, a minute when there is no usable value.
RetryAfter(header) ==
  IF header <= 0 THEN Minute ELSE IF header > Hour THEN Hour ELSE header
-----------------------------------------------------------------------------
\* Health check, model list, failed authentication, unknown route, or a body
\* that cannot be read or converted: answered without a lease.
AnswerLocally(r) ==
  /\ Goto(r, "idle", "idle")
  /\ reply' = [reply EXCEPT ![r] = "local"]
  /\ UNCHANGED <<poolVars, attempt, forced, status, open, penalty, gone>>

Admit(r) ==
  /\ Goto(r, "idle", "acquire")
  /\ reply' = [reply EXCEPT ![r] = "none"]
  /\ gone' = [gone EXCEPT ![r] = FALSE]
  /\ UNCHANGED <<poolVars, attempt, forced, status, open, penalty>>

\* The client of a request disconnects, which cancels the request's context.
Depart(r) ==
  /\ r \in Leavers
  /\ step[r] # "idle" /\ ~gone[r]
  /\ gone' = [gone EXCEPT ![r] = TRUE]
  /\ UNCHANGED <<poolVars, step, attempt, forced, status, open, penalty, reply>>

AcquireUnbounded(r) ==     \* mutant: the loop does not count its attempts
  /\ Goto(r, "acquire", "token")
  /\ Acquire(r)
  /\ UNCHANGED <<attempt, forced, status, open, penalty, reply, gone>>

AcquireLease(r) ==
  /\ attempt[r] < Cardinality(Accounts)
  /\ Goto(r, "acquire", "token")
  /\ Acquire(r)
  /\ UNCHANGED <<attempt, forced, status, open, penalty, reply, gone>>

\* 503: every attempt failed, or Acquire found no account.
Refuse(r) ==
  /\ attempt[r] = Cardinality(Accounts) \/ Eligible = {}
  /\ Goto(r, "acquire", "idle")
  /\ attempt' = [attempt EXCEPT ![r] = 0]
  /\ reply' = [reply EXCEPT ![r] = "unavailable"]
  /\ UNCHANGED <<poolVars, forced, status, open, penalty, gone>>
-----------------------------------------------------------------------------
\* AccessToken, behind the account's mutex: the cached token is good...
UseCached(r) ==
  /\ ~forced[r]
  /\ ~Refreshing(lease[r].account)
  /\ Goto(r, "token", "forward")
  /\ UNCHANGED <<poolVars, attempt, forced, status, open, penalty, reply, gone>>

\* ... or it has expired, was rejected, or is about to expire.
Exchange(r) ==
  /\ ~Refreshing(lease[r].account)
  /\ Goto(r, "token", "exchange")
  /\ UNCHANGED <<poolVars, attempt, forced, status, open, penalty, reply, gone>>

BeginStamp(r) ==
  /\ Goto(r, "exchange", "stamp")
  /\ StampBegins(lease[r].account)
  /\ UNCHANGED <<attempt, forced, status, open, penalty, reply, gone>>

EndStamp(r) ==
  /\ Goto(r, "stamp", "save")
  /\ StampEnds(lease[r].account)
  /\ UNCHANGED <<attempt, forced, status, open, penalty, reply, gone>>

Saved(r) ==
  /\ Goto(r, "save", "forward")
  /\ UNCHANGED <<poolVars, attempt, forced, status, open, penalty, reply, gone>>

Blame(r, from, duration) ==
  /\ Goto(r, from, "cool")
  /\ penalty' = [penalty EXCEPT ![r] = duration]

\* No refresh token, a failed exchange, or a state file that cannot be saved.
TokenFails(r) ==
  /\ \/ Blame(r, "token", Minute) /\ ~Refreshing(lease[r].account)
     \/ Blame(r, "exchange", Minute)
     \/ Blame(r, "save", Minute)
  /\ UNCHANGED <<poolVars, attempt, forced, status, open, reply, gone>>
-----------------------------------------------------------------------------
\* client.Do returns an error: unreachable, timed out, or the client left and
\* its context was cancelled.
ForwardFails(r) ==
  /\ Blame(r, "forward", IF forced[r] THEN Minute ELSE Short)
  /\ UNCHANGED <<poolVars, attempt, forced, status, open, reply, gone>>

ForwardReturns(r, s) ==
  /\ Goto(r, "forward", "judge")
  /\ status' = [status EXCEPT ![r] = s]
  /\ open' = [open EXCEPT ![r] = TRUE]
  /\ UNCHANGED <<poolVars, attempt, forced, penalty, reply, gone>>

Drain(r) == open' = [open EXCEPT ![r] = FALSE]

RefreshAgain(r) ==         \* mutant: the retry after a 401 is not remembered
  /\ status[r] = "unauthorized" /\ ~forced[r]
  /\ Goto(r, "judge", "token")
  /\ Drain(r)
  /\ UNCHANGED <<poolVars, attempt, forced, status, penalty, reply, gone>>

\* The first 401 of an attempt: one forced refresh on the same lease.
Unauthorized(r) ==
  /\ status[r] = "unauthorized" /\ ~forced[r]
  /\ Goto(r, "judge", "token")
  /\ Drain(r)
  /\ forced' = [forced EXCEPT ![r] = TRUE]
  /\ UNCHANGED <<poolVars, attempt, status, penalty, reply, gone>>

RejectedAgain(r) ==
  /\ status[r] = "unauthorized" /\ forced[r]
  /\ Blame(r, "judge", FiveMinutes)
  /\ Drain(r)
  /\ UNCHANGED <<poolVars, attempt, forced, status, reply, gone>>

RateLimitedUndrained(r) == \* mutant: the body of a 429 is not closed
  /\ status[r] = "limited"
  /\ \E h \in RetryHeaders : Blame(r, "judge", RetryAfter(h))
  /\ UNCHANGED <<poolVars, attempt, forced, status, open, reply, gone>>

RateLimited(r) ==
  /\ status[r] = "limited"
  /\ \E h \in RetryHeaders : Blame(r, "judge", RetryAfter(h))
  /\ Drain(r)
  /\ UNCHANGED <<poolVars, attempt, forced, status, reply, gone>>

ServerErrorContinues(r) == \* mutant: continue without giving the lease back
  /\ status[r] = "serverError"
  /\ Goto(r, "judge", "acquire")
  /\ Drain(r)
  /\ UNCHANGED <<poolVars, attempt, forced, status, penalty, reply, gone>>

ServerError(r) ==
  /\ status[r] = "serverError"
  /\ Blame(r, "judge", Short)
  /\ Drain(r)
  /\ UNCHANGED <<poolVars, attempt, forced, status, reply, gone>>

Bench(r) ==
  /\ Goto(r, "cool", "release")
  /\ Cooldown(r, penalty[r])
  /\ penalty' = [penalty EXCEPT ![r] = 0]
  /\ UNCHANGED <<attempt, forced, status, open, reply, gone>>

\* The token and the response are locals of one iteration of the loop.
EndIteration(r) ==
  /\ forced' = [forced EXCEPT ![r] = FALSE]
  /\ status' = [status EXCEPT ![r] = "none"]

GiveBack(r) ==
  /\ Goto(r, "release", "acquire")
  /\ Release(r)
  /\ attempt' = [attempt EXCEPT ![r] = @ + 1]
  /\ EndIteration(r)
  /\ UNCHANGED <<open, penalty, reply, gone>>
-----------------------------------------------------------------------------
StartRelay(r) ==
  /\ status[r] \in {"ok", "other"}
  /\ Goto(r, "judge", "relay")
  /\ UNCHANGED <<poolVars, attempt, forced, status, open, penalty, reply, gone>>

\* The relaying functions close the body whatever happens.  A 2xx is relayed
\* whole or breaks off; a refusal is relayed with its status.  When the body
\* cannot be read (copyUpstreamError) or is not JSON (writeNonStream) they
\* return before anything is written, and net/http then sends an empty 200.
RelayOutcomes(s) ==
  IF s = "ok" THEN {"result", "broken", "empty200"} ELSE {"refusal", "broken", "empty200"}

Relay(r) ==
  /\ Goto(r, "relay", "finish")
  /\ Drain(r)
  /\ \E outcome \in RelayOutcomes(status[r]) : reply' = [reply EXCEPT ![r] = outcome]
  /\ UNCHANGED <<poolVars, attempt, forced, status, penalty, gone>>

\* The deferred Release.
Finish(r) ==
  /\ Goto(r, "finish", "idle")
  /\ Release(r)
  /\ attempt' = [attempt EXCEPT ![r] = 0]
  /\ EndIteration(r)
  /\ UNCHANGED <<open, penalty, reply, gone>>
-----------------------------------------------------------------------------
GetToken(r) == UseCached(r) \/ Exchange(r) \/ TokenFails(r)

\* Everything the goroutine does by itself.  Relay is apart: it also waits for
\* the client to read, and the server sets no WriteTimeout.  Only when the
\* client is gone do its reads and writes fail.
Serve(r) ==
  \/ AcquireLease(r) \/ Refuse(r)
  \/ GetToken(r) \/ BeginStamp(r) \/ EndStamp(r) \/ Saved(r)
  \/ ForwardFails(r) \/ \E s \in Statuses : ForwardReturns(r, s)
  \/ Unauthorized(r) \/ RejectedAgain(r) \/ RateLimited(r) \/ ServerError(r)
  \/ Bench(r) \/ GiveBack(r)
  \/ StartRelay(r) \/ Finish(r)

HandlerNext ==
  \/ \E r \in Requests : AnswerLocally(r) \/ Admit(r) \/ Serve(r) \/ Relay(r) \/ Depart(r)
  \/ Tick /\ UNCHANGED ownVars

HandlerSpec == HandlerInit /\ [][HandlerNext]_handlerVars
-----------------------------------------------------------------------------
Steps == {"idle", "acquire", "token", "exchange", "stamp", "save", "forward",
          "judge", "cool", "release", "relay", "finish"}

Serving == Steps \ {"idle", "acquire"}

HandlerTypeOK ==
  /\ PoolTypeOK
  /\ step \in [Requests -> Steps]
  /\ attempt \in [Requests -> 0 .. Cardinality(Accounts)]
  /\ forced \in [Requests -> BOOLEAN]
  /\ status \in [Requests -> Statuses \cup {"none"}]
  /\ open \in [Requests -> BOOLEAN]
  /\ penalty \in [Requests -> Nat]
  /\ reply \in [Requests -> {"none", "local", "unavailable", "result",
                             "refusal", "broken", "empty200"}]
  /\ gone \in [Requests -> BOOLEAN]

\* On every path through the retry loop, the error paths included, a request
\* holds a lease exactly while it serves: none is lost by a continue or a
\* return, and none is given back while the account is still in use.
LeasesFollowRequests == \A r \in Requests : Holds(r) <=> step[r] \in Serving

\* No path abandons an upstream response with its body open, which would pin
\* the connection to the upstream for good.
BodiesClosed == \A r \in Requests : open[r] => step[r] \in {"judge", "relay"}

\* With one request per account (the default), the account a goroutine is
\* using is not cooling down: no other goroutine's penalty lands on it after
\* it was handed on.
NoCallWhileCooling ==
  MaxConcurrency = 1 =>
    \A r \in Requests :
      step[r] \in Serving \ {"release"} => ~Cooling(lease[r].account)

\* With one request per account, a cooldown in force is never replaced by one
\* that ends earlier, although Cooldown assigns the deadline unconditionally:
\* a Retry-After is not cut short by a 15-second penalty.
CooldownNeverShortened ==
  [][MaxConcurrency = 1 =>
       \A a \in Accounts :
         Cooling(a) => cooldownTill'[a] >= cooldownTill[a]]_handlerVars

\* Every admitted request is answered or reaches the relay: the loop ends
\* whatever the upstream and the OAuth endpoint answer, and no goroutine waits
\* for ever for an account's mutex.
EveryRequestJudged ==
  \A r \in Requests : step[r] = "acquire" ~> step[r] \in {"idle", "relay"}

\* A client that disconnects gives its account back, wherever its request is:
\* waiting for a mutex, in an exchange or a call, or in the relay.
LeaverLetsGo == \A r \in Leavers : gone[r] /\ Holds(r) ~> ~Holds(r)

\* What the endpoints claim to be, and what the log line of handler.go:168
\* reports: a request the upstream refused is answered with that refusal.
RefusalReachesClient ==
  [][\A r \in Requests :
       step[r] = "relay" /\ step'[r] = "finish" /\ status[r] = "other"
         => reply'[r] # "empty200"]_handlerVars
=============================================================================
