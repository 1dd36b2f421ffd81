-------------------------- MODULE GrokProxy_proofs --------------------------
(***************************************************************************)
(* Proofs about AccountPool, about ProxyHandler, which uses the pool, and  *)
(* about GrokProxy, which adds the tokens to the handler: for every set of *)
(* accounts and requests, every limit, every sequence of cooldowns, and    *)
(* every answer and Retry-After of the upstream.  What is proved of a part *)
(* carries over to the whole.                                              *)
(***************************************************************************)
EXTENDS GrokProxy, FiniteSetTheorems, TLAPS

-----------------------------------------------------------------------------
(***************************************************************************)
(* AccountPool.                                                            *)
(***************************************************************************)
\* The sets of holders are finite, so that they can be counted.
LEMMA HoldersFinite ==
  ASSUME NEW a
  PROVE  /\ IsFiniteSet(Holders(a))
         /\ Cardinality(Holders(a)) \in Nat
<1>1. Holders(a) \subseteq Requests
  BY DEF Holders
<1>2. IsFiniteSet(Holders(a))
  BY <1>1, PoolAssumption, FS_Subset DEF PoolAssumption
<1> QED BY <1>2, FS_CardinalityType

\* What a new lease does to the sets of holders.
LEMMA TakenHolders ==
  ASSUME PoolTypeOK, NEW r \in Requests, NEW a \in Accounts, ~Holds(r),
         lease' = [lease EXCEPT ![r] = [account |-> a, released |-> FALSE]]
  PROVE  /\ r \notin Holders(a)
         /\ Holders(a)' = Holders(a) \cup {r}
         /\ \A b \in Accounts \ {a} : Holders(b)' = Holders(b)
<1>1. \A q \in Requests \ {r} : lease'[q] = lease[q]
  BY DEF PoolTypeOK
<1>2. lease'[r] = [account |-> a, released |-> FALSE]
  BY DEF PoolTypeOK
<1>3. \A b \in Accounts : r \notin Holders(b)
  BY PoolAssumption DEF PoolAssumption, Holders, Holds
<1> QED BY <1>1, <1>2, <1>3 DEF Holders

\* What a first Release does to the sets of holders.
LEMMA GivenHolders ==
  ASSUME PoolTypeOK, NEW r \in Requests,
         lease[r].account # NoAccount, ~lease[r].released,
         lease' = [lease EXCEPT ![r].released = TRUE]
  PROVE  \E a \in Accounts :
           /\ a = lease[r].account
           /\ r \in Holders(a)
           /\ Holders(a)' = Holders(a) \ {r}
           /\ \A b \in Accounts \ {a} : Holders(b)' = Holders(b)
<1>1. lease[r] \in [account : Accounts \cup {NoAccount}, released : BOOLEAN]
  BY DEF PoolTypeOK
<1>2. PICK a \in Accounts : a = lease[r].account
  BY <1>1
<1>3. \A q \in Requests \ {r} : lease'[q] = lease[q]
  BY DEF PoolTypeOK
<1>4. lease'[r].account = a /\ lease'[r].released
  BY <1>1, <1>2 DEF PoolTypeOK
<1>5. r \in Holders(a)
  BY <1>2 DEF Holders
<1>6. Holders(a)' = Holders(a) \ {r}
  BY <1>3, <1>4 DEF Holders
<1>7. \A b \in Accounts \ {a} : Holders(b)' = Holders(b)
  BY <1>2, <1>3, <1>4 DEF Holders
<1> QED BY <1>2, <1>5, <1>6, <1>7

\* Steps that leave the leases alone leave the holders alone.
LEMMA SameHolders ==
  ASSUME UNCHANGED lease
  PROVE  \A a : Holders(a)' = Holders(a)
BY DEF Holders
-----------------------------------------------------------------------------
\* No step of the pool leaves the types.
LEMMA TypeStep == ASSUME PoolTypeOK, [PoolNext]_poolVars PROVE PoolTypeOK'
<1>1. ASSUME NEW r \in Requests, Acquire(r) PROVE PoolTypeOK'
  <2>1. PICK a \in Selectable :
          /\ inFlight' = [inFlight EXCEPT ![a] = @ + 1]
          /\ lease' = [lease EXCEPT ![r] = [account |-> a, released |-> FALSE]]
    BY <1>1 DEF Acquire
  <2>2. a \in Accounts
    BY <2>1 DEF Selectable, LeastLoaded, Eligible
  <2> QED BY <1>1, <2>1, <2>2 DEF Acquire, PoolTypeOK
<1>2. ASSUME NEW r \in Requests, Release(r) PROVE PoolTypeOK'
  <2>1. lease' \in [Requests -> [account : Accounts \cup {NoAccount}, released : BOOLEAN]]
    BY <1>2 DEF Release, PoolTypeOK
  <2>2. inFlight' \in [Accounts -> Nat]
    BY <1>2 DEF Release, PoolTypeOK
  <2> QED BY <1>2, <2>1, <2>2 DEF Release, PoolTypeOK
<1>3. ASSUME NEW r \in Requests, NEW d \in Durations, Cooldown(r, d)
      PROVE  PoolTypeOK'
  <2>1. now + (IF d <= 0 THEN Minute ELSE d) \in Nat
    BY PoolAssumption DEF PoolAssumption, PoolTypeOK
  <2> QED BY <1>3, <2>1 DEF Cooldown, PoolTypeOK
<1>4. ASSUME NEW a \in Accounts, StampBegins(a) PROVE PoolTypeOK'
  BY <1>4 DEF StampBegins, PoolTypeOK
<1>5. ASSUME NEW a \in Accounts, StampEnds(a) PROVE PoolTypeOK'
  BY <1>5 DEF StampEnds, PoolTypeOK
<1>6. CASE Tick
  BY <1>6 DEF Tick, PoolTypeOK
<1>7. CASE UNCHANGED poolVars
  BY <1>7 DEF poolVars, PoolTypeOK
<1> QED BY <1>1, <1>2, <1>3, <1>4, <1>5, <1>6, <1>7 DEF PoolNext

\* Every state of the pool is well typed: no counter goes below zero and no
\* deadline is set from an invalid duration.
THEOREM TypeCorrect == PoolSpec => []PoolTypeOK
<1>1. PoolInit => PoolTypeOK
  BY PoolAssumption DEF PoolAssumption, PoolInit, PoolTypeOK, NoLease
<1>2. PoolTypeOK /\ [PoolNext]_poolVars => PoolTypeOK'
  BY TypeStep
<1> QED BY <1>1, <1>2, PTL DEF PoolSpec

\* LeaseAccounting is inductive once the types are known: Acquire adds one
\* holder and one to the counter, the once in Release lets a lease take them
\* away only one time.
LEMMA AccountingStep ==
  ASSUME PoolTypeOK, LeaseAccounting, [PoolNext]_poolVars
  PROVE  LeaseAccounting'
<1>1. ASSUME NEW r \in Requests, Acquire(r) PROVE LeaseAccounting'
  <2>1. PICK a \in Selectable :
          /\ inFlight' = [inFlight EXCEPT ![a] = @ + 1]
          /\ lease' = [lease EXCEPT ![r] = [account |-> a, released |-> FALSE]]
    BY <1>1 DEF Acquire
  <2>2. a \in Accounts /\ ~Holds(r)
    BY <1>1, <2>1 DEF Acquire, Selectable, LeastLoaded, Eligible
  <2>3. /\ r \notin Holders(a)
        /\ Holders(a)' = Holders(a) \cup {r}
        /\ \A b \in Accounts \ {a} : Holders(b)' = Holders(b)
    BY <2>1, <2>2, TakenHolders
  <2>4. Cardinality(Holders(a)') = Cardinality(Holders(a)) + 1
    BY <2>3, HoldersFinite, FS_AddElement
  <2>5. inFlight'[a] = inFlight[a] + 1 /\ \A b \in Accounts \ {a} : inFlight'[b] = inFlight[b]
    BY <2>1, <2>2 DEF PoolTypeOK
  <2> QED BY <2>2, <2>3, <2>4, <2>5 DEF LeaseAccounting
<1>2. ASSUME NEW r \in Requests, Release(r) PROVE LeaseAccounting'
  <2>1. PICK a \in Accounts :
          /\ a = lease[r].account
          /\ r \in Holders(a)
          /\ Holders(a)' = Holders(a) \ {r}
          /\ \A b \in Accounts \ {a} : Holders(b)' = Holders(b)
    BY <1>2, GivenHolders DEF Release
  <2>2. /\ Cardinality(Holders(a)') = Cardinality(Holders(a)) - 1
        /\ Cardinality(Holders(a)) \in Nat
        /\ Cardinality(Holders(a)') \in Nat
    BY <2>1, HoldersFinite, FS_RemoveElement, FS_CardinalityType
  <2>3. inFlight[a] = Cardinality(Holders(a)) /\ inFlight[a] > 0
    BY <2>1, <2>2 DEF LeaseAccounting
  <2>4. inFlight'[a] = inFlight[a] - 1 /\ \A b \in Accounts \ {a} : inFlight'[b] = inFlight[b]
    BY <1>2, <2>1, <2>3 DEF Release, PoolTypeOK
  <2>5. inFlight'[a] = Cardinality(Holders(a)')
    BY <2>2, <2>3, <2>4
  <2>6. \A b \in Accounts \ {a} : inFlight'[b] = Cardinality(Holders(b)')
    BY <2>1, <2>4 DEF LeaseAccounting
  <2> QED BY <2>5, <2>6 DEF LeaseAccounting
<1>3. CASE UNCHANGED <<inFlight, lease>>
  BY <1>3, SameHolders DEF LeaseAccounting
<1> QED
  BY <1>1, <1>2, <1>3
  DEF PoolNext, poolVars, Cooldown, StampBegins, StampEnds, Tick

\* A slot of an account is neither lost nor handed back twice.
THEOREM AccountingCorrect == PoolSpec => []LeaseAccounting
<1>1. PoolInit => LeaseAccounting
  <2> SUFFICES ASSUME PoolInit, NEW a \in Accounts
               PROVE  inFlight[a] = Cardinality(Holders(a))
    BY DEF LeaseAccounting
  <2>1. Holders(a) = {}
    BY PoolAssumption DEF PoolAssumption, PoolInit, Holders, NoLease
  <2> QED BY <2>1, FS_EmptySet DEF PoolInit
<1>2. PoolTypeOK /\ LeaseAccounting /\ [PoolNext]_poolVars => LeaseAccounting'
  BY AccountingStep
<1> QED BY <1>1, <1>2, TypeCorrect, PTL DEF PoolSpec
-----------------------------------------------------------------------------
\* The limit holds of the leases outstanding because the counter that Acquire
\* compares with it is exact.
LEMMA CapacityStep ==
  ASSUME PoolTypeOK, LeaseAccounting, CapacityRespected, [PoolNext]_poolVars
  PROVE  CapacityRespected'
<1>1. ASSUME NEW r \in Requests, Acquire(r) PROVE CapacityRespected'
  <2>1. PICK a \in Selectable :
          lease' = [lease EXCEPT ![r] = [account |-> a, released |-> FALSE]]
    BY <1>1 DEF Acquire
  <2>2. a \in Accounts /\ inFlight[a] < MaxConcurrency /\ ~Holds(r)
    BY <1>1, <2>1 DEF Acquire, Selectable, LeastLoaded, Eligible
  <2>3. /\ r \notin Holders(a)
        /\ Holders(a)' = Holders(a) \cup {r}
        /\ \A b \in Accounts \ {a} : Holders(b)' = Holders(b)
    BY <2>1, <2>2, TakenHolders
  <2>4. Cardinality(Holders(a)') = Cardinality(Holders(a)) + 1
    BY <2>3, HoldersFinite, FS_AddElement
  <2>5. Cardinality(Holders(a)) < MaxConcurrency /\ Cardinality(Holders(a)) \in Nat
    BY <2>2, HoldersFinite DEF LeaseAccounting
  <2>6. Cardinality(Holders(a)') <= MaxConcurrency
    BY <2>4, <2>5, PoolAssumption DEF PoolAssumption
  <2>7. \A b \in Accounts \ {a} : Cardinality(Holders(b)') <= MaxConcurrency
    BY <2>3 DEF CapacityRespected
  <2> QED BY <2>6, <2>7 DEF CapacityRespected
<1>2. ASSUME NEW r \in Requests, Release(r) PROVE CapacityRespected'
  <2>1. PICK a \in Accounts :
          /\ r \in Holders(a)
          /\ Holders(a)' = Holders(a) \ {r}
          /\ \A b \in Accounts \ {a} : Holders(b)' = Holders(b)
    BY <1>2, GivenHolders DEF Release
  <2>2. /\ Cardinality(Holders(a)') = Cardinality(Holders(a)) - 1
        /\ Cardinality(Holders(a)) \in Nat
    BY <2>1, HoldersFinite, FS_RemoveElement
  <2>3. Cardinality(Holders(a)') <= MaxConcurrency
    BY <2>1, <2>2, PoolAssumption DEF CapacityRespected, PoolAssumption
  <2>4. \A b \in Accounts \ {a} : Cardinality(Holders(b)') <= MaxConcurrency
    BY <2>1 DEF CapacityRespected
  <2> QED BY <2>3, <2>4 DEF CapacityRespected
<1>3. CASE UNCHANGED lease
  BY <1>3, SameHolders DEF CapacityRespected
<1> QED
  BY <1>1, <1>2, <1>3
  DEF PoolNext, poolVars, Cooldown, StampBegins, StampEnds, Tick

\* No account ever has more leases outstanding than
\* GROK_MAX_CONCURRENCY_PER_ACCOUNT.
THEOREM CapacityCorrect == PoolSpec => []CapacityRespected
<1>1. PoolInit => CapacityRespected
  <2> SUFFICES ASSUME PoolInit, NEW a \in Accounts
               PROVE  Cardinality(Holders(a)) <= MaxConcurrency
    BY DEF CapacityRespected
  <2>1. Holders(a) = {}
    BY PoolAssumption DEF PoolAssumption, PoolInit, Holders, NoLease
  <2> QED BY <2>1, FS_EmptySet, PoolAssumption DEF PoolAssumption
<1>2. PoolTypeOK /\ LeaseAccounting /\ CapacityRespected /\ [PoolNext]_poolVars
        => CapacityRespected'
  BY CapacityStep
<1> QED BY <1>1, <1>2, TypeCorrect, AccountingCorrect, PTL DEF PoolSpec
-----------------------------------------------------------------------------
\* The account Acquire hands out had the fewest leases outstanding of all that
\* had room and were not cooling.
THEOREM LeastLoadedCorrect == PoolSpec => LeastLoadedChosen
<1>1. ASSUME PoolTypeOK, LeaseAccounting, [PoolNext]_poolVars,
             NEW r \in Requests, NEW a \in Accounts, NEW b \in Accounts,
             r \in Holders(a)', r \notin Holders(a),
             Cardinality(Holders(b)) < MaxConcurrency, ~Cooling(b)
      PROVE  Cardinality(Holders(a)) <= Cardinality(Holders(b))
  <2>1. ASSUME NEW q \in Requests, Acquire(q)
        PROVE  inFlight[a] <= inFlight[b]
    <3>1. PICK c \in Selectable :
            lease' = [lease EXCEPT ![q] = [account |-> c, released |-> FALSE]]
      BY <2>1 DEF Acquire
    <3>2. c \in Accounts /\ ~Holds(q)
      BY <2>1, <3>1 DEF Acquire, Selectable, LeastLoaded, Eligible
    <3>3. /\ Holders(c)' = Holders(c) \cup {q}
          /\ \A d \in Accounts \ {c} : Holders(d)' = Holders(d)
      BY <1>1, <3>1, <3>2, TakenHolders
    <3>4. a = c
      BY <1>1, <3>3
    <3>5. b \in Eligible
      BY <1>1 DEF Eligible, LeaseAccounting
    <3> QED BY <3>1, <3>4, <3>5 DEF Selectable, LeastLoaded
  <2>2. ASSUME NEW q \in Requests, Release(q) PROVE FALSE
    <3>1. PICK c \in Accounts :
            /\ Holders(c)' = Holders(c) \ {q}
            /\ \A d \in Accounts \ {c} : Holders(d)' = Holders(d)
      BY <1>1, <2>2, GivenHolders DEF Release
    <3> QED BY <1>1, <3>1
  <2>3. ASSUME UNCHANGED lease PROVE FALSE
    BY <1>1, <2>3, SameHolders
  <2>4. inFlight[a] <= inFlight[b]
    BY <1>1, <2>1, <2>2, <2>3
    DEF PoolNext, poolVars, Cooldown, StampBegins, StampEnds, Tick
  <2> QED BY <1>1, <2>4 DEF LeaseAccounting
<1>2. PoolTypeOK /\ LeaseAccounting /\ [PoolNext]_poolVars =>
        [\A r \in Requests, a, b \in Accounts :
           /\ r \in Holders(a)' /\ r \notin Holders(a)
           /\ Cardinality(Holders(b)) < MaxConcurrency
           /\ ~Cooling(b)
           => Cardinality(Holders(a)) <= Cardinality(Holders(b))]_poolVars
  BY <1>1
<1> QED BY <1>2, TypeCorrect, AccountingCorrect, PTL DEF PoolSpec, LeastLoadedChosen
-----------------------------------------------------------------------------
\* The instance counts holders as this module does.
LEMMA SameCardinality == \A S : Leasing!Cardinality(S) = Cardinality(S)
BY DEF Leasing!Cardinality, Cardinality

\* Every step of the pool is one step of the abstract leasing protocol, or
\* none: acquiring takes, releasing gives, a cooldown cools, and the passing
\* of time thaws.
LEMMA LeasingStep ==
  ASSUME PoolTypeOK, LeaseAccounting, [PoolNext]_poolVars
  PROVE  [Leasing!Next]_(Leasing!vars)
<1> DEFINE H == [a \in Accounts |-> Holders(a)]
           C == {a \in Accounts : Cooling(a)}
<1>1. ASSUME NEW r \in Requests, Acquire(r) PROVE Leasing!Next
  <2>1. PICK a \in Selectable :
          lease' = [lease EXCEPT ![r] = [account |-> a, released |-> FALSE]]
    BY <1>1 DEF Acquire
  <2>2. a \in Eligible /\ ~Holds(r)
    BY <1>1, <2>1 DEF Acquire, Selectable, LeastLoaded
  <2>3. a \in Accounts /\ Cardinality(Holders(a)) < MaxConcurrency /\ a \notin C
    BY <2>2 DEF Eligible, LeaseAccounting
  <2>4. \A b \in Accounts : r \notin Holders(b)
    BY <2>2, PoolAssumption DEF PoolAssumption, Holders, Holds
  <2>5. H' = [H EXCEPT ![a] = @ \cup {r}]
    BY <2>1, <2>2, <2>3, TakenHolders
  <2>6. C' = C
    BY <1>1 DEF Acquire, Cooling
  <2>7. Leasing!Take(r, a)
    BY <2>3, <2>4, <2>5, <2>6, SameCardinality DEF Leasing!Take
  <2> QED BY <2>3, <2>7 DEF Leasing!Next
<1>2. ASSUME NEW r \in Requests, Release(r) PROVE Leasing!Next
  <2>1. PICK a \in Accounts :
          /\ r \in Holders(a)
          /\ Holders(a)' = Holders(a) \ {r}
          /\ \A b \in Accounts \ {a} : Holders(b)' = Holders(b)
    BY <1>2, GivenHolders DEF Release
  <2>2. H' = [H EXCEPT ![a] = @ \ {r}]
    BY <2>1
  <2>3. C' = C
    BY <1>2 DEF Release, Cooling
  <2>4. Leasing!Give(r, a)
    BY <2>1, <2>2, <2>3 DEF Leasing!Give
  <2> QED BY <2>4 DEF Leasing!Next
<1>3. ASSUME NEW r \in Requests, NEW d \in Durations, Cooldown(r, d)
      PROVE  Leasing!Next
  <2>1. PICK a \in Accounts : a = lease[r].account
    BY <1>3 DEF Cooldown, PoolTypeOK
  <2>2. cooldownTill'[a] > now /\ \A b \in Accounts \ {a} : cooldownTill'[b] = cooldownTill[b]
    BY <1>3, <2>1, PoolAssumption DEF Cooldown, PoolTypeOK, PoolAssumption
  <2>3. C' = C \cup {a}
    BY <1>3, <2>2 DEF Cooldown, Cooling
  <2>4. H' = H
    BY <1>3, SameHolders DEF Cooldown
  <2> QED BY <2>3, <2>4 DEF Leasing!Next, Leasing!Cool
<1>4. CASE Tick
  <2>1. C' \subseteq C
    BY <1>4 DEF Tick, Cooling, PoolTypeOK
  <2>2. H' = H
    BY <1>4, SameHolders DEF Tick
  <2> QED BY <2>1, <2>2 DEF Leasing!Next, Leasing!Thaw
<1>5. ASSUME UNCHANGED <<lease, cooldownTill, now>> PROVE UNCHANGED Leasing!vars
  <2>1. H' = H
    BY <1>5, SameHolders
  <2>2. C' = C
    BY <1>5 DEF Cooling
  <2> QED BY <2>1, <2>2 DEF Leasing!vars
<1> QED
  BY <1>1, <1>2, <1>3, <1>4, <1>5 DEF PoolNext, poolVars, StampBegins, StampEnds

\* The pool of store.go implements the abstract leasing protocol.
THEOREM LeasingCorrect == PoolSpec => ImplementsLeasing
<1>1. PoolInit => Leasing!Init
  <2> SUFFICES ASSUME PoolInit PROVE Leasing!Init
    OBVIOUS
  <2>1. \A a \in Accounts : Holders(a) = {}
    BY PoolAssumption DEF PoolAssumption, PoolInit, Holders, NoLease
  <2>2. {a \in Accounts : Cooling(a)} = {}
    BY DEF PoolInit, Cooling
  <2> QED BY <2>1, <2>2 DEF Leasing!Init
<1>2. PoolTypeOK /\ LeaseAccounting /\ [PoolNext]_poolVars
        => [Leasing!Next]_(Leasing!vars)
  BY LeasingStep
<1> QED
  BY <1>1, <1>2, TypeCorrect, AccountingCorrect, PTL
  DEF PoolSpec, ImplementsLeasing, Leasing!Spec
-----------------------------------------------------------------------------
(***************************************************************************)
(* ProxyHandler.                                                           *)
(***************************************************************************)
\* The variables of the handler itself; the pool's types are PoolTypeOK.
OwnTypes ==
  /\ step \in [Requests -> Steps]
  /\ attempt \in [Requests -> 0 .. Cardinality(Accounts)]
  /\ forced \in [Requests -> BOOLEAN]
  /\ status \in [Requests -> Statuses \cup {"none"}]
  /\ open \in [Requests -> BOOLEAN]
  /\ penalty \in [Requests -> Nat]
  /\ reply \in [Requests -> {"none", "local", "unavailable", "result",
                             "refusal", "broken", "empty200"}]
  /\ gone \in [Requests -> BOOLEAN]

\* A request that serves has an attempt left to count.
Bounded == \A r \in Requests : step[r] \in Serving => attempt[r] < Cardinality(Accounts)

Own == OwnTypes /\ Bounded

LEMMA AccountsCounted == Cardinality(Accounts) \in Nat
BY PoolAssumption, FS_CardinalityType DEF PoolAssumption

\* The duration retryAfter returns is positive, whatever the header says.
LEMMA RetryAfterPositive ==
  ASSUME NEW h \in RetryHeaders PROVE RetryAfter(h) \in Nat \ {0}
BY PoolAssumption, HandlerAssumption
DEF PoolAssumption, HandlerAssumption, RetryAfter

\* The actions that leave the pool alone.
Quiet(r) ==
  \/ AnswerLocally(r) \/ Admit(r) \/ Depart(r) \/ Refuse(r)
  \/ GetToken(r) \/ Saved(r)
  \/ ForwardFails(r) \/ \E s \in Statuses : ForwardReturns(r, s)
  \/ Unauthorized(r) \/ RejectedAgain(r) \/ RateLimited(r) \/ ServerError(r)
  \/ StartRelay(r) \/ Relay(r)

LEMMA QuietKeepsPool ==
  ASSUME NEW r \in Requests, Quiet(r) PROVE UNCHANGED poolVars
BY DEF Quiet, AnswerLocally, Admit, Depart, Refuse, GetToken, UseCached, Exchange,
       TokenFails, Saved, ForwardFails, ForwardReturns, Unauthorized,
       RejectedAgain, RateLimited, ServerError, StartRelay, Relay

LEMMA StepCases ==
  ASSUME [HandlerNext]_handlerVars
  PROVE  \/ \E r \in Requests :
              \/ Quiet(r) \/ AcquireLease(r) \/ BeginStamp(r) \/ EndStamp(r)
              \/ Bench(r) \/ GiveBack(r) \/ Finish(r)
         \/ Tick /\ UNCHANGED ownVars
         \/ UNCHANGED handlerVars
BY DEF HandlerNext, Serve, Quiet
-----------------------------------------------------------------------------
\* The types of the handler's own variables, and the loop's bound.
LEMMA OwnStep == ASSUME Own, [HandlerNext]_handlerVars PROVE Own'
<1> USE AccountsCounted DEF Own, OwnTypes, Bounded, Steps, Serving, Goto
<1>1. ASSUME NEW r \in Requests, Quiet(r) PROVE Own'
  <2>1. CASE AnswerLocally(r) \/ Admit(r) \/ Depart(r)
    BY <2>1 DEF AnswerLocally, Admit, Depart
  <2>2. CASE Refuse(r)
    BY <2>2 DEF Refuse
  <2>3. CASE UseCached(r) \/ Exchange(r) \/ Saved(r)
    BY <2>3 DEF UseCached, Exchange, Saved
  <2>4. CASE TokenFails(r)
    BY <2>4, PoolAssumption DEF PoolAssumption, TokenFails, Blame
  <2>5. CASE ForwardFails(r)
    BY <2>5, PoolAssumption, HandlerAssumption
    DEF PoolAssumption, HandlerAssumption, ForwardFails, Blame
  <2>6. ASSUME NEW s \in Statuses, ForwardReturns(r, s) PROVE Own'
    BY <2>6 DEF ForwardReturns
  <2>7. CASE Unauthorized(r)
    BY <2>7 DEF Unauthorized, Drain
  <2>8. CASE RejectedAgain(r)
    BY <2>8, HandlerAssumption DEF HandlerAssumption, RejectedAgain, Blame, Drain
  <2>12. CASE ServerError(r)
    BY <2>12, HandlerAssumption DEF HandlerAssumption, ServerError, Blame, Drain
  <2>9. CASE RateLimited(r)
    BY <2>9, RetryAfterPositive DEF RateLimited, Blame, Drain
  <2>10. CASE StartRelay(r)
    BY <2>10 DEF StartRelay
  <2>11. CASE Relay(r)
    BY <2>11 DEF Relay, Drain, RelayOutcomes
  <2> QED
    BY <1>1, <2>1, <2>2, <2>3, <2>4, <2>5, <2>6, <2>7, <2>8, <2>9, <2>10, <2>11,
       <2>12
    DEF Quiet, GetToken
<1>2. ASSUME NEW r \in Requests, AcquireLease(r) PROVE Own'
  BY <1>2 DEF AcquireLease
<1>3. ASSUME NEW r \in Requests, BeginStamp(r) \/ EndStamp(r) PROVE Own'
  BY <1>3 DEF BeginStamp, EndStamp
<1>4. ASSUME NEW r \in Requests, Bench(r) PROVE Own'
  BY <1>4 DEF Bench
<1>5. ASSUME NEW r \in Requests, GiveBack(r) PROVE Own'
  BY <1>5 DEF GiveBack, EndIteration
<1>6. ASSUME NEW r \in Requests, Finish(r) PROVE Own'
  BY <1>6 DEF Finish, EndIteration
<1>7. CASE UNCHANGED ownVars
  BY <1>7 DEF ownVars
<1> QED
  BY <1>1, <1>2, <1>3, <1>4, <1>5, <1>6, <1>7, StepCases DEF handlerVars

\* Each kind of step takes a lease, gives it back, or leaves the leases and
\* the line between serving and not serving alone.
LEMMA LeasesStep ==
  ASSUME PoolTypeOK, Own, LeasesFollowRequests, [HandlerNext]_handlerVars
  PROVE  LeasesFollowRequests'
<1> USE DEF Own, OwnTypes, Steps, Serving, Goto, Holds
<1>1. ASSUME NEW r \in Requests, Quiet(r) PROVE LeasesFollowRequests'
  <2>1. lease' = lease
    BY <1>1, QuietKeepsPool DEF poolVars
  <2>2. \A q \in Requests : step'[q] \in Serving <=> step[q] \in Serving
    BY <1>1
    DEF Quiet, AnswerLocally, Admit, Depart, Refuse, GetToken, UseCached, Exchange,
        TokenFails, Saved, ForwardFails, ForwardReturns, Unauthorized, RejectedAgain,
        RateLimited, ServerError, StartRelay, Relay, Blame
  <2> QED BY <2>1, <2>2 DEF LeasesFollowRequests
<1>2. ASSUME NEW r \in Requests, AcquireLease(r) PROVE LeasesFollowRequests'
  <2>1. PICK a \in Accounts :
          lease' = [lease EXCEPT ![r] = [account |-> a, released |-> FALSE]]
    BY <1>2 DEF AcquireLease, Acquire, Selectable, LeastLoaded, Eligible
  <2>2. lease'[r] = [account |-> a, released |-> FALSE] /\ a # NoAccount
    BY <2>1, PoolAssumption DEF PoolTypeOK, PoolAssumption
  <2>3. \A q \in Requests \ {r} : lease'[q] = lease[q]
    BY <2>1 DEF PoolTypeOK
  <2>4. step'[r] = "token" /\ \A q \in Requests \ {r} : step'[q] = step[q]
    BY <1>2 DEF AcquireLease
  <2> QED BY <2>2, <2>3, <2>4 DEF LeasesFollowRequests
<1>3. ASSUME NEW r \in Requests, GiveBack(r) \/ Finish(r) PROVE LeasesFollowRequests'
  <2>1. lease' = [lease EXCEPT ![r].released = TRUE]
    BY <1>3 DEF GiveBack, Finish, Release
  <2>2. lease'[r].released /\ \A q \in Requests \ {r} : lease'[q] = lease[q]
    BY <2>1 DEF PoolTypeOK
  <2>3. step'[r] \notin Serving /\ \A q \in Requests \ {r} : step'[q] = step[q]
    BY <1>3 DEF GiveBack, Finish
  <2> QED BY <2>2, <2>3 DEF LeasesFollowRequests
<1>4. ASSUME NEW r \in Requests, BeginStamp(r) \/ EndStamp(r) \/ Bench(r)
      PROVE  LeasesFollowRequests'
  <2>1. lease' = lease
    BY <1>4 DEF BeginStamp, EndStamp, Bench, StampBegins, StampEnds, Cooldown
  <2>2. \A q \in Requests : step'[q] \in Serving <=> step[q] \in Serving
    BY <1>4 DEF BeginStamp, EndStamp, Bench
  <2> QED BY <2>1, <2>2 DEF LeasesFollowRequests
<1>5. CASE UNCHANGED <<lease, step>>
  BY <1>5 DEF LeasesFollowRequests
<1> QED
  BY <1>1, <1>2, <1>3, <1>4, <1>5, StepCases
  DEF handlerVars, ownVars, poolVars, Tick

\* A body is opened by the answer that is judged next, and closed by every step
\* that leaves the judgement or the relay.
LEMMA BodiesStep ==
  ASSUME Own, BodiesClosed, [HandlerNext]_handlerVars PROVE BodiesClosed'
<1> USE DEF Own, OwnTypes, Steps, Goto, BodiesClosed
<1>1. ASSUME NEW r \in Requests, Quiet(r) PROVE BodiesClosed'
  <2>1. CASE AnswerLocally(r) \/ Admit(r) \/ Depart(r) \/ Refuse(r)
    BY <2>1 DEF AnswerLocally, Admit, Depart, Refuse
  <2>2. CASE GetToken(r) \/ Saved(r) \/ ForwardFails(r)
    BY <2>2 DEF GetToken, UseCached, Exchange, TokenFails, Saved, ForwardFails, Blame
  <2>3. ASSUME NEW s \in Statuses, ForwardReturns(r, s) PROVE BodiesClosed'
    BY <2>3 DEF ForwardReturns
  <2>4. CASE Unauthorized(r) \/ RejectedAgain(r) \/ RateLimited(r) \/ ServerError(r)
    BY <2>4 DEF Unauthorized, RejectedAgain, RateLimited, ServerError, Blame, Drain
  <2>5. CASE StartRelay(r) \/ Relay(r)
    BY <2>5 DEF StartRelay, Relay, Drain
  <2> QED BY <1>1, <2>1, <2>2, <2>3, <2>4, <2>5 DEF Quiet
<1>2. ASSUME NEW r \in Requests,
             \/ AcquireLease(r) \/ BeginStamp(r) \/ EndStamp(r)
             \/ Bench(r) \/ GiveBack(r) \/ Finish(r)
      PROVE  BodiesClosed'
  BY <1>2 DEF AcquireLease, BeginStamp, EndStamp, Bench, GiveBack, Finish
<1>3. CASE UNCHANGED ownVars
  BY <1>3 DEF ownVars
<1> QED BY <1>1, <1>2, <1>3, StepCases DEF handlerVars
-----------------------------------------------------------------------------
\* A request that serves has an account.
LEMMA ServesAccount ==
  ASSUME PoolTypeOK, LeasesFollowRequests, NEW r \in Requests, step[r] \in Serving
  PROVE  lease[r].account \in Accounts /\ r \in Holders(lease[r].account)
BY DEF PoolTypeOK, LeasesFollowRequests, Holds, Holders

\* Every step of the handler is a step of the pool, or leaves it alone, or
\* benches an account for a duration of the handler's own choice.
LEMMA PoolEffect ==
  ASSUME PoolTypeOK, LeasesFollowRequests, [HandlerNext]_handlerVars
  PROVE  [PoolNext]_poolVars \/ \E r \in Requests : Bench(r)
<1>1. ASSUME NEW r \in Requests, AcquireLease(r) \/ GiveBack(r) \/ Finish(r)
      PROVE  PoolNext
  BY <1>1 DEF AcquireLease, GiveBack, Finish, PoolNext
<1>2. ASSUME NEW r \in Requests, BeginStamp(r) \/ EndStamp(r)
      PROVE  PoolNext
  <2>1. lease[r].account \in Accounts
    BY <1>2, ServesAccount DEF BeginStamp, EndStamp, Goto, Serving, Steps
  <2> QED BY <1>2, <2>1 DEF BeginStamp, EndStamp, PoolNext
<1>3. CASE Tick
  BY <1>3 DEF PoolNext
<1>4. ASSUME NEW r \in Requests, Quiet(r) PROVE UNCHANGED poolVars
  BY <1>4, QuietKeepsPool
<1>5. CASE UNCHANGED handlerVars
  BY <1>5 DEF handlerVars
<1> QED
  BY <1>1, <1>2, <1>3, <1>4, <1>5, StepCases

\* A deadline of the handler's is as good as one of the pool's.
LEMMA PoolTypesStep ==
  ASSUME PoolTypeOK, Own, LeasesFollowRequests, [HandlerNext]_handlerVars
  PROVE  PoolTypeOK'
<1>1. ASSUME NEW r \in Requests, Bench(r) PROVE PoolTypeOK'
  <2>1. penalty[r] \in Nat
    BY DEF Own, OwnTypes
  <2>2. now + (IF penalty[r] <= 0 THEN Minute ELSE penalty[r]) \in Nat
    BY <2>1, PoolAssumption DEF PoolAssumption, PoolTypeOK
  <2> QED BY <1>1, <2>2 DEF Bench, Cooldown, PoolTypeOK
<1> QED BY <1>1, PoolEffect, TypeStep

LEMMA CountersStep ==
  ASSUME PoolTypeOK, LeasesFollowRequests, LeaseAccounting, CapacityRespected,
         [HandlerNext]_handlerVars
  PROVE  LeaseAccounting' /\ CapacityRespected'
<1>1. ASSUME NEW r \in Requests, Bench(r)
      PROVE  LeaseAccounting' /\ CapacityRespected'
  BY <1>1, SameHolders DEF Bench, Cooldown, LeaseAccounting, CapacityRespected
<1> QED BY <1>1, PoolEffect, AccountingStep, CapacityStep

\* With a limit of one, two requests that serve have different accounts.
LEMMA Exclusive ==
  ASSUME MaxConcurrency = 1, PoolTypeOK, LeasesFollowRequests, CapacityRespected,
         NEW q \in Requests, NEW r \in Requests, q # r,
         step[q] \in Serving, step[r] \in Serving
  PROVE  lease[q].account # lease[r].account
<1> SUFFICES ASSUME lease[q].account = lease[r].account PROVE FALSE
  OBVIOUS
<1>1. PICK a \in Accounts : a = lease[r].account
  BY ServesAccount
<1>2. {q, r} \subseteq Holders(a)
  BY <1>1, ServesAccount
<1>3. Cardinality({q, r}) = 2
  <2>1. IsFiniteSet({q}) /\ Cardinality({q}) = 1
    BY FS_Singleton
  <2>2. {q, r} = {q} \cup {r} /\ r \notin {q}
    OBVIOUS
  <2>3. Cardinality({q} \cup {r}) = Cardinality({q}) + 1
    BY <2>1, <2>2, FS_AddElement
  <2> QED BY <2>1, <2>2, <2>3
<1>4. Cardinality({q, r}) <= Cardinality(Holders(a))
  BY <1>2, HoldersFinite, FS_Subset
<1>5. Cardinality(Holders(a)) <= 1 /\ Cardinality(Holders(a)) \in Nat
  BY HoldersFinite DEF CapacityRespected
<1> QED BY <1>3, <1>4, <1>5

\* Only the one request on an account benches it, and from then on it is no
\* longer using it; Acquire passes over what is cooling.
LEMMA CoolingStep ==
  ASSUME PoolTypeOK, Own, LeasesFollowRequests, CapacityRespected,
         NoCallWhileCooling, [HandlerNext]_handlerVars
  PROVE  NoCallWhileCooling'
<1> DEFINE Using == Serving \ {"release"}
<1> USE DEF Own, OwnTypes, Steps, Serving, Goto
<1>1. ASSUME UNCHANGED <<now, cooldownTill, lease>>,
             \A q \in Requests : step'[q] \in Using => step[q] \in Using
      PROVE  NoCallWhileCooling'
  BY <1>1 DEF NoCallWhileCooling, Cooling
<1>2. ASSUME NEW r \in Requests, Quiet(r) PROVE NoCallWhileCooling'
  <2>1. UNCHANGED <<now, cooldownTill, lease>>
    BY <1>2, QuietKeepsPool DEF poolVars
  <2>2. \A q \in Requests : step'[q] \in Using => step[q] \in Using
    BY <1>2
    DEF Quiet, AnswerLocally, Admit, Depart, Refuse, GetToken, UseCached, Exchange,
        TokenFails, Saved, ForwardFails, ForwardReturns, Unauthorized, RejectedAgain,
        RateLimited, ServerError, StartRelay, Relay, Blame
  <2> QED BY <1>1, <2>1, <2>2
<1>3. ASSUME NEW r \in Requests, AcquireLease(r) PROVE NoCallWhileCooling'
  <2>1. PICK a \in Eligible :
          lease' = [lease EXCEPT ![r] = [account |-> a, released |-> FALSE]]
    BY <1>3 DEF AcquireLease, Acquire, Selectable, LeastLoaded
  <2>2. /\ lease'[r].account = a /\ ~Cooling(a)
        /\ \A q \in Requests \ {r} : lease'[q] = lease[q] /\ step'[q] = step[q]
    BY <1>3, <2>1 DEF PoolTypeOK, Eligible, AcquireLease
  <2>3. UNCHANGED <<now, cooldownTill>>
    BY <1>3 DEF AcquireLease, Acquire
  <2> QED BY <2>2, <2>3 DEF NoCallWhileCooling, Cooling
<1>4. ASSUME NEW r \in Requests, GiveBack(r) \/ Finish(r) PROVE NoCallWhileCooling'
  <2>1. /\ step'[r] \notin Serving
        /\ \A q \in Requests \ {r} : lease'[q] = lease[q] /\ step'[q] = step[q]
    BY <1>4 DEF GiveBack, Finish, Release, PoolTypeOK
  <2>2. UNCHANGED <<now, cooldownTill>>
    BY <1>4 DEF GiveBack, Finish, Release
  <2> QED BY <2>1, <2>2 DEF NoCallWhileCooling, Cooling
<1>5. ASSUME NEW r \in Requests, BeginStamp(r) \/ EndStamp(r)
      PROVE  NoCallWhileCooling'
  <2>1. UNCHANGED <<now, cooldownTill, lease>>
    BY <1>5 DEF BeginStamp, EndStamp, StampBegins, StampEnds
  <2>2. \A q \in Requests : step'[q] \in Using => step[q] \in Using
    BY <1>5 DEF BeginStamp, EndStamp
  <2> QED BY <1>1, <2>1, <2>2
<1>6. ASSUME MaxConcurrency = 1, NEW r \in Requests, Bench(r)
      PROVE  NoCallWhileCooling'
  <2>1. step[r] \in Serving /\ step'[r] = "release"
    BY <1>6 DEF Bench
  <2>2. \A q \in Requests \ {r} : step'[q] = step[q]
    BY <1>6 DEF Bench
  <2>3. UNCHANGED <<now, lease>>
    BY <1>6 DEF Bench, Cooldown
  <2>4. \A a \in Accounts : a # lease[r].account => cooldownTill'[a] = cooldownTill[a]
    BY <1>6 DEF Bench, Cooldown, PoolTypeOK
  <2>5. ASSUME NEW q \in Requests \ {r}, step[q] \in Serving
        PROVE  lease[q].account \in Accounts /\ lease[q].account # lease[r].account
    BY <1>6, <2>1, <2>5, Exclusive, ServesAccount
  <2> QED BY <2>1, <2>2, <2>3, <2>4, <2>5 DEF NoCallWhileCooling, Cooling
<1>7. CASE Tick /\ UNCHANGED ownVars
  <2>1. /\ now' = now + 1 /\ now \in Nat /\ UNCHANGED <<cooldownTill, lease, step>>
        /\ cooldownTill \in [Accounts -> Nat]
    BY <1>7 DEF Tick, ownVars, PoolTypeOK
  <2>2. \A a \in Accounts : Cooling(a)' => Cooling(a)
    BY <2>1 DEF Cooling
  <2>3. \A r \in Requests : step[r] \in Serving => lease[r].account \in Accounts
    BY ServesAccount
  <2> QED BY <2>1, <2>2, <2>3 DEF NoCallWhileCooling
<1>8. CASE UNCHANGED handlerVars
  BY <1>1, <1>8 DEF handlerVars, ownVars, poolVars
<1> QED
  BY <1>2, <1>3, <1>4, <1>5, <1>6, <1>7, <1>8, StepCases DEF NoCallWhileCooling
-----------------------------------------------------------------------------
HandlerInv ==
  /\ PoolTypeOK /\ Own
  /\ LeaseAccounting /\ CapacityRespected
  /\ LeasesFollowRequests
  /\ BodiesClosed
  /\ NoCallWhileCooling

LEMMA HandlerInvariant == HandlerSpec => []HandlerInv
<1>1. HandlerInit => HandlerInv
  <2> SUFFICES ASSUME HandlerInit PROVE HandlerInv
    OBVIOUS
  <2>1. PoolTypeOK
    BY PoolAssumption
    DEF PoolAssumption, HandlerInit, PoolInit, PoolTypeOK, NoLease
  <2>2. Own
    BY AccountsCounted DEF HandlerInit, Own, OwnTypes, Bounded, Steps, Serving, Statuses
  <2>3. \A a \in Accounts : Holders(a) = {}
    BY PoolAssumption
    DEF PoolAssumption, HandlerInit, PoolInit, Holders, NoLease
  <2>4. LeaseAccounting /\ CapacityRespected
    BY <2>3, FS_EmptySet, PoolAssumption
    DEF PoolAssumption, HandlerInit, PoolInit, LeaseAccounting, CapacityRespected
  <2>5. LeasesFollowRequests /\ BodiesClosed /\ NoCallWhileCooling
    BY DEF HandlerInit, PoolInit, LeasesFollowRequests, BodiesClosed,
           NoCallWhileCooling, Holds, NoLease, Serving, Steps
  <2> QED BY <2>1, <2>2, <2>4, <2>5 DEF HandlerInv
<1>2. HandlerInv /\ [HandlerNext]_handlerVars => HandlerInv'
  BY PoolTypesStep, OwnStep, CountersStep, LeasesStep, BodiesStep, CoolingStep
  DEF HandlerInv
<1> QED BY <1>1, <1>2, PTL DEF HandlerSpec

\* Types of the handler's and the pool's state; the loop makes at most one
\* attempt per account.
THEOREM HandlerTypesCorrect == HandlerSpec => []HandlerTypeOK
<1>1. HandlerInv => HandlerTypeOK
  BY DEF HandlerInv, HandlerTypeOK, Own, OwnTypes
<1> QED BY <1>1, HandlerInvariant, PTL

\* No path through the retry loop of handler.go loses a lease or uses an
\* account without one.
THEOREM LeasesCorrect == HandlerSpec => []LeasesFollowRequests
<1>1. HandlerInv => LeasesFollowRequests
  BY DEF HandlerInv
<1> QED BY <1>1, HandlerInvariant, PTL

\* No path through the retry loop leaves the body of a response open.
THEOREM BodiesCorrect == HandlerSpec => []BodiesClosed
<1>1. HandlerInv => BodiesClosed
  BY DEF HandlerInv
<1> QED BY <1>1, HandlerInvariant, PTL

\* The counters of the pool stay exact, and its limit holds, as the handler
\* uses them: with no bound on the durations it passes to Cooldown.
THEOREM PoolCorrect == HandlerSpec => [](LeaseAccounting /\ CapacityRespected)
<1>1. HandlerInv => LeaseAccounting /\ CapacityRespected
  BY DEF HandlerInv
<1> QED BY <1>1, HandlerInvariant, PTL

\* With one request per account no penalty lands on a call that is under way.
THEOREM CoolingCorrect == HandlerSpec => []NoCallWhileCooling
<1>1. HandlerInv => NoCallWhileCooling
  BY DEF HandlerInv
<1> QED BY <1>1, HandlerInvariant, PTL

\* With one request per account no cooldown is cut short: only Cooldown sets a
\* deadline, and the account it sets it for is not cooling.
THEOREM CooldownCorrect == HandlerSpec => CooldownNeverShortened
<1>1. HandlerInv /\ [HandlerNext]_handlerVars =>
        [MaxConcurrency = 1 =>
           \A a \in Accounts :
             Cooling(a) => cooldownTill'[a] >= cooldownTill[a]]_handlerVars
  <2> SUFFICES ASSUME HandlerInv, [HandlerNext]_handlerVars, MaxConcurrency = 1,
                      NEW a \in Accounts, Cooling(a)
               PROVE  cooldownTill'[a] >= cooldownTill[a]
    OBVIOUS
  <2>1. cooldownTill[a] \in Nat
    BY DEF HandlerInv, PoolTypeOK
  <2>2. ASSUME NEW r \in Requests, Bench(r) PROVE cooldownTill'[a] = cooldownTill[a]
    <3>1. step[r] \in Serving \ {"release"}
      BY <2>2 DEF Bench, Goto, Serving, Steps
    <3>2. lease[r].account # a
      BY <3>1 DEF HandlerInv, NoCallWhileCooling
    <3> QED BY <2>2, <3>2 DEF Bench, Cooldown, HandlerInv, PoolTypeOK
  <2>3. CASE UNCHANGED cooldownTill
    BY <2>1, <2>3
  <2> QED
    BY <2>1, <2>2, <2>3, StepCases, QuietKeepsPool
    DEF AcquireLease, Acquire, BeginStamp, EndStamp, StampBegins, StampEnds,
        GiveBack, Finish, Release, Tick, handlerVars, poolVars
<1> QED BY <1>1, HandlerInvariant, PTL DEF HandlerSpec, CooldownNeverShortened

\* The handler uses the pool as the pool's own specification allows, if that
\* lets every duration be passed to Cooldown: what is proved of the pool, its
\* implementation of AccountLeasing included, holds of the whole.
THEOREM HandlerUsesPool ==
  ASSUME Nat \subseteq Durations
  PROVE  HandlerSpec => PoolSpec
<1>1. HandlerInit => PoolInit
  BY DEF HandlerInit
<1>2. HandlerInv /\ [HandlerNext]_handlerVars => [PoolNext]_poolVars
  <2> SUFFICES ASSUME HandlerInv, [HandlerNext]_handlerVars PROVE [PoolNext]_poolVars
    OBVIOUS
  <2>1. ASSUME NEW r \in Requests, Bench(r) PROVE PoolNext
    BY <2>1 DEF Bench, PoolNext, HandlerInv, Own, OwnTypes
  <2> QED BY <2>1, PoolEffect DEF HandlerInv
<1> QED BY <1>1, <1>2, HandlerInvariant, PTL DEF HandlerSpec, PoolSpec
-----------------------------------------------------------------------------
(* The tokens.                                                             *)

LEMMA GrokStepHandles ==
  ASSUME [GrokNext]_grokVars PROVE [HandlerNext]_handlerVars
BY DEF GrokNext, ServeWithToken, GetCurrent, TakeCached, Granted, Renew, RefuseToken,
       EndAttempt, HandlerNext, Serve, GetToken, grokVars, tokenVars

\* With its tokens the handler is still a handler: what is proved of
\* HandlerSpec holds of the whole.
THEOREM GrokUsesHandler == GrokSpec => HandlerSpec
<1>1. GrokInit => HandlerInit
  BY DEF GrokInit
<1>2. [GrokNext]_grokVars => [HandlerNext]_handlerVars
  BY GrokStepHandles
<1> QED BY <1>1, <1>2, PTL DEF GrokSpec, HandlerSpec
-----------------------------------------------------------------------------
(* What a step does to the requests, their leases and tokens.              *)

Others(r) ==
  \A q \in Requests \ {r} :
    /\ step'[q] = step[q] /\ forced'[q] = forced[q]
    /\ lease'[q] = lease[q]
    /\ token'[q] = token[q] /\ refused'[q] = refused[q]

\* A request goes on with the lease it has.
GoesOn(r) ==
  /\ Others(r)
  /\ lease'[r] = lease[r]
  /\ lease[r].account \in Accounts

Passes(r) ==
  /\ Others(r) /\ lease'[r] = lease[r] /\ forced'[r] = forced[r]
  /\ UNCHANGED tokenVars
  /\ \/ {step[r], step'[r]} \subseteq Steps \ Serving
     \/ step[r] \in Serving /\ step'[r] \in {"cool", "release", "finish"}
     \/ step[r] = "save" /\ step'[r] = "forward"
     \/ step[r] = "forward" /\ step'[r] = "judge"
     \/ step[r] = "judge" /\ step'[r] = "relay"

Takes(r) ==
  /\ Others(r) /\ forced'[r] = forced[r] /\ UNCHANGED tokenVars
  /\ step[r] = "acquire" /\ step'[r] = "token"
  /\ lease'[r].account \in Accounts

Reuses(r) ==
  /\ GoesOn(r) /\ ~forced[r] /\ ~forced'[r] /\ UNCHANGED <<current, refused>>
  /\ step[r] = "token" /\ step'[r] = "forward"
  /\ token' = [token EXCEPT ![r] = current[lease[r].account]]

Begins(r) ==
  /\ GoesOn(r) /\ forced'[r] = forced[r] /\ UNCHANGED tokenVars
  /\ step[r] = "token" /\ step'[r] = "exchange"
  /\ ~Refreshing(lease[r].account)

Grants(r) ==
  /\ GoesOn(r) /\ forced'[r] = forced[r] /\ UNCHANGED tokenVars
  /\ step[r] = "exchange" /\ step'[r] = "stamp"
  /\ current[lease[r].account] < MaxGrants

Renews(r) ==
  /\ GoesOn(r) /\ forced'[r] = forced[r] /\ UNCHANGED refused
  /\ step[r] = "stamp" /\ step'[r] = "save"
  /\ current' = [current EXCEPT ![lease[r].account] = @ + 1]
  /\ token' = [token EXCEPT ![r] = current[lease[r].account] + 1]

Refuses(r) ==
  /\ GoesOn(r) /\ ~forced[r] /\ forced'[r] /\ UNCHANGED <<current, token>>
  /\ step[r] = "judge" /\ step'[r] = "token"
  /\ refused' = [refused EXCEPT ![r] = token[r]]

Ends(r) ==
  /\ Others(r) /\ ~forced'[r] /\ UNCHANGED current
  /\ step[r] \in {"release", "finish"} /\ step'[r] \in {"acquire", "idle"}
  /\ token' = [token EXCEPT ![r] = 0]
  /\ refused' = [refused EXCEPT ![r] = -1]

Aside == UNCHANGED <<step, forced, lease, tokenVars>>

TokenTypes ==
  /\ current \in [Accounts -> 0 .. MaxGrants]
  /\ token \in [Requests -> 0 .. MaxGrants]
  /\ refused \in [Requests -> -1 .. MaxGrants]

LEMMA Effects ==
  ASSUME HandlerInv, TokenTypes, [GrokNext]_grokVars
  PROVE  \/ Aside
         \/ \E r \in Requests :
              \/ Passes(r) \/ Takes(r) \/ Reuses(r) \/ Begins(r) \/ Grants(r)
              \/ Renews(r) \/ Refuses(r) \/ Ends(r)
<1> DEFINE Goal == \/ Aside
                   \/ \E r \in Requests :
                        \/ Passes(r) \/ Takes(r) \/ Reuses(r) \/ Begins(r)
                        \/ Grants(r) \/ Renews(r) \/ Refuses(r) \/ Ends(r)
<1> USE DEF HandlerInv, Own, OwnTypes, TokenTypes, Others, GoesOn, Goto, Steps, Serving
<1>1. ASSUME NEW r \in Requests, UNCHANGED tokenVars,
             AnswerLocally(r) \/ Admit(r) \/ Refuse(r)
      PROVE  Passes(r)
  BY <1>1 DEF AnswerLocally, Admit, Refuse, Passes, poolVars, tokenVars
<1>2. ASSUME NEW r \in Requests, UNCHANGED tokenVars,
             TokenFails(r) \/ ForwardFails(r) \/ RejectedAgain(r) \/ RateLimited(r)
               \/ ServerError(r) \/ Relay(r) \/ Bench(r)
      PROVE  Passes(r)
  BY <1>2
  DEF TokenFails, ForwardFails, RejectedAgain, RateLimited, ServerError, Relay, Bench,
      Cooldown, Blame, Passes, poolVars, tokenVars
<1>3. ASSUME NEW r \in Requests, UNCHANGED tokenVars,
             Saved(r) \/ StartRelay(r) \/ \E s \in Statuses : ForwardReturns(r, s)
      PROVE  Passes(r)
  BY <1>3 DEF Saved, StartRelay, ForwardReturns, Passes, poolVars, tokenVars
<1>4. ASSUME NEW r \in Requests, UNCHANGED tokenVars, AcquireLease(r) PROVE Takes(r)
  <2>1. PICK a \in Accounts :
          lease' = [lease EXCEPT ![r] = [account |-> a, released |-> FALSE]]
    BY <1>4 DEF AcquireLease, Acquire, Selectable, LeastLoaded, Eligible
  <2> QED BY <1>4, <2>1 DEF AcquireLease, Takes, PoolTypeOK, tokenVars
<1>5. ASSUME NEW r \in Requests, TakeCached(r) PROVE Reuses(r)
  <2>1. lease[r].account \in Accounts
    BY <1>5, ServesAccount DEF TakeCached, UseCached
  <2> QED BY <1>5, <2>1 DEF TakeCached, UseCached, Reuses, poolVars
<1>6. ASSUME NEW r \in Requests, UNCHANGED tokenVars, Exchange(r) PROVE Begins(r)
  <2>1. lease[r].account \in Accounts
    BY <1>6, ServesAccount DEF Exchange
  <2> QED BY <1>6, <2>1 DEF Exchange, Begins, poolVars, tokenVars
<1>7. ASSUME NEW r \in Requests, Granted(r) PROVE Grants(r)
  <2>1. lease[r].account \in Accounts
    BY <1>7, ServesAccount DEF Granted, BeginStamp
  <2> QED BY <1>7, <2>1 DEF Granted, BeginStamp, StampBegins, Grants, tokenVars
<1>8. ASSUME NEW r \in Requests, Renew(r) PROVE Renews(r)
  <2>1. lease[r].account \in Accounts
    BY <1>8, ServesAccount DEF Renew, EndStamp
  <2> QED BY <1>8, <2>1 DEF Renew, EndStamp, StampEnds, Renews
<1>9. ASSUME NEW r \in Requests, RefuseToken(r) PROVE Refuses(r)
  <2>1. lease[r].account \in Accounts
    BY <1>9, ServesAccount DEF RefuseToken, Unauthorized
  <2> QED BY <1>9, <2>1 DEF RefuseToken, Unauthorized, Refuses, poolVars
<1>10. ASSUME NEW r \in Requests, EndAttempt(r) PROVE Ends(r)
  BY <1>10 DEF EndAttempt, GiveBack, Finish, Release, EndIteration, Ends, PoolTypeOK
<1>11. ASSUME NEW r \in Requests, UNCHANGED tokenVars, Depart(r) PROVE Aside
  BY <1>11 DEF Depart, Aside, poolVars
<1>12. CASE Tick /\ UNCHANGED <<ownVars, tokenVars>>
  BY <1>12 DEF Tick, Aside, ownVars
<1>13. CASE UNCHANGED grokVars
  BY <1>13 DEF grokVars, handlerVars, poolVars, ownVars, Aside
<1> QED
  BY <1>1, <1>2, <1>3, <1>4, <1>5, <1>6, <1>7, <1>8, <1>9, <1>10, <1>11, <1>12, <1>13
  DEF GrokNext, ServeWithToken, GetCurrent
-----------------------------------------------------------------------------
(* The invariant of the tokens.  An account's token only grows; what a      *)
(* request holds or was refused is not younger than it.                     *)

Renewing == {"exchange", "stamp"}

\* The account's mutex.
OneRenews ==
  \A q, r \in Requests :
    step[q] \in Renewing /\ step[r] \in Renewing /\ lease[q].account = lease[r].account
      => q = r

Room == \A r \in Requests : step[r] = "stamp" => current[lease[r].account] < MaxGrants

ForcedServes == \A r \in Requests : forced[r] => step[r] \in Serving

NotNewer ==
  \A r \in Requests :
    /\ step[r] \in {"save", "forward", "judge"} => token[r] <= current[lease[r].account]
    /\ forced[r] /\ step[r] \in {"token", "exchange", "stamp"} =>
         refused[r] <= current[lease[r].account]

TokenInv ==
  /\ HandlerInv /\ TokenTypes
  /\ OneRenews /\ Room /\ ForcedServes
  /\ NotNewer /\ RetryUsesNewerToken
  /\ TokensFollowLeases

LEMMA TokensInit == GrokInit => TokenTypes /\ OneRenews /\ Room /\ ForcedServes
                                /\ NotNewer /\ RetryUsesNewerToken /\ TokensFollowLeases
BY GrantAssumption
DEF GrantAssumption, GrokInit, HandlerInit, TokenTypes, OneRenews, Renewing, Room,
    ForcedServes, NotNewer, RetryUsesNewerToken, TokensFollowLeases

LEMMA RenewalStep ==
  ASSUME TokenInv, [GrokNext]_grokVars PROVE OneRenews' /\ Room' /\ TokenTypes'
<1> USE DEF TokenInv, TokenTypes, OneRenews, Room, Renewing, Others, GoesOn, tokenVars,
            Serving, Steps
<1>1. CASE Aside
  BY <1>1 DEF Aside
<1>2. ASSUME NEW r \in Requests, Passes(r) \/ Takes(r)
      PROVE  OneRenews' /\ Room' /\ TokenTypes'
  BY <1>2 DEF Passes, Takes
<1>3. ASSUME NEW r \in Requests, Reuses(r) \/ Refuses(r) \/ Ends(r)
      PROVE  OneRenews' /\ Room'
  BY <1>3 DEF Reuses, Refuses, Ends
<1>4. ASSUME NEW r \in Requests, Reuses(r) \/ Refuses(r) \/ Ends(r)
      PROVE  TokenTypes'
  BY <1>4, GrantAssumption DEF GrantAssumption, Reuses, Refuses, Ends
<1>5. ASSUME NEW r \in Requests, Begins(r) PROVE OneRenews' /\ Room' /\ TokenTypes'
  BY <1>5 DEF Begins, Refreshing
<1>6. ASSUME NEW r \in Requests, Grants(r) PROVE OneRenews' /\ Room' /\ TokenTypes'
  BY <1>6 DEF Grants
<1>7. ASSUME NEW r \in Requests, Renews(r) PROVE OneRenews' /\ Room' /\ TokenTypes'
  <2>1. OneRenews'
    BY <1>7 DEF Renews
  <2>2. current[lease[r].account] + 1 \in 0 .. MaxGrants
    BY <1>7, GrantAssumption DEF GrantAssumption, Renews
  <2>3. TokenTypes'
    BY <1>7, <2>2 DEF Renews
  <2>4. \A q \in Requests \ {r} : step[q] = "stamp" => lease[q].account # lease[r].account
    BY <1>7 DEF Renews
  <2>5. \A a \in Accounts : a # lease[r].account => current'[a] = current[a]
    BY <1>7 DEF Renews
  <2>6. \A q \in Requests : step[q] = "stamp" => lease[q].account \in Accounts
    BY ServesAccount DEF HandlerInv
  <2>7. Room'
    BY <1>7, <2>4, <2>5, <2>6 DEF Renews
  <2> QED BY <2>1, <2>3, <2>7
<1> QED BY <1>1, <1>2, <1>3, <1>4, <1>5, <1>6, <1>7, Effects

\* An account's token is no older afterwards, for the account of a request that
\* goes on, and replaced by its successor at most.
LEMMA CurrentGrows ==
  ASSUME TokenInv, NEW r \in Requests, Renews(r), NEW q \in Requests,
         step[q] \in Serving
  PROVE  /\ current'[lease[q].account] >= current[lease[q].account]
         /\ lease[q].account = lease[r].account =>
              current'[lease[q].account] = current[lease[q].account] + 1
         /\ lease[q].account # lease[r].account =>
              current'[lease[q].account] = current[lease[q].account]
<1>1. lease[q].account \in Accounts
  BY ServesAccount DEF TokenInv, HandlerInv
<1>2. current[lease[q].account] \in Nat
  BY <1>1, GrantAssumption DEF GrantAssumption, TokenInv, TokenTypes
<1> QED BY <1>1, <1>2 DEF Renews, TokenInv, TokenTypes

LEMMA RetryStep ==
  ASSUME TokenInv, [GrokNext]_grokVars
  PROVE  ForcedServes' /\ NotNewer' /\ RetryUsesNewerToken'
<1> DEFINE Goal == ForcedServes' /\ NotNewer' /\ RetryUsesNewerToken'
<1> USE DEF TokenInv, ForcedServes, NotNewer, RetryUsesNewerToken, Others, GoesOn,
            tokenVars, Serving, Steps
<1>0. /\ \A a \in Accounts : current[a] \in Nat
      /\ \A q \in Requests : token[q] \in Nat /\ refused[q] \in Int
  BY GrantAssumption DEF GrantAssumption, TokenTypes
<1>1. CASE Aside
  BY <1>1 DEF Aside
<1>2. ASSUME NEW r \in Requests, Passes(r) PROVE Goal
  BY <1>2 DEF Passes
<1>3. ASSUME NEW r \in Requests, Takes(r) PROVE Goal
  BY <1>3 DEF Takes
<1>4. ASSUME NEW r \in Requests, Reuses(r) PROVE Goal
  BY <1>0, <1>4 DEF Reuses, TokenTypes
<1>5. ASSUME NEW r \in Requests, Begins(r) \/ Grants(r) PROVE Goal
  BY <1>5 DEF Begins, Grants
<1>6. ASSUME NEW r \in Requests, Renews(r) PROVE Goal
  <2>1. /\ step[r] = "stamp" /\ step'[r] = "save"
        /\ token'[r] = current[lease[r].account] + 1
        /\ current'[lease[r].account] = current[lease[r].account] + 1
        /\ current[lease[r].account] \in Nat
        /\ forced'[r] = forced[r] /\ refused' = refused /\ lease'[r] = lease[r]
    BY <1>0, <1>6 DEF Renews, TokenTypes
  <2>2. \A q \in Requests \ {r} :
          step[q] \in Serving => /\ current'[lease[q].account] >= current[lease[q].account]
                                 /\ current[lease[q].account] \in Nat
                                 /\ current'[lease[q].account] \in Nat
    <3> SUFFICES ASSUME NEW q \in Requests \ {r}, step[q] \in Serving
                 PROVE  /\ current'[lease[q].account] >= current[lease[q].account]
                        /\ current[lease[q].account] \in Nat
                        /\ current'[lease[q].account] \in Nat
      OBVIOUS
    <3>1. lease[q].account \in Accounts
      BY ServesAccount DEF HandlerInv
    <3> QED BY <1>0, <1>6, <3>1, CurrentGrows
  <2>3. Others(r)
    BY <1>6 DEF Renews
  <2>4. ForcedServes' /\ RetryUsesNewerToken'
    BY <1>0, <2>1, <2>3
  <2>5. NotNewer'
    BY <1>0, <2>1, <2>2, <2>3
  <2> QED BY <2>4, <2>5
<1>7. ASSUME NEW r \in Requests, Refuses(r) PROVE Goal
  BY <1>0, <1>7 DEF Refuses, TokenTypes
<1>8. ASSUME NEW r \in Requests, Ends(r) PROVE Goal
  BY <1>8 DEF Ends
<1> QED BY <1>1, <1>2, <1>3, <1>4, <1>5, <1>6, <1>7, <1>8, Effects

\* With a limit of one, a renewal touches no token but that of the request that
\* asked for it.
LEMMA FollowStep ==
  ASSUME TokenInv, [GrokNext]_grokVars PROVE TokensFollowLeases'
<1> SUFFICES ASSUME MaxConcurrency = 1 PROVE TokensFollowLeases'
  BY DEF TokensFollowLeases
<1> USE DEF TokenInv, ForcedServes, TokensFollowLeases, Others, GoesOn, tokenVars,
            Serving, Steps
<1>1. CASE Aside
  BY <1>1 DEF Aside
<1>2. ASSUME NEW r \in Requests, Passes(r) PROVE TokensFollowLeases'
  BY <1>2 DEF Passes
<1>3. ASSUME NEW r \in Requests, Takes(r) PROVE TokensFollowLeases'
  BY <1>3 DEF Takes
<1>4. ASSUME NEW r \in Requests, Reuses(r) PROVE TokensFollowLeases'
  BY <1>4 DEF Reuses, TokenTypes
<1>5. ASSUME NEW r \in Requests, Begins(r) \/ Grants(r) PROVE TokensFollowLeases'
  BY <1>5 DEF Begins, Grants
<1>6. ASSUME NEW r \in Requests, Renews(r) PROVE TokensFollowLeases'
  <2>1. /\ step[r] = "stamp" /\ step'[r] = "save"
        /\ token'[r] = current'[lease[r].account] /\ lease'[r] = lease[r]
    BY <1>6, GrantAssumption DEF GrantAssumption, Renews, TokenTypes
  <2>2. \A q \in Requests \ {r} :
          step[q] \in Serving => current'[lease[q].account] = current[lease[q].account]
    BY <1>6, <2>1, CurrentGrows, Exclusive DEF HandlerInv
  <2> QED BY <1>6, <2>1, <2>2 DEF Renews
<1>7. ASSUME NEW r \in Requests, Refuses(r) PROVE TokensFollowLeases'
  BY <1>7 DEF Refuses, TokenTypes
<1>8. ASSUME NEW r \in Requests, Ends(r) PROVE TokensFollowLeases'
  BY <1>8 DEF Ends
<1> QED BY <1>1, <1>2, <1>3, <1>4, <1>5, <1>6, <1>7, <1>8, Effects

LEMMA TokenInvariant == GrokSpec => []TokenInv
<1> DEFINE Own2 == /\ TokenTypes /\ OneRenews /\ Room /\ ForcedServes
                   /\ NotNewer /\ RetryUsesNewerToken /\ TokensFollowLeases
<1>1. GrokInit => Own2
  BY TokensInit
<1>2. HandlerInv /\ Own2 /\ [GrokNext]_grokVars => Own2'
  BY RenewalStep, RetryStep, FollowStep DEF TokenInv
<1>3. HandlerInv /\ Own2 => TokenInv
  BY DEF TokenInv
<1> HIDE DEF Own2
<1> QED BY <1>1, <1>2, <1>3, GrokUsesHandler, HandlerInvariant, PTL DEF GrokSpec

\* Types of the handler, the pool and the tokens: no account is renewed by two
\* requests at once, so the number of grants stays within its bound.
THEOREM GrokTypesCorrect == GrokSpec => []GrokTypeOK
<1>1. TokenInv => GrokTypeOK
  BY DEF TokenInv, HandlerInv, Own, OwnTypes, TokenTypes, GrokTypeOK, HandlerTypeOK
<1> QED BY <1>1, TokenInvariant, PTL

\* However many requests share an account, the retry after a 401 (handler.go:
\* 130-142) presents a newer token than the refused one.
THEOREM RetryCorrect == GrokSpec => []RetryUsesNewerToken
<1>1. TokenInv => RetryUsesNewerToken
  BY DEF TokenInv
<1> QED BY <1>1, TokenInvariant, PTL

\* With one request per account nobody renews a token under a request.
THEOREM TokensFollowCorrect == GrokSpec => []TokensFollowLeases
<1>1. TokenInv => TokensFollowLeases
  BY DEF TokenInv
<1> QED BY <1>1, TokenInvariant, PTL
-----------------------------------------------------------------------------
(* The handler as a client of the token service.                           *)

AccountOf(r) == IF CallOf(r) = "none" THEN NoAccount ELSE lease[r].account
TokenOf(r) == IF CallOf(r) \in {"renewed", "answered"} THEN token[r] ELSE 0

calls == [r \in Requests |-> CallOf(r)]
accountsOf == [r \in Requests |-> AccountOf(r)]
tokensOf == [r \in Requests |-> TokenOf(r)]

\* Only the row of the request that moves changes.
LEMMA Row ==
  ASSUME NEW r \in Requests, Others(r)
  PROVE  /\ calls' = [calls EXCEPT ![r] = CallOf(r)'] /\ calls[r] = CallOf(r)
         /\ accountsOf' = [accountsOf EXCEPT ![r] = AccountOf(r)']
         /\ accountsOf[r] = AccountOf(r)
         /\ tokensOf' = [tokensOf EXCEPT ![r] = TokenOf(r)']
         /\ tokensOf[r] = TokenOf(r)
<1>1. \A q \in Requests \ {r} : CallOf(q)' = CallOf(q)
  BY DEF Others, CallOf
<1>2. \A q \in Requests \ {r} : AccountOf(q)' = AccountOf(q) /\ TokenOf(q)' = TokenOf(q)
  BY <1>1 DEF Others, AccountOf, TokenOf
<1> QED BY <1>1, <1>2 DEF calls, accountsOf, tokensOf

\* A step the service does not see.
LEMMA Unseen ==
  ASSUME NEW r \in Requests, Others(r), CallOf(r)' = CallOf(r),
         AccountOf(r)' = AccountOf(r), TokenOf(r)' = TokenOf(r), current' = current
  PROVE  UNCHANGED Service!vars
<1>1. UNCHANGED <<calls, accountsOf, tokensOf>>
  BY Row DEF calls, accountsOf, tokensOf
<1> QED BY <1>1 DEF Service!vars, calls, accountsOf, tokensOf, AccountOf, TokenOf

\* A call is given up, or its token is done with.
LEMMA Left ==
  ASSUME NEW r \in Requests, Others(r), current' = current,
         CallOf(r)' = "none",
         CallOf(r) \in {"none", "may", "must", "renewed", "answered"}
  PROVE  [Service!Next]_(Service!vars)
<1>1. AccountOf(r)' = NoAccount /\ TokenOf(r)' = 0
  BY DEF AccountOf, TokenOf
<1>2. CASE CallOf(r) = "none"
  BY <1>1, <1>2, Unseen DEF AccountOf, TokenOf
<1>3. CASE CallOf(r) # "none"
  <2>1. Service!Leave(r)
    BY <1>1, <1>3, Row
    DEF Service!Leave, Service!Step, calls, accountsOf, tokensOf, AccountOf, TokenOf
  <2> QED BY <2>1 DEF Service!Next
<1> QED BY <1>2, <1>3

LEMMA ServiceStep ==
  ASSUME TokenInv, [GrokNext]_grokVars PROVE [Service!Next]_(Service!vars)
<1> DEFINE Done == [Service!Next]_(Service!vars)
<1> USE DEF GoesOn, tokenVars
<1>0. \A r \in Requests : CallOf(r) \in {"none", "may", "must", "renewed", "answered"}
  BY DEF CallOf
<1>1. CASE Aside
  BY <1>1 DEF Aside, Service!vars, CallOf
<1>2. ASSUME NEW r \in Requests, Passes(r) PROVE Done
  <2>1. CASE CallOf(r)' = "none"
    BY <1>0, <1>2, <2>1, Left DEF Passes
  <2>2. CASE CallOf(r)' # "none" /\ step[r] = "save"
    <3>1. CallOf(r) = "renewed" /\ CallOf(r)' = "answered"
      BY <1>2, <2>2 DEF Passes, CallOf, Steps, Serving
    <3>2. AccountOf(r)' = AccountOf(r) /\ TokenOf(r)' = TokenOf(r)
      BY <1>2, <3>1 DEF Passes, AccountOf, TokenOf
    <3>3. Service!Answer(r)
      BY <1>2, <3>1, <3>2, Row
      DEF Passes, Service!Answer, Service!Step, calls, accountsOf, tokensOf,
          AccountOf, TokenOf
    <3> QED BY <3>3 DEF Service!Next
  <2>3. CASE CallOf(r)' # "none" /\ step[r] # "save"
    <3>1. CallOf(r) = "answered" /\ CallOf(r)' = "answered"
      BY <1>2, <2>3 DEF Passes, CallOf, Steps, Serving
    <3>2. AccountOf(r)' = AccountOf(r) /\ TokenOf(r)' = TokenOf(r)
      BY <1>2, <3>1 DEF Passes, AccountOf, TokenOf
    <3> QED BY <1>2, <3>1, <3>2, Unseen DEF Passes
  <2> QED BY <2>1, <2>2, <2>3
<1>3. ASSUME NEW r \in Requests, Takes(r) PROVE Done
  <2>1. PICK a \in Accounts : lease'[r].account = a
    BY <1>3 DEF Takes
  <2>2. /\ CallOf(r) = "none" /\ CallOf(r)' \in {"may", "must"}
        /\ AccountOf(r)' = a /\ TokenOf(r)' = 0
    BY <1>3, <2>1 DEF Takes, CallOf, AccountOf, TokenOf
  <2>3. Service!Ask(r, a)
    BY <1>3, <2>2, Row
    DEF Takes, Service!Ask, Service!Step, calls, accountsOf, tokensOf, AccountOf, TokenOf
  <2> QED BY <2>3 DEF Service!Next
<1>4. ASSUME NEW r \in Requests, Reuses(r) PROVE Done
  <2>1. /\ CallOf(r) = "may" /\ CallOf(r)' = "answered"
        /\ token'[r] = current[lease[r].account]
    BY <1>4 DEF Reuses, CallOf, TokenInv, TokenTypes
  <2>2. /\ AccountOf(r) = lease[r].account /\ AccountOf(r)' = AccountOf(r)
        /\ TokenOf(r)' = current[AccountOf(r)]
    BY <1>4, <2>1 DEF Reuses, AccountOf, TokenOf
  <2>3. accountsOf' = accountsOf
    BY <1>4, <2>2, Row DEF Reuses, accountsOf
  <2>4. Service!Reuse(r)
    BY <1>4, <2>1, <2>2, <2>3, Row
    DEF Reuses, Service!Reuse, Service!Step, calls, accountsOf, tokensOf, AccountOf, TokenOf
  <2> QED BY <2>4 DEF Service!Next
<1>5. ASSUME NEW r \in Requests, Begins(r) PROVE Done
  <2>1. CallOf(r) \in {"may", "must"} /\ CallOf(r)' = "must"
    BY <1>5 DEF Begins, CallOf
  <2>2. AccountOf(r)' = AccountOf(r) /\ TokenOf(r)' = TokenOf(r)
    BY <1>5, <2>1 DEF Begins, AccountOf, TokenOf
  <2>3. CASE CallOf(r) = "must"
    BY <1>5, <2>1, <2>2, <2>3, Unseen DEF Begins
  <2>4. CASE CallOf(r) = "may"
    <3>1. UNCHANGED <<accountsOf, tokensOf>>
      BY <1>5, <2>2, Row DEF Begins, accountsOf, tokensOf
    <3>2. Service!Decide(r)
      BY <1>5, <2>1, <2>4, <3>1, Row
      DEF Begins, Service!Decide, Service!Step, calls, accountsOf, tokensOf,
          AccountOf, TokenOf
    <3> QED BY <3>2 DEF Service!Next
  <2> QED BY <2>1, <2>3, <2>4
<1>6. ASSUME NEW r \in Requests, Grants(r) PROVE Done
  <2>1. CallOf(r) = "must" /\ CallOf(r)' = "must"
    BY <1>6 DEF Grants, CallOf
  <2>2. AccountOf(r)' = AccountOf(r) /\ TokenOf(r)' = TokenOf(r)
    BY <1>6, <2>1 DEF Grants, AccountOf, TokenOf
  <2> QED BY <1>6, <2>1, <2>2, Unseen DEF Grants
<1>7. ASSUME NEW r \in Requests, Renews(r) PROVE Done
  <2>1. CallOf(r) = "must" /\ CallOf(r)' = "renewed"
    BY <1>7 DEF Renews, CallOf
  <2>2. PICK a \in Accounts : a = lease[r].account
    BY <1>7 DEF Renews
  <2>3. /\ AccountOf(r) = a /\ AccountOf(r)' = a
        /\ TokenOf(r)' = current[a] + 1
    BY <1>7, <2>1, <2>2 DEF Renews, AccountOf, TokenOf, TokenInv, TokenTypes
  <2>4. /\ current' = [current EXCEPT ![a] = @ + 1]
        /\ current \in [Accounts -> Nat]
    BY <1>7, <2>2, GrantAssumption
    DEF GrantAssumption, Renews, TokenInv, TokenTypes
  <2>5. /\ current' \in [Accounts -> Nat]
        /\ current'[a] = current[a] + 1 /\ current'[a] > current[a]
        /\ \A b \in Accounts \ {a} : current'[b] = current[b]
    BY <2>4
  <2>6. accountsOf' = accountsOf /\ accountsOf[r] = a
    <3>1. Others(r) /\ AccountOf(r)' = AccountOf(r)
      BY <1>7, <2>3 DEF Renews
    <3> QED BY <2>3, <3>1, Row DEF accountsOf
  <2>7. /\ calls' = [calls EXCEPT ![r] = "renewed"] /\ calls[r] = "must"
        /\ tokensOf' = [tokensOf EXCEPT ![r] = current'[a]]
    BY <1>7, <2>1, <2>3, <2>5, Row DEF Renews
  <2>8. Service!Renew(r)
    BY <2>5, <2>6, <2>7
    DEF Service!Renew, Service!Step, calls, accountsOf, tokensOf, AccountOf, TokenOf
  <2> QED BY <2>8 DEF Service!Next
<1>8. ASSUME NEW r \in Requests, Refuses(r) PROVE Done
  <2>1. PICK a \in Accounts : lease'[r].account = a
    BY <1>8 DEF Refuses
  <2>2. /\ CallOf(r) = "answered" /\ CallOf(r)' = "must"
        /\ AccountOf(r)' = a /\ TokenOf(r)' = 0
    BY <1>8, <2>1 DEF Refuses, CallOf, AccountOf, TokenOf
  <2>3. Service!Ask(r, a)
    BY <1>8, <2>2, Row
    DEF Refuses, Service!Ask, Service!Step, calls, accountsOf, tokensOf, AccountOf, TokenOf
  <2> QED BY <2>3 DEF Service!Next
<1>9. ASSUME NEW r \in Requests, Ends(r) PROVE Done
  <2>1. CallOf(r)' = "none"
    BY <1>9 DEF Ends, CallOf
  <2> QED BY <1>0, <1>9, <2>1, Left DEF Ends
<1> QED BY <1>1, <1>2, <1>3, <1>4, <1>5, <1>6, <1>7, <1>8, <1>9, Effects DEF TokenInv

\* The handler and what it takes AccessToken to do are a behaviour of the token
\* service, which TokenStore implements.
THEOREM TokenServiceUsed == GrokSpec => UsesTokenService
<1>1. GrokInit => Service!Init
  BY DEF GrokInit, HandlerInit, Service!Init, CallOf
<1>2. TokenInv /\ [GrokNext]_grokVars => [Service!Next]_(Service!vars)
  BY ServiceStep
<1> QED BY <1>1, <1>2, TokenInvariant, PTL DEF GrokSpec, UsesTokenService, Service!Spec
=============================================================================
