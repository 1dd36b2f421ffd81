----------------------------- MODULE AccountPool ----------------------------
(***************************************************************************)
(* The pool of accounts in internal/credential/store.go: Store.Acquire,    *)
(* Lease.Release and Lease.Cooldown, called by any number of request       *)
(* goroutines in any order the types allow.  Each of the three holds the   *)
(* store's mutex for its whole body, so each is one action.                *)
(*                                                                         *)
(* The clock counts abstract time units.  UpdatedAt is written by          *)
(* AccessToken under the account's mutex and read by Acquire under the     *)
(* store's mutex only: a data race.  An account is in "stamping" while its *)
(* UpdatedAt is being written, and every comparison with it may then come  *)
(* out either way.                                                         *)
(***************************************************************************)
EXTENDS Integers, FiniteSets

CONSTANTS
  Accounts, Requests, MaxConcurrency,
  NoAccount,       \* the account of a request that never acquired a lease
  Durations,       \* the durations callers pass to Cooldown, some of them <= 0
  Minute,          \* time.Minute in units of the clock
  MaxTime          \* bound on the clock

ASSUME PoolAssumption ==
  /\ IsFiniteSet(Accounts)
  /\ IsFiniteSet(Requests)
  /\ MaxConcurrency \in Nat \ {0}
  /\ NoAccount \notin Accounts
  /\ Durations \subseteq Int
  /\ Minute \in Nat \ {0}
  /\ MaxTime \in Nat

VARIABLES
  now,             \* time.Now()
  inFlight,        \* account.inFlight
  cooldownTill,    \* account.cooldownTill; 0 is the zero time
  updatedAt,       \* account.UpdatedAt
  stamping,        \* the accounts whose UpdatedAt is being written
  lease            \* the last lease of each request and whether its once fired

poolVars == <<now, inFlight, cooldownTill, updatedAt, stamping, lease>>

NoLease == [account |-> NoAccount, released |-> FALSE]

Holds(r) == lease[r].account # NoAccount /\ ~lease[r].released

Holders(a) == {r \in Requests : lease[r].account = a /\ ~lease[r].released}

Cooling(a) == cooldownTill[a] > now

PoolInit ==
  /\ now = 0
  /\ inFlight = [a \in Accounts |-> 0]
  /\ cooldownTill = [a \in Accounts |-> 0]
  /\ updatedAt = [a \in Accounts |-> 0]
  /\ stamping = {}
  /\ lease = [r \in Requests |-> NoLease]
-----------------------------------------------------------------------------
EligibleAtLimit ==      \* mutant: inFlight > MaxConcurrency
  {a \in Accounts : inFlight[a] <= MaxConcurrency /\ ~Cooling(a)}

EligibleCooling ==      \* mutant: the cooldown test is missing
  {a \in Accounts : inFlight[a] < MaxConcurrency}

Eligible ==
  {a \in Accounts : inFlight[a] < MaxConcurrency /\ ~Cooling(a)}

LeastLoadedOldest(S) == \* mutant: UpdatedAt compared before inFlight
  {a \in S : \A b \in S : updatedAt[a] <= updatedAt[b]}

LeastLoaded(S) == {a \in S : \A b \in S : inFlight[a] <= inFlight[b]}

\* The accounts the selection loop can end with: the least loaded, and the
\* longest unrefreshed of those.  The map is iterated in random order, so one
\* racing comparison among the tied accounts lets any of them win.
Selectable ==
  LET tied == LeastLoaded(Eligible)
  IN  IF tied \cap stamping # {}
      THEN tied
      ELSE {a \in tied : \A b \in tied : updatedAt[a] <= updatedAt[b]}

\* A handler acquires only when it has given back the lease it had.
Acquire(r) ==
  /\ ~Holds(r)
  /\ \E a \in Selectable :
       /\ inFlight' = [inFlight EXCEPT ![a] = @ + 1]
       /\ lease' = [lease EXCEPT ![r] = [account |-> a, released |-> FALSE]]
  /\ UNCHANGED <<now, cooldownTill, updatedAt, stamping>>

ReleaseTwice(r) ==      \* mutant: no sync.Once around the decrement
  /\ lease[r].account # NoAccount
  /\ lease' = [lease EXCEPT ![r].released = TRUE]
  /\ inFlight' = [inFlight EXCEPT ![lease[r].account] = IF @ > 0 THEN @ - 1 ELSE @]
  /\ UNCHANGED <<now, cooldownTill, updatedAt, stamping>>

\* The body of once.Do.  Every further call of Release changes nothing.
Release(r) ==
  /\ lease[r].account # NoAccount
  /\ ~lease[r].released
  /\ lease' = [lease EXCEPT ![r].released = TRUE]
  /\ inFlight' = [inFlight EXCEPT ![lease[r].account] = IF @ > 0 THEN @ - 1 ELSE @]
  /\ UNCHANGED <<now, cooldownTill, updatedAt, stamping>>

CooldownUnclamped(r, d) ==  \* mutant: no default for an invalid duration
  /\ lease[r].account # NoAccount
  /\ cooldownTill' = [cooldownTill EXCEPT ![lease[r].account] = now + d]
  /\ UNCHANGED <<now, inFlight, updatedAt, stamping, lease>>

\* Cooldown overwrites whatever deadline there is, and does not ask whether
\* the lease was released.
Cooldown(r, d) ==
  /\ lease[r].account # NoAccount
  /\ cooldownTill' = [cooldownTill EXCEPT
       ![lease[r].account] = now + (IF d <= 0 THEN Minute ELSE d)]
  /\ UNCHANGED <<now, inFlight, updatedAt, stamping, lease>>

\* AccessToken assigns UpdatedAt holding the account's mutex, not the store's.
StampBegins(a) ==
  /\ a \notin stamping
  /\ stamping' = stamping \cup {a}
  /\ UNCHANGED <<now, inFlight, cooldownTill, updatedAt, lease>>

StampEnds(a) ==
  /\ a \in stamping
  /\ stamping' = stamping \ {a}
  /\ updatedAt' = [updatedAt EXCEPT ![a] = now]
  /\ UNCHANGED <<now, inFlight, cooldownTill, lease>>

Tick ==
  /\ now < MaxTime
  /\ now' = now + 1
  /\ UNCHANGED <<inFlight, cooldownTill, updatedAt, stamping, lease>>

PoolNext ==
  \/ \E r \in Requests :
       Acquire(r) \/ Release(r) \/ \E d \in Durations : Cooldown(r, d)
  \/ \E a \in Accounts : StampBegins(a) \/ StampEnds(a)
  \/ Tick

PoolSpec == PoolInit /\ [][PoolNext]_poolVars
-----------------------------------------------------------------------------
PoolTypeOK ==
  /\ now \in Nat
  /\ inFlight \in [Accounts -> Nat]
  /\ cooldownTill \in [Accounts -> Nat]
  /\ updatedAt \in [Accounts -> Nat]
  /\ stamping \subseteq Accounts
  /\ lease \in [Requests -> [account : Accounts \cup {NoAccount}, released : BOOLEAN]]

\* The counter of an account is the number of unreleased leases on it, through
\* any sequence of acquisitions and repeated releases: a slot is neither lost
\* nor handed back twice.
LeaseAccounting == \A a \in Accounts : inFlight[a] = Cardinality(Holders(a))

\* GROK_MAX_CONCURRENCY_PER_ACCOUNT bounds the leases that really are
\* outstanding on an account, not only the counter that stands for them.
CapacityRespected ==
  \A a \in Accounts : Cardinality(Holders(a)) <= MaxConcurrency

\* Acquire gives a request an account that had the fewest outstanding leases
\* of all accounts that had room and were not cooling.
LeastLoadedChosen ==
  [][\A r \in Requests, a, b \in Accounts :
       /\ r \in Holders(a)' /\ r \notin Holders(a)
       /\ Cardinality(Holders(b)) < MaxConcurrency
       /\ ~Cooling(b)
       => Cardinality(Holders(a)) <= Cardinality(Holders(b))]_poolVars

Leasing == INSTANCE AccountLeasing WITH
  holders <- [a \in Accounts |-> Holders(a)],
  cooling <- {a \in Accounts : Cooling(a)}

\* The counters, timestamps and leases implement the abstract promise: one
\* account per request, at most MaxConcurrency holders, nothing handed out
\* while it is cooling.
ImplementsLeasing == Leasing!Spec
=============================================================================
