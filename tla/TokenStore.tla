------------------------------ MODULE TokenStore ----------------------------
(***************************************************************************)
(* The credentials of internal/credential/store.go: Lease.AccessToken with *)
(* the OAuth exchange it makes, Store.save, the calls that only need a     *)
(* mutex, and the crash and restart of the process.                        *)
(*                                                                         *)
(* AccessToken holds the account's mutex across the HTTP exchange.  save   *)
(* holds the store's mutex while it takes each account's mutex in turn,    *)
(* and no mutex while it writes.  Tokens are numbered by the grant that    *)
(* issued them; the authorization server rotates refresh tokens and        *)
(* accepts only the last one.  A restart reads the state file, with no     *)
(* login in auth.json since.                                               *)
(***************************************************************************)
EXTENDS Integers

CONSTANTS
  Accounts,
  Goroutines,
  Nobody,        \* the holder of a free mutex
  NoClone,       \* an account that save has not copied yet
  NoAccount,     \* the account of a goroutine that is in no call
  Entries,       \* the calls goroutines make: "token", "account", "store"
  MaxGrants,     \* bound on the grants per account
  MaxCrashes     \* bound on the restarts of the process

ASSUME StoreAssumption ==
  /\ Nobody \notin Goroutines
  /\ NoAccount \notin Accounts
  /\ Entries \subseteq {"token", "account", "store"}
  /\ MaxGrants \in Nat /\ MaxCrashes \in Nat

VARIABLES
  server,        \* the last pair issued, as the authorization server knows it
  mem,           \* account.AccessToken and account.RefreshToken
  fresh,         \* account.ExpiresAt is later than now + RefreshLead
  file,          \* the pairs in the state file
  amu, smu,      \* the holders of account.mu and Store.mu
  pc, acct,      \* where each goroutine is, and the account it works on
  forced,        \* the force argument of AccessToken
  resp,          \* the pair in the OAuth response
  snap,          \* the clones save has made
  crashes,
  granted,       \* history: every pair issued
  saved,         \* history: the latest access token ever saved
  excused        \* history: how rotated tokens were lost that nobody can get back

vars == <<server, mem, fresh, file, amu, smu, pc, acct, forced, resp, snap,
          crashes, granted, saved, excused>>

Pair == [access : 0 .. MaxGrants, refresh : 0 .. MaxGrants]
First == [access |-> 0, refresh |-> 0]
NoSnap == [a \in Accounts |-> NoClone]

\* The answer that had it was lost, its save failed, or a crash came before it
\* was saved.
Causes == {"answer", "save", "crash"}

\* After Load: at least an access and a refresh token per account, and a file
\* that was just saved.
Init ==
  /\ server = [a \in Accounts |-> First]
  /\ mem = server
  /\ file = server
  /\ fresh \in [Accounts -> BOOLEAN]
  /\ amu = [a \in Accounts |-> Nobody]
  /\ smu = Nobody
  /\ pc = [g \in Goroutines |-> "idle"]
  /\ acct = [g \in Goroutines |-> NoAccount]
  /\ forced = [g \in Goroutines |-> FALSE]
  /\ resp = [g \in Goroutines |-> First]
  /\ snap = [g \in Goroutines |-> NoSnap]
  /\ crashes = 0
  /\ granted = [a \in Accounts |-> {First}]
  /\ saved = [a \in Accounts |-> 0]
  /\ excused = [a \in Accounts |-> {}]

Idle(g) == pc[g] \in {"idle", "cached", "refreshed"}

Goto(g, from, to) ==
  /\ pc[g] = from
  /\ pc' = [pc EXCEPT ![g] = to]

\* The call returns, with an error or with nothing that matters later.
Leave(g, from) ==
  /\ Goto(g, from, "idle")
  /\ acct' = [acct EXCEPT ![g] = NoAccount]
  /\ resp' = [resp EXCEPT ![g] = First]

Lock(a, g) == amu[a] = Nobody /\ amu' = [amu EXCEPT ![a] = g]
Unlock(a) == amu' = [amu EXCEPT ![a] = Nobody]
-----------------------------------------------------------------------------
\* AccessToken is called, after a 401 with force; or Info or List, that only
\* need the mutex of an account; or Acquire, Release, Cooldown or Count, that
\* only need the mutex of the store.
Call(g, a, entry, force) ==
  /\ Idle(g)
  /\ pc' = [pc EXCEPT ![g] = entry]
  /\ acct' = [acct EXCEPT ![g] = a]
  /\ resp' = [resp EXCEPT ![g] = First]
  /\ forced' = [forced EXCEPT ![g] = force]
  /\ UNCHANGED <<server, mem, fresh, file, amu, smu, snap, crashes,
                 granted, saved, excused>>

AccountCall(g) ==
  /\ Leave(g, "account")
  /\ amu[acct[g]] = Nobody
  /\ UNCHANGED <<server, mem, fresh, file, amu, smu, forced, snap, crashes, granted, saved, excused>>

StoreCall(g) ==
  /\ Leave(g, "store")
  /\ smu = Nobody
  /\ UNCHANGED <<server, mem, fresh, file, amu, smu, forced, snap, crashes, granted, saved, excused>>

\* Locks and unlocks in between.
UseCached(g) ==
  /\ Goto(g, "token", "cached")
  /\ amu[acct[g]] = Nobody
  /\ ~forced[g] /\ fresh[acct[g]]
  /\ resp' = [resp EXCEPT ![g] = mem[acct[g]]]
  /\ UNCHANGED <<server, mem, fresh, file, amu, smu, acct, forced, snap,
                 crashes, granted, saved, excused>>

PresentUnlocked(g) ==  \* mutant: the mutex is not held across the exchange
  /\ Goto(g, "token", "present")
  /\ amu[acct[g]] = Nobody
  /\ forced[g] \/ ~fresh[acct[g]]
  /\ forced' = [forced EXCEPT ![g] = FALSE]
  /\ UNCHANGED <<server, mem, fresh, file, amu, smu, acct, resp, snap, crashes, granted, saved, excused>>

\* A refresh token is never blank: loadFile skips the accounts without one,
\* and refresh keeps the old one when the response has none.
Present(g) ==
  /\ Goto(g, "token", "present")
  /\ Lock(acct[g], g)
  /\ forced[g] \/ ~fresh[acct[g]]
  /\ forced' = [forced EXCEPT ![g] = FALSE]
  /\ UNCHANGED <<server, mem, fresh, file, smu, acct, resp, snap, crashes, granted, saved, excused>>

ExchangeStuck(g) ==    \* mutant: no Unlock on the error path
  /\ Leave(g, "present")
  /\ UNCHANGED <<server, mem, fresh, file, amu, smu, forced, snap, crashes,
                 granted, saved, excused>>

ExchangeRetries(g) ==  \* mutant: a failed refresh is tried again
  /\ Goto(g, "present", "token")
  /\ Unlock(acct[g])
  /\ UNCHANGED <<server, mem, fresh, file, smu, acct, forced, resp, snap,
                 crashes, granted, saved, excused>>

\* The request does not get through, or the server answers with an error.  It
\* must when the token presented is not the last one issued.
ExchangeFails(g) ==
  /\ Leave(g, "present")
  /\ Unlock(acct[g])
  /\ UNCHANGED <<server, mem, fresh, file, smu, forced, snap, crashes, granted, saved, excused>>

\* The server issues an access token, and a new refresh token or none.
Grant(g) ==
  LET a == acct[g]
      n == server[a].access + 1
  IN  /\ Goto(g, "present", "granted")
      /\ mem[a].refresh = server[a].refresh
      /\ n <= MaxGrants
      /\ \E rotated \in {n, server[a].refresh} :
           LET pair == [access |-> n, refresh |-> rotated]
           IN  /\ server' = [server EXCEPT ![a] = pair]
               /\ resp' = [resp EXCEPT ![g] = pair]
               /\ granted' = [granted EXCEPT ![a] = @ \cup {pair}]
      /\ UNCHANGED <<mem, fresh, file, amu, smu, acct, forced, snap, crashes,
                     saved, excused>>

\* The answer does not arrive, its context was cancelled, or refresh rejects
\* it: no JSON, no access token, no expiry in the future.
ReplyLost(g) ==
  LET a == acct[g]
  IN  /\ Leave(g, "granted")
      /\ Unlock(a)
      /\ excused' = IF server[a].refresh = mem[a].refresh THEN excused
                    ELSE [excused EXCEPT ![a] = @ \cup {"answer"}]
      /\ UNCHANGED <<server, mem, fresh, file, smu, forced, snap, crashes, granted, saved>>

AssignAccess(g) ==
  /\ Goto(g, "granted", "assign")
  /\ mem' = [mem EXCEPT ![acct[g]].access = resp[g].access]
  /\ UNCHANGED <<server, fresh, file, amu, smu, acct, forced, resp, snap,
                 crashes, granted, saved, excused>>

AssignUnsaved(g) ==    \* mutant: the refreshed pair is not saved
  /\ Goto(g, "assign", "refreshed")
  /\ mem' = [mem EXCEPT ![acct[g]].refresh = resp[g].refresh]
  /\ \E soon \in BOOLEAN : fresh' = [fresh EXCEPT ![acct[g]] = soon]
  /\ Unlock(acct[g])
  /\ UNCHANGED <<server, file, smu, acct, forced, resp, snap,
                 crashes, granted, saved, excused>>

\* The rest of the assignments, and Unlock.  The new token may be due for
\* another refresh at once.
AssignRest(g) ==
  /\ Goto(g, "assign", "save")
  /\ mem' = [mem EXCEPT ![acct[g]].refresh = resp[g].refresh]
  /\ \E soon \in BOOLEAN : fresh' = [fresh EXCEPT ![acct[g]] = soon]
  /\ Unlock(acct[g])
  /\ UNCHANGED <<server, file, smu, acct, forced, resp, snap,
                 crashes, granted, saved, excused>>
-----------------------------------------------------------------------------
SaveUnlessSaving(g) == \* mutant: no save while another one is under way
  /\ IF smu = Nobody
     THEN Goto(g, "save", "clone") /\ smu' = g
     ELSE Goto(g, "save", "refreshed") /\ UNCHANGED smu
  /\ UNCHANGED <<server, mem, fresh, file, amu, acct, forced, resp, snap,
                 crashes, granted, saved, excused>>

SaveBegins(g) ==
  /\ Goto(g, "save", "clone")
  /\ smu = Nobody
  /\ smu' = g
  /\ UNCHANGED <<server, mem, fresh, file, amu, acct, forced, resp, snap,
                 crashes, granted, saved, excused>>

CloneUnlocked(g, a) == \* mutant: save does not take the account's mutex
  /\ pc[g] = "clone"
  /\ snap[g][a] = NoClone
  /\ snap' = [snap EXCEPT ![g][a] = mem[a]]
  /\ UNCHANGED <<server, mem, fresh, file, amu, smu, pc, acct, forced, resp,
                 crashes, granted, saved, excused>>

\* The accounts are visited in map order: any order.
Clone(g, a) ==
  /\ pc[g] = "clone"
  /\ snap[g][a] = NoClone
  /\ amu[a] = Nobody
  /\ snap' = [snap EXCEPT ![g][a] = mem[a]]
  /\ UNCHANGED <<server, mem, fresh, file, amu, smu, pc, acct, forced, resp,
                 crashes, granted, saved, excused>>

CloneEnds(g) ==
  /\ Goto(g, "clone", "write")
  /\ \A a \in Accounts : snap[g][a] # NoClone
  /\ smu' = Nobody
  /\ UNCHANGED <<server, mem, fresh, file, amu, acct, forced, resp, snap,
                 crashes, granted, saved, excused>>

\* Any step up to the rename fails: the old file stays, the deferred Remove
\* deletes the temporary one, and AccessToken returns an error.
WriteFails(g) ==
  /\ Leave(g, "write")
  /\ snap' = [snap EXCEPT ![g] = NoSnap]
  /\ excused' = [excused EXCEPT ![acct[g]] = @ \cup {"save"}]
  /\ UNCHANGED <<server, mem, fresh, file, amu, smu, forced, crashes, granted,
                 saved>>

\* The rename replaces the file; the Chmod after it may still fail.
Rename(g) ==
  /\ \/ Goto(g, "write", "refreshed") /\ UNCHANGED <<acct, resp>>
     \/ Leave(g, "write")
  /\ file' = snap[g]
  /\ saved' = [a \in Accounts |->
       IF snap[g][a].access > saved[a] THEN snap[g][a].access ELSE saved[a]]
  /\ snap' = [snap EXCEPT ![g] = NoSnap]
  /\ UNCHANGED <<server, mem, fresh, amu, smu, forced, crashes, granted,
                 excused>>
-----------------------------------------------------------------------------
\* The clock reaches ExpiresAt - RefreshLead.
Age(a) ==
  /\ fresh[a]
  /\ fresh' = [fresh EXCEPT ![a] = FALSE]
  /\ UNCHANGED <<server, mem, file, amu, smu, pc, acct, forced, resp, snap,
                 crashes, granted, saved, excused>>

\* Between the grant of a token and the end of the save that was to store it.
Unsaved(a) ==
  \E g \in Goroutines :
    acct[g] = a /\ pc[g] \in {"granted", "assign", "save", "clone", "write"}

\* The process dies and Load reads the state file.
Crash ==
  /\ crashes < MaxCrashes
  /\ crashes' = crashes + 1
  /\ mem' = file
  /\ fresh' \in [Accounts -> BOOLEAN]
  /\ amu' = [a \in Accounts |-> Nobody]
  /\ smu' = Nobody
  /\ pc' = [g \in Goroutines |-> "idle"]
  /\ acct' = [g \in Goroutines |-> NoAccount]
  /\ forced' = [g \in Goroutines |-> FALSE]
  /\ resp' = [g \in Goroutines |-> First]
  /\ snap' = [g \in Goroutines |-> NoSnap]
  /\ excused' = [a \in Accounts |->
       excused[a] \cup IF Unsaved(a) THEN {"crash"} ELSE {}]
  /\ UNCHANGED <<server, file, granted, saved>>

TakeAccount(g) == UseCached(g) \/ Present(g) \/ AccountCall(g)
TakeStore(g) == SaveBegins(g) \/ StoreCall(g)
CloneSome(g) == \E a \in Accounts : Clone(g, a)
Proceed(g) ==
  \/ ExchangeFails(g) \/ Grant(g) \/ ReplyLost(g)
  \/ AssignAccess(g) \/ AssignRest(g)
  \/ CloneEnds(g) \/ WriteFails(g) \/ Rename(g)

Next ==
  \/ \E g \in Goroutines :
       \/ \E a \in Accounts :
            \/ "token" \in Entries /\ \E force \in BOOLEAN : Call(g, a, "token", force)
            \/ \E entry \in Entries \ {"token"} : Call(g, a, entry, FALSE)
       \/ TakeAccount(g) \/ TakeStore(g) \/ CloneSome(g) \/ Proceed(g)
  \/ \E a \in Accounts : Age(a)
  \/ Crash

Spec == Init /\ [][Next]_vars

\* Goroutines are scheduled, http.Client.Timeout ends an exchange, and a
\* sync.Mutex starves no goroutine that waits for it.
FairSpec ==
  /\ Spec
  /\ \A g \in Goroutines :
       /\ WF_vars(Proceed(g))
       /\ SF_vars(TakeAccount(g))
       /\ SF_vars(TakeStore(g))
       /\ SF_vars(CloneSome(g))
-----------------------------------------------------------------------------
TypeOK ==
  /\ server \in [Accounts -> Pair]
  /\ mem \in [Accounts -> Pair]
  /\ fresh \in [Accounts -> BOOLEAN]
  /\ file \in [Accounts -> Pair]
  /\ \A a \in Accounts : amu[a] \in {Nobody} \cup {g \in Goroutines : acct[g] = a}
  /\ smu \in Goroutines \cup {Nobody}
  /\ pc \in [Goroutines -> {"idle", "cached", "refreshed", "account", "store",
                            "token", "present", "granted", "assign", "save",
                            "clone", "write"}]
  /\ acct \in [Goroutines -> Accounts \cup {NoAccount}]
  /\ forced \in [Goroutines -> BOOLEAN]
  /\ resp \in [Goroutines -> Pair]
  /\ snap \in [Goroutines -> [Accounts -> Pair \cup {NoClone}]]
  /\ crashes \in 0 .. MaxCrashes
  /\ granted \in [Accounts -> SUBSET Pair]
  /\ saved \in [Accounts -> 0 .. MaxGrants]
  /\ excused \in [Accounts -> SUBSET Causes]

\* The state file never holds the access token of one grant with the refresh
\* token of another, although save copies accounts that other goroutines are
\* refreshing: a restart finds a pair the server issued.
NoTornCredentials == \A a \in Accounts : file[a] \in granted[a]

\* However many goroutines find the token expired or rejected at once, none
\* presents a refresh token that another one already spent.  Only the loss of an
\* answer that had a rotated token leaves memory with a retired one; a failed
\* save does not, until a restart reads the file.
PresentedTokenIsCurrent ==
  \A g \in Goroutines :
    pc[g] = "present" /\ crashes = 0 =>
      \/ mem[acct[g]].refresh = server[acct[g]].refresh
      \/ "answer" \in excused[acct[g]]

\* A token that AccessToken returns after a refresh has been in the state
\* file, whichever other refreshes and saves ran meanwhile.
RefreshedTokenWasSaved ==
  \A g \in Goroutines : pc[g] = "refreshed" => resp[g].access <= saved[acct[g]]

\* At rest the state file holds every account's current refresh token, so that
\* a restart costs no login.  Only where saves do not overlap.
RotationIsDurable ==
  (\A g \in Goroutines : Idle(g)) =>
    \A a \in Accounts : file[a].refresh = server[a].refresh \/ excused[a] # {}

\* Every call returns: the order store mutex, account mutex has no cycle, and
\* no call is overtaken for ever by the goroutines that share its mutexes.
EveryCallReturns ==
  \A g \in Goroutines : pc[g] \in {"token", "account", "store"} ~> Idle(g)

\* A call as TokenService sees it.
CallOf(g) ==
  CASE pc[g] \in {"idle", "account", "store"} -> "none"
    [] pc[g] = "token" -> IF forced[g] THEN "must" ELSE "may"
    [] pc[g] \in {"present", "granted"} -> "must"
    [] pc[g] \in {"assign", "save", "clone", "write"} -> "renewed"
    [] pc[g] \in {"cached", "refreshed"} -> "answered"

AccountOf(g) == IF CallOf(g) = "none" THEN NoAccount ELSE acct[g]

TokenOf(g) == IF CallOf(g) \in {"renewed", "answered"} THEN resp[g].access ELSE 0

\* The code keeps the promise of TokenService: the current token is the one in
\* memory, and the assignment of a granted token, which no other call can see
\* half done, is the renewal.
Service == INSTANCE TokenService WITH
  current <- [a \in Accounts |-> mem[a].access],
  call    <- [g \in Goroutines |-> CallOf(g)],
  account <- [g \in Goroutines |-> AccountOf(g)],
  token   <- [g \in Goroutines |-> TokenOf(g)]

ImplementsService == Service!Spec

\* A rotated refresh token that was saved is not rolled back by a later save.
StateFileNeverRollsBack ==
  [][\A a \in Accounts : file'[a].refresh >= file[a].refresh]_vars

\* AccessToken hands out no refreshed token whose save has failed.
ServedTokenWasSaved ==
  \A g \in Goroutines :
    pc[g] \in {"cached", "refreshed"} => resp[g].access <= saved[acct[g]]
=============================================================================
