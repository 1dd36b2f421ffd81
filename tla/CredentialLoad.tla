---------------------------- MODULE CredentialLoad --------------------------
(***************************************************************************)
(* Load, loadFile and Parse in internal/credential/store.go: at every      *)
(* start the state file and the auth.json files of `grok login` are merged *)
(* into one pair of tokens per account, and the result is saved.           *)
(*                                                                         *)
(* A login opens a session.  Its refresh token rotates: the pairs of a     *)
(* session are numbered, and the authorization server accepts only the     *)
(* last one.  The clock counts minutes.  A refresh is one step here; what  *)
(* can happen inside it is the subject of TokenStore.                      *)
(***************************************************************************)
EXTENDS Integers, Sequences

CONSTANTS
  Users,         \* identities: what accountID hashes
  Sessions,      \* logins
  Owner,         \* the user who logs in to each session
  Files,         \* the auth files, in the order of GROK_AUTH_FILES
  None,          \* no pair of tokens
  Lifetimes,     \* of access tokens, in minutes
  SharedFiles,   \* one file holds, and names, the sessions of several users
  MaxRotations,  \* bound on the refreshes of a session
  MaxFaults,     \* bound on the times the state file becomes unreadable
  MaxTime        \* bound on the clock

Entry == [session : Sessions, pair : 0 .. MaxRotations, expires : Nat]

ASSUME LoadAssumption ==
  /\ Owner \in [Sessions -> Users]
  /\ Lifetimes \subseteq Nat
  /\ SharedFiles \in BOOLEAN
  /\ Len(Files) \in Nat /\ DOMAIN Files = 1 .. Len(Files)
  /\ None \notin Entry
  /\ {MaxRotations, MaxFaults, MaxTime} \subseteq Nat

VARIABLES
  now,
  last,          \* server: the last pair of each session, -1 before its login
  auth,          \* the entries of each auth file; {} if it does not exist
  saved,         \* the entry of each account in the state file
  readable,      \* os.ReadFile and the decoder accept the state file
  accounts,      \* Store.accounts
  phase,         \* "down", "loading" or "up"
  next,          \* the next file Load reads
  faults,
  lost           \* history: sessions whose last pair is in no readable file

vars == <<now, last, auth, saved, readable, accounts, phase, next, faults, lost>>

NoAccounts == [u \in Users |-> None]

Init ==
  /\ now = 0
  /\ last = [s \in Sessions |-> -1]
  /\ auth = [f \in DOMAIN Files |-> {}]
  /\ saved = NoAccounts
  /\ readable = TRUE
  /\ accounts = NoAccounts
  /\ phase = "down"
  /\ next = 1
  /\ faults = 0
  /\ lost = {}
-----------------------------------------------------------------------------
\* Parse takes the first token pair and the first identity it meets, each in
\* map order: any pair of the file, with the name of any session in it.
Parse(entries) ==
  {[id |-> Owner[e.session], entry |-> f] : e, f \in entries}

MergeNewest(existing, item) ==   \* mutant: the source always wins
  item

MergeFirst(existing, item) ==    \* mutant: what was loaded first always wins
  IF existing = None THEN item ELSE existing

\* A source account supersedes the one loaded before when its access token
\* expires more than a minute later.
Merge(existing, item) ==
  IF existing = None \/ item.expires > existing.expires + 1 THEN item ELSE existing

BeginLoadEmpty ==                \* mutant: the state file is not read
  /\ phase = "down"
  /\ phase' = "loading"
  /\ next' = 1
  /\ accounts' = NoAccounts
  /\ UNCHANGED <<now, last, auth, saved, readable, faults, lost>>

\* A state file that cannot be read is as good as none.
BeginLoad ==
  /\ phase = "down"
  /\ phase' = "loading"
  /\ next' = 1
  /\ accounts' = IF readable THEN saved ELSE NoAccounts
  /\ UNCHANGED <<now, last, auth, saved, readable, faults, lost>>

ReadAuth ==
  /\ phase = "loading"
  /\ next <= Len(Files)
  /\ IF auth[next] = {}
     THEN UNCHANGED accounts
     ELSE \E item \in Parse(auth[next]) :
            accounts' = [accounts EXCEPT ![item.id] = Merge(@, item.entry)]
  /\ next' = next + 1
  /\ UNCHANGED <<now, last, auth, saved, readable, phase, faults, lost>>

\* A file that exists cannot be read or has no pair, no account was found, or
\* the state cannot be saved.
LoadFails ==
  /\ phase = "loading"
  /\ IF next <= Len(Files) THEN auth[next] # {} ELSE TRUE
  /\ phase' = "down"
  /\ accounts' = NoAccounts
  /\ UNCHANGED <<now, last, auth, saved, readable, next, faults, lost>>

LoadEndsEarly ==                 \* mutant: the first files that give an account do
  /\ phase = "loading"
  /\ accounts # NoAccounts
  /\ phase' = "up"
  /\ saved' = accounts
  /\ readable' = TRUE
  /\ UNCHANGED <<now, last, auth, accounts, next, faults, lost>>

LoadEnds ==
  /\ phase = "loading"
  /\ next > Len(Files)
  /\ accounts # NoAccounts
  /\ phase' = "up"
  /\ saved' = accounts
  /\ readable' = TRUE
  /\ UNCHANGED <<now, last, auth, accounts, next, faults, lost>>
-----------------------------------------------------------------------------
\* AccessToken refreshes an account.  The save, or the process, may fail once
\* the server has rotated the pair.
Refresh(u, life) ==
  LET old == accounts[u]
      new == [session |-> old.session, pair |-> old.pair + 1, expires |-> now + life]
  IN  /\ phase = "up"
      /\ old # None
      /\ old.pair = last[old.session] /\ old.pair < MaxRotations
      /\ last' = [last EXCEPT ![old.session] = new.pair]
      /\ accounts' = [accounts EXCEPT ![u] = new]
      /\ \/ /\ saved' = accounts'
            /\ readable' = TRUE
            /\ lost' = lost \ {old.session}
         \/ /\ lost' = lost \cup {old.session}
            /\ UNCHANGED <<saved, readable>>
      /\ UNCHANGED <<now, auth, phase, next, faults>>

Stop ==
  /\ phase = "up"
  /\ phase' = "down"
  /\ accounts' = NoAccounts
  /\ UNCHANGED <<now, last, auth, saved, readable, next, faults, lost>>

\* grok login rewrites an auth file.  A running process does not notice.
Login(f, s, life) ==
  /\ phase # "loading"
  /\ last[s] = -1
  /\ last' = [last EXCEPT ![s] = 0]
  /\ auth' = [auth EXCEPT ![f] =
       {[session |-> s, pair |-> 0, expires |-> now + life]} \cup
       {e \in @ : SharedFiles /\ Owner[e.session] # Owner[s]}]
  /\ UNCHANGED <<now, saved, readable, accounts, phase, next, faults, lost>>

\* The state file cannot be opened or decoded, or has another version: every
\* rotated pair is lost until a refresh saves one again.
StateBreaks ==
  /\ faults < MaxFaults
  /\ faults' = faults + 1
  /\ readable' = FALSE
  /\ lost' = lost \cup {s \in Sessions : last[s] > 0}
  /\ UNCHANGED <<now, last, auth, saved, accounts, phase, next>>

Tick ==
  /\ now < MaxTime
  /\ now' = now + 1
  /\ UNCHANGED <<last, auth, saved, readable, accounts, phase, next, faults, lost>>

Next ==
  \/ BeginLoad \/ ReadAuth \/ LoadFails \/ LoadEnds
  \/ \E life \in Lifetimes :
       \/ \E u \in Users : Refresh(u, life)
       \/ \E f \in DOMAIN Files, s \in Sessions : Login(f, s, life)
  \/ Stop \/ StateBreaks \/ Tick

Spec == Init /\ [][Next]_vars
-----------------------------------------------------------------------------
TypeOK ==
  /\ now \in 0 .. MaxTime
  /\ last \in [Sessions -> -1 .. MaxRotations]
  /\ \A f \in DOMAIN Files : auth[f] \subseteq Entry
  /\ \A u \in Users : {saved[u], accounts[u]} \subseteq Entry \cup {None}
  /\ readable \in BOOLEAN
  /\ phase \in {"down", "loading", "up"}
  /\ next \in 1 .. Len(Files) + 1
  /\ phase = "up" => next > Len(Files) /\ accounts # NoAccounts
  /\ faults \in 0 .. MaxFaults
  /\ lost \subseteq Sessions

\* The comment at store.go:252: an older auth.json cannot roll back a rotated
\* refresh token.  A process that is up holds the last pair of each of its
\* sessions, over any sequence of logins, refreshes and restarts, unless the
\* rotated pair could not be saved or the state file became unreadable.
NoRollback ==
  phase = "up" =>
    \A u \in Users :
      accounts[u] # None =>
        \/ accounts[u].pair = last[accounts[u].session]
        \/ accounts[u].session \in lost

\* The other half of that comment: whatever the order of the files, the pair
\* an account starts with expires at most a minute before the best one any
\* auth file had for it.
NewLoginSupersedes ==
  [][phase = "loading" /\ phase' = "up" =>
       \A f \in DOMAIN Files : \A e \in auth[f] :
         /\ accounts'[Owner[e.session]] # None
         /\ accounts'[Owner[e.session]].expires + 1 >= e.expires]_vars

\* A start that succeeds keeps every account of a state file it could read,
\* also those whose auth file is gone.
SavedAccountsKept ==
  [][phase = "loading" /\ phase' = "up" /\ readable =>
       \A u \in Users : saved[u] # None => accounts'[u] # None]_vars

\* Two accounts never share a session: a refresh of one would spend the
\* refresh token of the other.
OneAccountPerSession ==
  \A u, v \in Users :
    accounts[u] # None /\ accounts[v] # None /\ u # v =>
      accounts[u].session # accounts[v].session
=============================================================================
