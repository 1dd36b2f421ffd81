------------------------- MODULE CredentialLoad_proofs ----------------------
(***************************************************************************)
(* When no older auth.json rolls back a rotated refresh token: one session *)
(* per file and access tokens of one lifetime.                             *)
(***************************************************************************)
EXTENDS CredentialLoad, TLAPS

\* An access token expires no later than one issued now would.
Issued(x) == \A life \in Lifetimes : x.expires <= now + life

\* What is in memory or in the state file for a user: a pair of a session of
\* that user, the last one unless it was lost, and no older than the login.
Good(u, x) ==
  x # None =>
    /\ x \in Entry
    /\ Owner[x.session] = u
    /\ last[x.session] >= 0
    /\ Issued(x)
    /\ x.pair = last[x.session] \/ x.session \in lost
    /\ \A f \in DOMAIN Files : \A e \in auth[f] :
         e.session = x.session => e.expires <= x.expires

\* What is in the auth files: first pairs, one per file and one per login.
AuthFiles ==
  /\ \A f \in DOMAIN Files : \A e \in auth[f] :
       /\ e \in Entry
       /\ e.pair = 0
       /\ last[e.session] >= 0
       /\ Issued(e)
       /\ \A d \in auth[f] : d = e
  /\ \A f, g \in DOMAIN Files : \A e \in auth[f], d \in auth[g] :
       e.session = d.session => e = d

\* A session that was refreshed has left a pair in the state file that is not
\* older than its login, whosever session that pair is of.
Superseded ==
  \A f \in DOMAIN Files : \A e \in auth[f] :
    last[e.session] > 0 /\ e.session \notin lost =>
      /\ saved[Owner[e.session]] # None
      /\ e.expires <= saved[Owner[e.session]].expires

\* What an unreadable state file holds of refreshed sessions is lost.
Unreadable == ~readable => \A s \in Sessions : last[s] > 0 => s \in lost

\* Memory is never older than the state file it was loaded from.
MemoryAhead ==
  /\ phase # "down" /\ readable =>
       \A u \in Users : saved[u] # None =>
         accounts[u] # None /\ saved[u].expires <= accounts[u].expires
  /\ phase = "up" =>
       \A u \in Users : accounts[u] # None =>
         saved[u] # None /\ saved[u].session = accounts[u].session

Shape ==
  /\ now \in Nat
  /\ last \in [Sessions -> Int]
  /\ DOMAIN auth = DOMAIN Files
  /\ DOMAIN saved = Users /\ DOMAIN accounts = Users
  /\ next \in Nat \ {0}

Inv ==
  /\ Shape
  /\ AuthFiles
  /\ Superseded
  /\ Unreadable
  /\ MemoryAhead
  /\ \A u \in Users : Good(u, saved[u]) /\ Good(u, accounts[u])

Premises ==
  /\ ~SharedFiles
  /\ \A l, m \in Lifetimes : l = m

LEMMA InvInit == Init => Inv
BY LoadAssumption
DEF LoadAssumption, Init, Inv, Shape, AuthFiles, Superseded, Unreadable, MemoryAhead, Good,
    NoAccounts

\* Steps that change only memory, to what is in the state file or to nothing.
LEMMA BeginLoadStep == ASSUME Inv, BeginLoad PROVE Inv'
BY DEF Inv, BeginLoad, NoAccounts, Shape, AuthFiles, Superseded, Unreadable,
       MemoryAhead, Good, Issued, Entry

LEMMA ForgetStep ==
  ASSUME Inv, phase' = "down", accounts' = NoAccounts,
         UNCHANGED <<now, last, auth, saved, readable, next, faults, lost>>
  PROVE  Inv'
BY DEF Inv, Shape, AuthFiles, Superseded, Unreadable, MemoryAhead, Good, Issued, NoAccounts

LEMMA TickStep == ASSUME Inv, Tick PROVE Inv'
<1>1. now' = now + 1 /\ now \in Nat /\ now' \in Nat
  BY DEF Inv, Tick, Shape
<1>2. \A x \in Entry : Issued(x) => Issued(x)'
  <2> SUFFICES ASSUME NEW x \in Entry, Issued(x), NEW life \in Lifetimes
               PROVE  x.expires <= now' + life
    BY DEF Issued
  <2>1. x.expires \in Nat /\ life \in Nat /\ x.expires <= now + life
    BY LoadAssumption DEF LoadAssumption, Entry, Issued
  <2> QED BY <1>1, <2>1
<1>3. UNCHANGED <<last, auth, saved, readable, accounts, phase, next, faults, lost>>
  BY DEF Tick
<1>4. \A u \in Users : Good(u, saved[u])' /\ Good(u, accounts[u])'
  BY <1>2, <1>3 DEF Inv, Good
<1>5. AuthFiles'
  BY <1>2, <1>3 DEF Inv, AuthFiles
<1> QED BY <1>1, <1>3, <1>4, <1>5 DEF Inv, Shape, Superseded, Unreadable, MemoryAhead

\* The heart of the matter: a pair from an auth file that replaces one in
\* memory is still the last of its session, for a session that has gone on
\* left something younger in the state file, hence in memory.
LEMMA ReadAuthStep == ASSUME Premises, Inv, ReadAuth PROVE Inv'
<1>1. CASE auth[next] = {}
  BY <1>1, LoadAssumption
  DEF LoadAssumption, ReadAuth, Inv, Shape, AuthFiles, Superseded, Unreadable, MemoryAhead, Good, Issued
<1>2. CASE auth[next] # {}
  <2>1. next \in DOMAIN Files
    BY LoadAssumption DEF LoadAssumption, ReadAuth, Inv, Shape
  <2>2. PICK item \in Parse(auth[next]) :
          accounts' = [accounts EXCEPT ![item.id] = Merge(@, item.entry)]
    BY <1>2 DEF ReadAuth
  <2>3. PICK e \in auth[next] : item = [id |-> Owner[e.session], entry |-> e]
    BY <2>1, <2>2 DEF Parse, Inv, AuthFiles
  <2>4. PICK u \in Users : u = Owner[e.session]
    BY <2>1, LoadAssumption DEF LoadAssumption, Inv, AuthFiles, Entry
  <2>5. /\ accounts'[u] = Merge(accounts[u], e)
        /\ \A v \in Users \ {u} : accounts'[v] = accounts[v]
        /\ DOMAIN accounts' = Users
    BY <2>2, <2>3, <2>4 DEF Inv, Shape
  <2>6. UNCHANGED <<now, last, auth, saved, readable, phase, faults, lost>>
        /\ next' = next + 1 /\ phase = "loading"
    BY DEF ReadAuth
  <2>7. e \in Entry /\ e.expires \in Nat /\ e # None
    BY <2>1, LoadAssumption DEF LoadAssumption, Inv, AuthFiles, Entry
  <2>8. CASE accounts'[u] = accounts[u]
    BY <2>5, <2>6, <2>8 DEF Inv, Shape, AuthFiles, Superseded, Unreadable, MemoryAhead, Good, Issued
  <2>9. CASE accounts'[u] # accounts[u]
    <3>1. /\ accounts'[u] = e
          /\ accounts[u] # None => e.expires > accounts[u].expires + 1
      BY <2>5, <2>9 DEF Merge
    <3>2. accounts[u] # None => accounts[u].expires \in Nat
      BY DEF Inv, Good, Entry
    <3>3. readable /\ saved[u] # None =>
                             /\ saved[u].expires \in Nat
                             /\ accounts[u] # None
                             /\ saved[u].expires <= accounts[u].expires
      BY <2>6 DEF Inv, Good, Entry, MemoryAhead
    <3>4. last[e.session] = 0 \/ e.session \in lost
      <4>1. last[e.session] \in Int /\ last[e.session] >= 0 /\ e.session \in Sessions
        BY <2>1, <2>7 DEF Inv, AuthFiles, Shape, Entry
      <4>2. CASE readable
        <5>1. ~(last[e.session] > 0 /\ e.session \notin lost)
          BY <2>1, <2>4, <2>7, <3>1, <3>2, <3>3, <4>2 DEF Inv, Superseded
        <5> QED BY <4>1, <5>1
      <4>3. CASE ~readable
        BY <4>1, <4>3 DEF Inv, Unreadable
      <4> QED BY <4>2, <4>3
    <3>5. Good(u, e)
      BY <2>1, <2>4, <2>7, <3>4 DEF Good, Inv, AuthFiles
    <3>6. \A v \in Users : Good(v, saved[v])' /\ Good(v, accounts[v])'
      BY <2>4, <2>5, <2>6, <3>1, <3>5 DEF Inv, Good, Issued
    <3>7. MemoryAhead'
      BY <2>5, <2>6, <2>7, <3>1, <3>2, <3>3 DEF Inv, MemoryAhead
    <3> QED
      BY <2>5, <2>6, <3>6, <3>7
      DEF Inv, Shape, AuthFiles, Superseded, Unreadable, Issued
  <2> QED BY <2>8, <2>9
<1> QED BY <1>1, <1>2

LEMMA LoadEndsStep == ASSUME Inv, LoadEnds PROVE Inv'
<1>1. /\ saved' = accounts /\ phase' = "up" /\ readable' = TRUE /\ phase = "loading"
      /\ UNCHANGED <<now, last, auth, accounts, next, faults, lost>>
  BY DEF LoadEnds
<1>2. Superseded'
  <2> SUFFICES ASSUME NEW f \in DOMAIN Files, NEW e \in auth[f],
                      last[e.session] > 0, e.session \notin lost
               PROVE  /\ accounts[Owner[e.session]] # None
                      /\ e.expires <= accounts[Owner[e.session]].expires
    BY <1>1 DEF Superseded
  <2>1. PICK u \in Users : u = Owner[e.session]
    BY LoadAssumption DEF LoadAssumption, Inv, AuthFiles, Entry
  <2>2. saved[u] # None /\ e.expires <= saved[u].expires
    BY <2>1 DEF Inv, Superseded
  <2>3. readable
    BY DEF Inv, AuthFiles, Unreadable, Entry
  <2>5. accounts[u] # None /\ saved[u].expires <= accounts[u].expires
    BY <1>1, <2>2, <2>3 DEF Inv, MemoryAhead
  <2>4. {e.expires, saved[u].expires, accounts[u].expires} \subseteq Nat
    BY <2>2, <2>5 DEF Inv, AuthFiles, Good, Entry
  <2> QED BY <2>1, <2>2, <2>4, <2>5
<1>3. MemoryAhead'
  BY <1>1 DEF Inv, MemoryAhead, Good, Entry
<1>4. \A u \in Users : Good(u, saved[u])' /\ Good(u, accounts[u])'
  BY <1>1 DEF Inv, Good, Issued
<1> QED BY <1>1, <1>2, <1>3, <1>4 DEF Inv, Shape, AuthFiles, Unreadable, Issued

\* A login has a session of its own, of which there is no pair yet, and a file
\* of its own; its access token expires no earlier than any other.
LEMMA LoginStep ==
  ASSUME Premises, Inv, NEW f \in DOMAIN Files, NEW s \in Sessions,
         NEW life \in Lifetimes, Login(f, s, life)
  PROVE  Inv'
<1> DEFINE new == [session |-> s, pair |-> 0, expires |-> now + life]
<1>1. /\ last[s] = -1 /\ last' = [last EXCEPT ![s] = 0]
      /\ auth' = [auth EXCEPT ![f] = {new}]
      /\ UNCHANGED <<now, saved, readable, accounts, phase, next, faults, lost>>
  BY DEF Login, Premises
<1>2. /\ new \in Entry
      /\ \A l \in Lifetimes : new.expires <= now + l
  <2>1. now \in Nat /\ life \in Nat /\ MaxRotations \in Nat
    BY LoadAssumption DEF LoadAssumption, Inv, Shape
  <2>2. \A l \in Lifetimes : l = life
    BY DEF Premises
  <2> QED BY <2>1, <2>2 DEF Entry
<1>3. \A r \in Sessions : /\ last[r] >= 0 => r # s /\ last'[r] = last[r]
                          /\ last'[s] = 0
  BY <1>1 DEF Inv, Shape
<1>4. \A g \in DOMAIN Files : \A e \in auth'[g] :
        \/ g = f /\ e = new
        \/ g # f /\ e \in auth[g] /\ e \in Entry /\ last[e.session] >= 0
                 /\ e.session # s
  BY <1>1, <1>3 DEF Inv, Shape, AuthFiles, Entry
<1>5. AuthFiles'
  <2>1. ASSUME NEW g \in DOMAIN Files, NEW e \in auth'[g]
        PROVE  e \in Entry /\ e.pair = 0 /\ last'[e.session] >= 0 /\ Issued(e)'
    BY <1>1, <1>2, <1>3, <1>4, <2>1 DEF Inv, AuthFiles, Issued, Entry
  <2>2. ASSUME NEW g \in DOMAIN Files, NEW e \in auth'[g], NEW d \in auth'[g]
        PROVE  d = e
    BY <1>4, <2>2 DEF Inv, AuthFiles
  <2>3. ASSUME NEW g \in DOMAIN Files, NEW h \in DOMAIN Files,
               NEW e \in auth'[g], NEW d \in auth'[h], e.session = d.session
        PROVE  e = d
    BY <1>4, <2>3 DEF Inv, AuthFiles
  <2> QED BY <2>1, <2>2, <2>3 DEF AuthFiles
<1>6. Superseded'
  BY <1>1, <1>3, <1>4 DEF Inv, Superseded, Entry
<1>7. ASSUME NEW u \in Users, NEW x, Good(u, x) PROVE Good(u, x)'
  BY <1>1, <1>3, <1>4, <1>7 DEF Good, Issued, Entry
<1>8. \A u \in Users : Good(u, saved[u])' /\ Good(u, accounts[u])'
  BY <1>1, <1>7 DEF Inv
<1>9. Unreadable'
  BY <1>1, <1>3 DEF Inv, Unreadable
<1> QED BY <1>1, <1>3, <1>5, <1>6, <1>8, <1>9 DEF Inv, Shape, MemoryAhead

\* A refresh outlives every token issued before it.  If it cannot be saved, the
\* pair in the state file is of the same session, which is now among the lost.
LEMMA RefreshStep ==
  ASSUME Premises, Inv, NEW u \in Users, NEW life \in Lifetimes, Refresh(u, life)
  PROVE  Inv'
<1>1. PICK s \in Sessions : accounts[u] # None /\ s = accounts[u].session /\ u = Owner[s]
  BY DEF Refresh, Inv, Good, Entry
<1>2. PICK new : new = [session |-> s, pair |-> accounts[u].pair + 1, expires |-> now + life]
  OBVIOUS
<1>3. /\ last' = [last EXCEPT ![s] = new.pair]
      /\ accounts' = [accounts EXCEPT ![u] = new]
      /\ accounts[u].pair = last[s] /\ accounts[u].pair < MaxRotations
      /\ phase = "up"
      /\ UNCHANGED <<now, auth, phase, next, faults>>
  BY <1>1, <1>2 DEF Refresh
<1>4. \/ saved' = accounts' /\ readable' = TRUE /\ lost' = lost \ {s}
      \/ lost' = lost \cup {s} /\ UNCHANGED <<saved, readable>>
  BY <1>1 DEF Refresh
<1>5. /\ new \in Entry /\ new.session = s /\ new # None
      /\ \A x : Issued(x) => x.expires <= new.expires
      /\ Issued(new)
  <2>1. accounts[u] \in Entry /\ now \in Nat /\ life \in Nat /\ MaxRotations \in Nat
    BY <1>1, LoadAssumption DEF LoadAssumption, Inv, Good, Shape
  <2>2. new \in Entry
    BY <1>2, <1>3, <2>1 DEF Entry
  <2>3. new.expires = now + life
    BY <1>2
  <2>4. \A l \in Lifetimes : l = life
    BY DEF Premises
  <2>5. \A x : Issued(x) => x.expires <= new.expires
    BY <2>3 DEF Issued
  <2>6. ASSUME NEW l \in Lifetimes PROVE new.expires <= now + l
    <3>1. l = life /\ now + life \in Nat
      BY <2>1, <2>4
    <3> QED BY <2>3, <3>1
  <2>7. new # None /\ new.session = s
    BY <1>2, <2>2, LoadAssumption DEF LoadAssumption
  <2> QED BY <2>2, <2>5, <2>6, <2>7 DEF Issued
<1>6. /\ last'[s] = new.pair /\ last'[s] >= 0
      /\ \A r \in Sessions \ {s} : last'[r] = last[r] /\ (r \in lost' <=> r \in lost)
      /\ last' \in [Sessions -> Int]
  <2>1. new.pair \in Int /\ new.pair >= 0
    BY <1>5, LoadAssumption DEF LoadAssumption, Entry
  <2>2. last \in [Sessions -> Int]
    BY DEF Inv, Shape
  <2> QED BY <1>3, <1>4, <2>1, <2>2
<1>7. \A v \in Users \ {u} : accounts'[v] = accounts[v]
  BY <1>3 DEF Inv, Shape
<1>8. accounts'[u] = new
  BY <1>3 DEF Inv, Shape
<1>9. AuthFiles'
  BY <1>3, <1>6 DEF Inv, AuthFiles, Issued, Entry
<1>10. ASSUME NEW v \in Users \ {u}, NEW x, Good(v, x) PROVE Good(v, x)'
  <2>1. x # None => x.session \in Sessions \ {s}
    BY <1>1, <1>10 DEF Good, Entry
  <2> QED BY <1>3, <1>6, <1>10, <2>1 DEF Good, Issued
<1>11. Good(u, new)'
  BY <1>1, <1>3, <1>5, <1>6 DEF Good, Issued, Inv, AuthFiles
<1>12. \A v \in Users : Good(v, accounts[v])'
  <2>1. ASSUME NEW v \in Users \ {u} PROVE Good(v, accounts[v])'
    <3>1. Good(v, accounts[v])
      BY DEF Inv
    <3>2. accounts[v] # None => accounts[v].session \in Sessions \ {s}
      BY <1>1, <3>1 DEF Good, Entry
    <3> QED BY <1>3, <1>6, <1>7, <3>1, <3>2 DEF Good, Issued
  <2>2. Good(u, accounts[u])'
    BY <1>8, <1>11 DEF Good, Issued
  <2> QED BY <2>1, <2>2
<1>13. CASE saved' = accounts' /\ readable' = TRUE
  <2>1. \A v \in Users : Good(v, saved[v])'
    BY <1>12, <1>13 DEF Good, Issued
  <2>2. \A v \in Users : accounts'[v] # None => accounts'[v].expires \in Nat
    BY <1>12 DEF Good, Entry
  <2>3. MemoryAhead'
    BY <1>3, <1>13, <2>2 DEF MemoryAhead
  <2>4. Superseded'
    <3> SUFFICES ASSUME NEW f \in DOMAIN Files, NEW e \in auth[f],
                        last'[e.session] > 0, e.session \notin lost'
                 PROVE  /\ accounts'[Owner[e.session]] # None
                        /\ e.expires <= accounts'[Owner[e.session]].expires
      BY <1>3, <1>13 DEF Superseded
    <3>1. PICK v \in Users : v = Owner[e.session]
      BY LoadAssumption DEF LoadAssumption, Inv, AuthFiles, Entry
    <3>2. CASE v = u
      <4>1. Issued(e)
        BY DEF Inv, AuthFiles
      <4> QED BY <1>5, <1>8, <3>1, <3>2, <4>1
    <3>3. CASE v # u
      <4>1. e.session \in Sessions /\ last[e.session] > 0 /\ e.session \notin lost
        BY <1>1, <1>6, <3>1, <3>3 DEF Inv, AuthFiles, Entry
      <4>5. readable
        BY <4>1 DEF Inv, Unreadable
      <4>2. saved[v] # None /\ e.expires <= saved[v].expires
        BY <3>1, <4>1 DEF Inv, Superseded
      <4>3. accounts[v] # None /\ saved[v].expires <= accounts[v].expires
        BY <1>3, <4>2, <4>5 DEF Inv, MemoryAhead
      <4>4. {e.expires, saved[v].expires, accounts[v].expires} \subseteq Nat
        BY <4>2, <4>3 DEF Inv, AuthFiles, Good, Entry
      <4> QED BY <1>7, <3>1, <3>3, <4>2, <4>3, <4>4
    <3> QED BY <3>2, <3>3
  <2> QED
    BY <1>3, <1>6, <1>9, <1>12, <1>13, <2>1, <2>3, <2>4 DEF Inv, Shape, Unreadable
<1>14. CASE lost' = lost \cup {s} /\ UNCHANGED <<saved, readable>>
  <2>1. saved[u] # None /\ saved[u].session = s
    BY <1>1, <1>3 DEF Inv, MemoryAhead
  <2>2. \A v \in Users : Good(v, saved[v])'
    <3>1. ASSUME NEW v \in Users \ {u} PROVE Good(v, saved[v])'
      <4>1. Good(v, saved[v])
        BY DEF Inv
      <4> QED BY <1>1, <1>3, <1>6, <1>14, <4>1 DEF Good, Issued, Entry
    <3>2. Good(u, saved[u])'
      <4>1. Good(u, saved[u])
        BY DEF Inv
      <4> QED BY <1>3, <1>6, <1>14, <2>1, <4>1 DEF Good, Issued
    <3> QED BY <3>1, <3>2
  <2>3. saved[u].expires <= new.expires
    BY <1>5, <2>1 DEF Inv, Good
  <2>4. MemoryAhead'
    <3>1. ASSUME NEW v \in Users, saved[v] # None, readable
          PROVE  accounts'[v] # None /\ saved[v].expires <= accounts'[v].expires
      BY <1>3, <1>5, <1>7, <1>8, <2>3, <3>1 DEF Inv, MemoryAhead
    <3>2. ASSUME NEW v \in Users, accounts'[v] # None
          PROVE  saved[v] # None /\ saved[v].session = accounts'[v].session
      BY <1>3, <1>5, <1>7, <1>8, <2>1, <3>2 DEF Inv, MemoryAhead
    <3> QED BY <1>14, <3>1, <3>2 DEF MemoryAhead
  <2>5. Superseded'
    <3> SUFFICES ASSUME NEW f \in DOMAIN Files, NEW e \in auth[f],
                        last'[e.session] > 0, e.session \notin lost'
                 PROVE  /\ saved[Owner[e.session]] # None
                        /\ e.expires <= saved[Owner[e.session]].expires
      BY <1>3, <1>14 DEF Superseded
    <3>1. CASE e.session = s
      BY <1>14, <3>1
    <3>2. CASE e.session # s
      BY <1>6, <3>2 DEF Inv, Superseded, AuthFiles, Entry
    <3> QED BY <3>1, <3>2
  <2>6. Unreadable'
    BY <1>6, <1>14 DEF Inv, Unreadable
  <2> QED
    BY <1>3, <1>6, <1>9, <1>12, <1>14, <2>2, <2>4, <2>5, <2>6 DEF Inv, Shape
<1> QED BY <1>4, <1>13, <1>14

LEMMA InvStep == ASSUME Premises, Inv, [Next]_vars PROVE Inv'
<1>1. CASE BeginLoad
  BY <1>1, BeginLoadStep
<1>2. CASE ReadAuth
  BY <1>2, ReadAuthStep
<1>3. CASE LoadFails \/ Stop
  BY <1>3, ForgetStep DEF LoadFails, Stop
<1>4. CASE LoadEnds
  BY <1>4, LoadEndsStep
<1>5. ASSUME NEW life \in Lifetimes, NEW u \in Users, Refresh(u, life) PROVE Inv'
  BY <1>5, RefreshStep
<1>6. ASSUME NEW life \in Lifetimes, NEW f \in DOMAIN Files, NEW s \in Sessions,
             Login(f, s, life)
      PROVE  Inv'
  BY <1>6, LoginStep
<1>7. CASE StateBreaks
  BY <1>7
  DEF StateBreaks, Inv, Shape, AuthFiles, Superseded, Unreadable, MemoryAhead, Good, Issued
<1>8. CASE Tick
  BY <1>8, TickStep
<1>9. CASE UNCHANGED vars
  BY <1>9
  DEF vars, Inv, Shape, AuthFiles, Superseded, Unreadable, MemoryAhead, Good, Issued
<1> QED
  BY <1>1, <1>2, <1>3, <1>4, <1>5, <1>6, <1>7, <1>8, <1>9 DEF Next

\* The comment at store.go:252-253, for any users, logins, files and number of
\* refreshes and restarts: a process that is up holds the last pair of each of
\* its sessions, save those whose last pair could not be saved.
THEOREM NoRollbackCorrect == ASSUME Premises PROVE Spec => []NoRollback
<1>1. Init => Inv
  BY InvInit
<1>2. Inv /\ [Next]_vars => Inv'
  BY InvStep
<1>3. Inv => NoRollback
  BY DEF Inv, Good, NoRollback
<1> QED BY <1>1, <1>2, <1>3, PTL DEF Spec

\* Memory holds every account of the state file it is being loaded from.
Kept ==
  /\ now \in Nat /\ next \in Nat \ {0}
  /\ DOMAIN saved = Users /\ DOMAIN accounts = Users /\ DOMAIN auth = DOMAIN Files
  /\ \A f \in DOMAIN Files : auth[f] \subseteq Entry
  /\ phase = "loading" /\ readable =>
       \A u \in Users : saved[u] # None => accounts[u] # None

LEMMA KeptStep == ASSUME Kept, [Next]_vars PROVE Kept'
<1>1. CASE ReadAuth
  <2>1. /\ UNCHANGED <<now, last, auth, saved, readable, phase>> /\ next \in DOMAIN Files
        /\ \/ UNCHANGED accounts
           \/ \E item \in Parse(auth[next]) :
                accounts' = [accounts EXCEPT ![item.id] = Merge(@, item.entry)]
    BY <1>1, LoadAssumption DEF LoadAssumption, ReadAuth, Kept
  <2>2. next' \in Nat \ {0}
    BY <1>1 DEF ReadAuth, Kept
  <2> QED
    BY <2>1, <2>2, LoadAssumption DEF LoadAssumption, Kept, Parse, Merge
<1>2. ASSUME NEW life \in Lifetimes, NEW f \in DOMAIN Files, NEW s \in Sessions,
             Login(f, s, life)
      PROVE  Kept'
  <2>1. [session |-> s, pair |-> 0, expires |-> now + life] \in Entry
    BY LoadAssumption DEF LoadAssumption, Kept, Entry
  <2>2. /\ UNCHANGED <<now, saved, readable, accounts, phase, next>>
        /\ DOMAIN auth' = DOMAIN auth
        /\ \A g \in DOMAIN Files \ {f} : auth'[g] = auth[g]
        /\ auth'[f] \subseteq auth[f] \cup
             {[session |-> s, pair |-> 0, expires |-> now + life]}
    BY <1>2 DEF Login, Kept
  <2>3. \A g \in DOMAIN Files : auth'[g] \subseteq Entry
    BY <2>1, <2>2 DEF Kept
  <2> QED BY <2>2, <2>3 DEF Kept
<1>3. CASE BeginLoad
  BY <1>3 DEF BeginLoad, Kept, NoAccounts
<1>4. CASE LoadFails \/ LoadEnds \/ Stop \/ StateBreaks \/ Tick \/ UNCHANGED vars
  BY <1>4 DEF LoadFails, LoadEnds, Stop, StateBreaks, Tick, vars, Kept, NoAccounts
<1>5. ASSUME NEW life \in Lifetimes, NEW u \in Users, Refresh(u, life) PROVE Kept'
  BY <1>5 DEF Refresh, Kept
<1> QED BY <1>1, <1>2, <1>3, <1>4, <1>5 DEF Next

\* Without any premise, a start that succeeds keeps every account of a state
\* file it could read (store.go:83-101 only adds and replaces accounts).
THEOREM SavedAccountsKeptCorrect == Spec => SavedAccountsKept
<1>1. Init => Kept
  BY DEF Init, Kept, NoAccounts
<1>2. Kept /\ [Next]_vars => Kept'
  BY KeptStep
<1>3. Kept /\ [Next]_vars =>
        [phase = "loading" /\ phase' = "up" /\ readable =>
           \A u \in Users : saved[u] # None => accounts'[u] # None]_vars
  <2> SUFFICES ASSUME Kept, [Next]_vars, phase = "loading", phase' = "up", readable
               PROVE  \A u \in Users : saved[u] # None => accounts'[u] # None
    OBVIOUS
  <2>1. LoadEnds
    BY DEF Next, vars, BeginLoad, ReadAuth, LoadFails, Refresh, Login, Stop,
           StateBreaks, Tick
  <2> QED BY <2>1 DEF LoadEnds, Kept
<1> QED BY <1>1, <1>2, <1>3, PTL DEF Spec, SavedAccountsKept
-----------------------------------------------------------------------------
\* The functions of the state are as large as Init makes them.
Domains ==
  /\ DOMAIN auth = DOMAIN Files
  /\ DOMAIN saved = Users /\ DOMAIN accounts = Users

LEMMA NewPair ==
  ASSUME TypeOK, NEW s \in Sessions, NEW p \in 0 .. MaxRotations, NEW life \in Lifetimes
  PROVE  [session |-> s, pair |-> p, expires |-> now + life] \in Entry
BY LoadAssumption DEF LoadAssumption, TypeOK, Entry

LEMMA TypeStep ==
  ASSUME TypeOK, Domains, [Next]_vars PROVE TypeOK' /\ Domains'
<1> USE LoadAssumption DEF LoadAssumption
<1>1. CASE BeginLoad
  BY <1>1 DEF BeginLoad, TypeOK, Domains, NoAccounts
<1>2. CASE ReadAuth
  <2>1. /\ UNCHANGED <<now, last, auth, saved, readable, phase, faults, lost>>
        /\ next \in DOMAIN Files /\ next' = next + 1 /\ phase = "loading"
        /\ \/ UNCHANGED accounts
           \/ \E item \in Parse(auth[next]) :
                accounts' = [accounts EXCEPT ![item.id] = Merge(@, item.entry)]
    BY <1>2 DEF ReadAuth, TypeOK
  <2>2. DOMAIN accounts' = Users
        /\ \A u \in Users : accounts'[u] \in Entry \cup {None}
    BY <2>1 DEF TypeOK, Domains, Parse, Merge
  <2> QED BY <2>1, <2>2 DEF TypeOK, Domains
<1>3. CASE LoadFails \/ Stop
  BY <1>3 DEF LoadFails, Stop, TypeOK, Domains, NoAccounts
<1>4. CASE LoadEnds
  BY <1>4 DEF LoadEnds, TypeOK, Domains, NoAccounts
<1>5. ASSUME NEW life \in Lifetimes, NEW u \in Users, Refresh(u, life)
      PROVE  TypeOK' /\ Domains'
  <2> DEFINE old == accounts[u]
             new == [session |-> old.session, pair |-> old.pair + 1,
                     expires |-> now + life]
  <2>1. old \in Entry /\ old.pair < MaxRotations
    BY <1>5 DEF Refresh, TypeOK
  <2>2. old.session \in Sessions /\ old.pair + 1 \in 0 .. MaxRotations
    BY <2>1 DEF Entry
  <2>3. new \in Entry
    BY <2>2, NewPair
  <2>4. /\ last' = [last EXCEPT ![old.session] = old.pair + 1]
        /\ accounts' = [accounts EXCEPT ![u] = new]
        /\ saved' = accounts' \/ saved' = saved
        /\ readable' \in BOOLEAN
        /\ lost' \subseteq lost \cup {old.session}
        /\ phase = "up"
        /\ UNCHANGED <<now, auth, phase, next, faults>>
    BY <1>5 DEF Refresh, TypeOK
  <2> HIDE DEF new, old
  <2>5. accounts'[u] # None
    BY <2>3, <2>4 DEF Domains
  <2>6. accounts' # NoAccounts
    BY <2>5 DEF NoAccounts
  <2>7. last' \in [Sessions -> -1 .. MaxRotations]
    BY <2>2, <2>4 DEF TypeOK
  <2>8. /\ DOMAIN accounts' = Users
        /\ \A v \in Users : accounts'[v] \in Entry \cup {None}
    BY <2>3, <2>4 DEF TypeOK, Domains
  <2>9. /\ DOMAIN saved' = Users
        /\ \A v \in Users : saved'[v] \in Entry \cup {None}
    BY <2>4, <2>8 DEF TypeOK, Domains
  <2> QED
    BY <2>2, <2>4, <2>6, <2>7, <2>8, <2>9 DEF TypeOK, Domains
<1>6. ASSUME NEW life \in Lifetimes, NEW f \in DOMAIN Files, NEW s \in Sessions,
             Login(f, s, life)
      PROVE  TypeOK' /\ Domains'
  <2>1. [session |-> s, pair |-> 0, expires |-> now + life] \in Entry
    BY NewPair
  <2>2. /\ UNCHANGED <<now, saved, readable, accounts, phase, next, faults, lost>>
        /\ last' = [last EXCEPT ![s] = 0]
        /\ DOMAIN auth' = DOMAIN auth
        /\ \A g \in DOMAIN Files \ {f} : auth'[g] = auth[g]
        /\ auth'[f] \subseteq auth[f] \cup
             {[session |-> s, pair |-> 0, expires |-> now + life]}
    BY <1>6 DEF Login, Domains
  <2>3. \A g \in DOMAIN Files : auth'[g] \subseteq Entry
    BY <2>1, <2>2 DEF TypeOK
  <2>4. last' \in [Sessions -> -1 .. MaxRotations]
    BY <2>2 DEF TypeOK
  <2> QED BY <2>2, <2>3, <2>4 DEF TypeOK, Domains
<1>7. CASE StateBreaks
  <2>1. lost' \subseteq Sessions /\ faults' \in 0 .. MaxFaults
    BY <1>7 DEF StateBreaks, TypeOK
  <2>2. UNCHANGED <<now, last, auth, saved, accounts, phase, next>> /\ readable' = FALSE
    BY <1>7 DEF StateBreaks
  <2> QED BY <2>1, <2>2 DEF TypeOK, Domains
<1>8. CASE Tick
  BY <1>8 DEF Tick, TypeOK, Domains
<1>9. CASE UNCHANGED vars
  BY <1>9 DEF vars, TypeOK, Domains
<1> QED
  BY <1>1, <1>2, <1>3, <1>4, <1>5, <1>6, <1>7, <1>8, <1>9 DEF Next

LEMMA Types == Spec => [](TypeOK /\ Domains)
<1>1. Init => TypeOK /\ Domains
  BY LoadAssumption DEF LoadAssumption, Init, TypeOK, Domains, NoAccounts
<1> QED BY <1>1, TypeStep, PTL DEF Spec

\* Types of the state: what a refresh puts in memory is an entry the server
\* may have issued, and a process is up only after it has read every file
\* (store.go:96-110) and found an account.
THEOREM TypesCorrect == Spec => []TypeOK
BY Types, PTL
-----------------------------------------------------------------------------
\* A file holds the entry of the last login into it.
OneEntry == \A f \in DOMAIN Files : \A d, e \in auth[f] : d = e

\* What Load has read so far has lost to nothing that expires more than a
\* minute earlier.
ReadSoFar ==
  phase = "loading" =>
    \A f \in DOMAIN Files : f < next =>
      \A e \in auth[f] :
        /\ accounts[Owner[e.session]] # None
        /\ accounts[Owner[e.session]].expires + 1 >= e.expires

LEMMA SupersedeStep ==
  ASSUME ~SharedFiles, TypeOK, TypeOK', Domains, OneEntry, ReadSoFar, [Next]_vars
  PROVE  OneEntry' /\ ReadSoFar'
<1> USE LoadAssumption DEF LoadAssumption
<1>1. CASE ReadAuth
  <2>1. OneEntry'
    BY <1>1 DEF ReadAuth, OneEntry
  <2>2. /\ UNCHANGED <<auth, phase>>
        /\ next \in DOMAIN Files /\ next' = next + 1
    BY <1>1 DEF ReadAuth, TypeOK
  <2>3. \A u \in Users : accounts[u] # None =>
          /\ accounts'[u] # None
          /\ accounts'[u].expires >= accounts[u].expires
    <3> SUFFICES ASSUME NEW u \in Users, accounts[u] # None
                 PROVE  /\ accounts'[u] # None
                        /\ accounts'[u].expires >= accounts[u].expires
      OBVIOUS
    <3>1. accounts[u] \in Entry
      BY DEF TypeOK
    <3>2. CASE UNCHANGED accounts
      BY <3>1, <3>2 DEF Entry
    <3>3. CASE \E item \in Parse(auth[next]) :
                 accounts' = [accounts EXCEPT ![item.id] = Merge(@, item.entry)]
      <4>1. PICK item \in Parse(auth[next]) :
              accounts' = [accounts EXCEPT ![item.id] = Merge(@, item.entry)]
        BY <3>3
      <4>2. item.entry \in Entry
        BY <2>2 DEF Parse, TypeOK
      <4>3. \/ accounts'[u] = accounts[u]
            \/ /\ accounts'[u] = item.entry
               /\ item.entry.expires > accounts[u].expires + 1
        <5>1. CASE item.id = u
          <6>1. accounts'[u] = Merge(accounts[u], item.entry)
            BY <4>1, <5>1 DEF Domains
          <6> QED BY <6>1 DEF Merge
        <5>2. CASE item.id # u
          BY <4>1, <5>2 DEF Domains
        <5> QED BY <5>1, <5>2
      <4> QED BY <3>1, <4>2, <4>3 DEF Entry
    <3> QED BY <1>1, <3>2, <3>3 DEF ReadAuth
  <2>4. ASSUME NEW e \in auth[next]
        PROVE  /\ accounts'[Owner[e.session]] # None
               /\ accounts'[Owner[e.session]].expires + 1 >= e.expires
    <3>1. e \in Entry /\ Owner[e.session] \in Users
      BY <2>2 DEF TypeOK, Entry
    <3>2. \A d \in auth[next] : d = e
      BY <2>2 DEF OneEntry
    <3>3. accounts'[Owner[e.session]] = Merge(accounts[Owner[e.session]], e)
      <4>1. \A item \in Parse(auth[next]) : item.id = Owner[e.session] /\ item.entry = e
        BY <3>2 DEF Parse
      <4>2. PICK item \in Parse(auth[next]) :
              accounts' = [accounts EXCEPT ![item.id] = Merge(@, item.entry)]
        BY <1>1, <2>4 DEF ReadAuth
      <4>3. item.id = Owner[e.session] /\ item.entry = e
        BY <4>1
      <4>4. accounts'[item.id] = Merge(accounts[item.id], item.entry)
        BY <3>1, <4>2, <4>3 DEF Domains
      <4> QED BY <4>3, <4>4
    <3>4. accounts[Owner[e.session]] \in Entry \cup {None}
      BY <3>1 DEF TypeOK
    <3>5. CASE \/ accounts[Owner[e.session]] = None
               \/ e.expires > accounts[Owner[e.session]].expires + 1
      <4>1. accounts'[Owner[e.session]] = e
        BY <3>3, <3>5 DEF Merge
      <4>2. e # None /\ e.expires \in Nat
        BY <3>1 DEF Entry
      <4> QED BY <4>1, <4>2
    <3>6. CASE /\ accounts[Owner[e.session]] # None
               /\ ~(e.expires > accounts[Owner[e.session]].expires + 1)
      <4>1. accounts'[Owner[e.session]] = accounts[Owner[e.session]]
        BY <3>3, <3>6 DEF Merge
      <4>2. /\ accounts[Owner[e.session]].expires \in Nat
            /\ e.expires \in Nat
        BY <3>1, <3>4, <3>6 DEF Entry
      <4> QED BY <3>6, <4>1, <4>2
    <3> QED BY <3>5, <3>6
  <2>5. ASSUME NEW f \in DOMAIN Files, f < next, NEW e \in auth[f], phase = "loading"
        PROVE  /\ accounts'[Owner[e.session]] # None
               /\ accounts'[Owner[e.session]].expires + 1 >= e.expires
    <3>1. e \in Entry /\ Owner[e.session] \in Users
      BY DEF TypeOK, Entry
    <3>2. /\ accounts[Owner[e.session]] # None
          /\ accounts[Owner[e.session]].expires + 1 >= e.expires
      BY <2>5 DEF ReadSoFar
    <3>3. /\ accounts[Owner[e.session]] \in Entry
          /\ accounts'[Owner[e.session]] \in Entry
      BY <2>3, <3>1, <3>2 DEF TypeOK
    <3> QED BY <2>3, <3>1, <3>2, <3>3 DEF Entry
  <2>6. \A f \in DOMAIN Files : f < next' => f < next \/ f = next
    BY <2>2 DEF TypeOK
  <2>7. ReadSoFar'
    BY <2>2, <2>4, <2>5, <2>6 DEF ReadSoFar
  <2> QED BY <2>1, <2>7
<1>2. CASE BeginLoad
  BY <1>2 DEF BeginLoad, OneEntry, ReadSoFar
<1>3. ASSUME NEW life \in Lifetimes, NEW f \in DOMAIN Files, NEW s \in Sessions,
             Login(f, s, life)
      PROVE  OneEntry' /\ ReadSoFar'
  <2>1. /\ \A g \in DOMAIN Files \ {f} : auth'[g] = auth[g]
        /\ auth'[f] = {[session |-> s, pair |-> 0, expires |-> now + life]}
        /\ phase' # "loading"
    BY <1>3 DEF Login, Domains
  <2> QED BY <2>1 DEF OneEntry, ReadSoFar
<1>4. ASSUME NEW life \in Lifetimes, NEW u \in Users, Refresh(u, life)
      PROVE  OneEntry' /\ ReadSoFar'
  BY <1>4 DEF Refresh, OneEntry, ReadSoFar
<1>5. CASE LoadFails \/ LoadEnds \/ Stop
  BY <1>5 DEF LoadFails, LoadEnds, Stop, OneEntry, ReadSoFar
<1>6. CASE StateBreaks \/ Tick \/ UNCHANGED vars
  BY <1>6 DEF StateBreaks, Tick, vars, OneEntry, ReadSoFar
<1> QED BY <1>1, <1>2, <1>3, <1>4, <1>5, <1>6 DEF Next

\* If every file holds one session, no order of the files and no margin of a
\* minute in the comparison (store.go:251) makes a start keep a pair that
\* expires more than that minute before one an auth file has.
THEOREM NewLoginSupersedesCorrect ==
  ASSUME ~SharedFiles PROVE Spec => NewLoginSupersedes
<1>1. Init => OneEntry /\ ReadSoFar
  BY DEF Init, OneEntry, ReadSoFar
<1>2. /\ TypeOK /\ TypeOK' /\ Domains /\ OneEntry /\ ReadSoFar /\ [Next]_vars
      => OneEntry' /\ ReadSoFar'
  BY SupersedeStep
<1>3. TypeOK /\ ReadSoFar /\ [Next]_vars =>
        [phase = "loading" /\ phase' = "up" =>
           \A f \in DOMAIN Files : \A e \in auth[f] :
             /\ accounts'[Owner[e.session]] # None
             /\ accounts'[Owner[e.session]].expires + 1 >= e.expires]_vars
  <2> SUFFICES ASSUME TypeOK, ReadSoFar, [Next]_vars, phase = "loading", phase' = "up"
               PROVE  \A f \in DOMAIN Files : \A e \in auth[f] :
                        /\ accounts'[Owner[e.session]] # None
                        /\ accounts'[Owner[e.session]].expires + 1 >= e.expires
    OBVIOUS
  <2>1. LoadEnds
    BY DEF Next, vars, BeginLoad, ReadAuth, LoadFails, Refresh, Login, Stop,
           StateBreaks, Tick
  <2>2. \A f \in DOMAIN Files : f < next
    BY <2>1, LoadAssumption DEF LoadAssumption, LoadEnds, TypeOK
  <2> QED BY <2>1, <2>2 DEF LoadEnds, ReadSoFar
<1> QED BY <1>1, <1>2, <1>3, Types, PTL DEF Spec, NewLoginSupersedes
=============================================================================
