-------------------------- MODULE TokenStore_proofs -------------------------
(***************************************************************************)
(* Proofs about TokenStore, for every set of accounts and goroutines and   *)
(* any number of grants and restarts.                                      *)
(***************************************************************************)
EXTENDS TokenStore, TLAPS

\* Where a goroutine holds the mutex of its account.
Critical == {"present", "granted", "assign"}

\* Who holds a mutex, and what save has copied where it is.
Locks ==
  /\ amu \in [Accounts -> Goroutines \cup {Nobody}]
  /\ \A g \in Goroutines :
       /\ pc[g] # "idle" => acct[g] \in Accounts
       /\ pc[g] \in Critical => amu[acct[g]] = g
       /\ \A a \in Accounts : amu[a] = g => acct[g] = a /\ pc[g] \in Critical
       /\ \A a \in Accounts :
            /\ pc[g] = "write" => snap[g][a] # NoClone
            /\ pc[g] \notin {"clone", "write"} => snap[g][a] = NoClone

Safe == TypeOK /\ Locks

\* The steps of one goroutine, one by one.
Steps(g) ==
  \/ \E a \in Accounts, entry \in {"token", "account", "store"}, force \in BOOLEAN :
       Call(g, a, entry, force)
  \/ AccountCall(g) \/ StoreCall(g) \/ UseCached(g) \/ Present(g)
  \/ ExchangeFails(g) \/ Grant(g) \/ ReplyLost(g)
  \/ AssignAccess(g) \/ AssignRest(g)
  \/ SaveBegins(g) \/ (\E a \in Accounts : Clone(g, a)) \/ CloneEnds(g)
  \/ WriteFails(g) \/ Rename(g)

LEMMA StepCases ==
  ASSUME [Next]_vars
  PROVE  \/ \E g \in Goroutines : Steps(g)
         \/ \E a \in Accounts : Age(a)
         \/ Crash
         \/ UNCHANGED vars
BY StoreAssumption
DEF StoreAssumption, Next, Steps, TakeAccount, TakeStore, CloneSome, Proceed

LEMMA FirstIsPair == First \in Pair
BY StoreAssumption DEF StoreAssumption, First, Pair

\* What the assignments of AccessToken do to the pair in memory.
LEMMA Assigned ==
  ASSUME NEW f \in [Accounts -> Pair], NEW a \in Accounts, NEW n \in 0 .. MaxGrants, NEW h
  PROVE  /\ h = [f EXCEPT ![a].access = n] =>
              /\ h \in [Accounts -> Pair]
              /\ h[a] = [access |-> n, refresh |-> f[a].refresh]
              /\ \A b \in Accounts \ {a} : h[b] = f[b]
         /\ h = [f EXCEPT ![a].refresh = n] =>
              /\ h \in [Accounts -> Pair]
              /\ h[a] = [access |-> f[a].access, refresh |-> n]
              /\ \A b \in Accounts \ {a} : h[b] = f[b]
BY DEF Pair

LEMMA SafeInit == Init => Safe
BY StoreAssumption, FirstIsPair
DEF StoreAssumption, Init, Safe, TypeOK, Locks, NoSnap, Critical

LEMMA SafeStep == ASSUME Safe, [Next]_vars PROVE Safe'
<1> USE FirstIsPair DEF Safe, TypeOK, Locks, Critical, Goto, Leave
<1>1. ASSUME NEW g \in Goroutines, NEW a \in Accounts,
             NEW entry \in {"token", "account", "store"}, NEW force \in BOOLEAN,
             Call(g, a, entry, force)
      PROVE  Safe'
  <2>1. \A b \in Accounts : amu[b] # g
    BY <1>1 DEF Call, Idle
  <2>2. Locks'
    BY <1>1, <2>1 DEF Call, Idle
  <2>3. TypeOK'
    BY <1>1, <2>1 DEF Call, Idle
  <2> QED BY <2>2, <2>3
<1>2. ASSUME NEW g \in Goroutines, AccountCall(g) \/ StoreCall(g) PROVE Safe'
  <2>1. \A b \in Accounts : amu[b] # g
    BY <1>2 DEF AccountCall, StoreCall
  <2>2. /\ pc' = [pc EXCEPT ![g] = "idle"] /\ acct' = [acct EXCEPT ![g] = NoAccount]
        /\ pc[g] \in {"account", "store"}
        /\ resp' = [resp EXCEPT ![g] = First]
        /\ UNCHANGED <<server, mem, fresh, file, amu, smu, forced, snap, crashes,
                       granted, saved, excused>>
    BY <1>2 DEF AccountCall, StoreCall
  <2>3. Locks'
    BY <2>1, <2>2
  <2>4. TypeOK'
    BY <2>1, <2>2
  <2> QED BY <2>3, <2>4
<1>3. ASSUME NEW g \in Goroutines, UseCached(g) PROVE Safe'
  BY <1>3, StoreAssumption DEF StoreAssumption, UseCached
<1>4. ASSUME NEW g \in Goroutines, Present(g) PROVE Safe'
  BY <1>4, StoreAssumption DEF StoreAssumption, Present, Lock
<1>5. ASSUME NEW g \in Goroutines, ExchangeFails(g) PROVE Safe'
  BY <1>5, StoreAssumption DEF StoreAssumption, ExchangeFails, Unlock
<1>6. ASSUME NEW g \in Goroutines, Grant(g) PROVE Safe'
  BY <1>6, StoreAssumption DEF StoreAssumption, Grant, Pair
<1>7. ASSUME NEW g \in Goroutines, ReplyLost(g) PROVE Safe'
  <2>1. excused' \in [Accounts -> SUBSET Causes]
    BY <1>7 DEF ReplyLost, Causes
  <2> QED BY <1>7, <2>1, StoreAssumption DEF StoreAssumption, ReplyLost, Unlock
<1>8. ASSUME NEW g \in Goroutines, AssignAccess(g) PROVE Safe'
  <2>1. mem' \in [Accounts -> Pair]
    <3>1. acct[g] \in Accounts /\ resp[g].access \in 0 .. MaxGrants
      BY <1>8 DEF AssignAccess, Pair
    <3>2. mem' = [mem EXCEPT ![acct[g]].access = resp[g].access] /\ mem \in [Accounts -> Pair]
      BY <1>8 DEF AssignAccess
    <3> HIDE DEF Safe, TypeOK, Locks, Goto, Leave
    <3> QED BY <3>1, <3>2, Assigned
  <2>2. Locks'
    BY <1>8 DEF AssignAccess
  <2> QED BY <1>8, <2>1, <2>2 DEF AssignAccess
<1>9. ASSUME NEW g \in Goroutines, AssignRest(g) PROVE Safe'
  <2>1. mem' \in [Accounts -> Pair]
    <3>1. acct[g] \in Accounts /\ resp[g].refresh \in 0 .. MaxGrants
      BY <1>9 DEF AssignRest, Pair
    <3>2. mem' = [mem EXCEPT ![acct[g]].refresh = resp[g].refresh] /\ mem \in [Accounts -> Pair]
      BY <1>9 DEF AssignRest
    <3> HIDE DEF Safe, TypeOK, Locks, Goto, Leave
    <3> QED BY <3>1, <3>2, Assigned
  <2>2. Locks'
    BY <1>9, StoreAssumption DEF StoreAssumption, AssignRest, Unlock
  <2> QED BY <1>9, <2>1, <2>2 DEF AssignRest, Unlock
<1>10. ASSUME NEW g \in Goroutines, SaveBegins(g) PROVE Safe'
  BY <1>10, StoreAssumption DEF StoreAssumption, SaveBegins
<1>11. ASSUME NEW g \in Goroutines, NEW a \in Accounts, Clone(g, a) PROVE Safe'
  BY <1>11, StoreAssumption DEF StoreAssumption, Clone
<1>12. ASSUME NEW g \in Goroutines, CloneEnds(g) PROVE Safe'
  BY <1>12, StoreAssumption DEF StoreAssumption, CloneEnds
<1>13. ASSUME NEW g \in Goroutines, WriteFails(g) PROVE Safe'
  <2>1. \A b \in Accounts : amu[b] # g
    BY <1>13 DEF WriteFails
  <2>2. /\ snap' \in [Goroutines -> [Accounts -> Pair \cup {NoClone}]]
        /\ excused' \in [Accounts -> SUBSET Causes]
    BY <1>13 DEF WriteFails, NoSnap, Causes
  <2>3. Locks'
    BY <1>13, <2>1 DEF WriteFails, NoSnap
  <2> QED BY <1>13, <2>1, <2>2, <2>3 DEF WriteFails
<1>14. ASSUME NEW g \in Goroutines, Rename(g) PROVE Safe'
  <2>1. \A b \in Accounts : amu[b] # g
    BY <1>14 DEF Rename
  <2>2. /\ snap' \in [Goroutines -> [Accounts -> Pair \cup {NoClone}]]
        /\ snap' = [snap EXCEPT ![g] = NoSnap]
    BY <1>14 DEF Rename, NoSnap
  <2>3. /\ pc' = [pc EXCEPT ![g] = "refreshed"] /\ UNCHANGED <<acct, resp>>
        \/ /\ pc' = [pc EXCEPT ![g] = "idle"]
           /\ acct' = [acct EXCEPT ![g] = NoAccount]
           /\ resp' = [resp EXCEPT ![g] = First]
    BY <1>14 DEF Rename
  <2>4. pc[g] = "write" /\ UNCHANGED <<server, mem, fresh, amu, smu, forced,
                                      crashes, granted, excused>>
    BY <1>14 DEF Rename
  <2>5. file' \in [Accounts -> Pair]
    BY <1>14 DEF Rename
  <2>6. saved' \in [Accounts -> 0 .. MaxGrants]
    BY <1>14, <2>5 DEF Rename, Pair
  <2>7. Locks'
    BY <2>1, <2>2, <2>3, <2>4 DEF NoSnap
  <2>8. TypeOK'
    <3>1. \A a \in Accounts : amu'[a] \in {Nobody} \cup {h \in Goroutines : acct'[h] = a}
      BY <2>1, <2>3, <2>4
    <3>2. /\ pc' \in [Goroutines -> {"idle", "cached", "refreshed", "account", "store",
                                     "token", "present", "granted", "assign", "save",
                                     "clone", "write"}]
          /\ acct' \in [Goroutines -> Accounts \cup {NoAccount}]
          /\ resp' \in [Goroutines -> Pair]
      <4>1. CASE pc' = [pc EXCEPT ![g] = "refreshed"] /\ UNCHANGED <<acct, resp>>
        BY <4>1
      <4>2. CASE /\ pc' = [pc EXCEPT ![g] = "idle"]
                 /\ acct' = [acct EXCEPT ![g] = NoAccount]
                 /\ resp' = [resp EXCEPT ![g] = First]
        BY <4>2
      <4> QED BY <2>3, <4>1, <4>2
    <3> QED BY <2>2, <2>4, <2>5, <2>6, <3>1, <3>2
  <2> QED BY <2>7, <2>8
<1>15. ASSUME NEW a \in Accounts, Age(a) PROVE Safe'
  BY <1>15 DEF Age
<1>16. CASE Crash
  BY <1>16, StoreAssumption DEF StoreAssumption, Crash, NoSnap, Causes
<1>17. CASE UNCHANGED vars
  BY <1>17 DEF vars
<1> HIDE DEF Safe, TypeOK, Locks, Goto, Leave
<1> QED
  BY <1>1, <1>2, <1>3, <1>4, <1>5, <1>6, <1>7, <1>8, <1>9, <1>10, <1>11, <1>12,
     <1>13, <1>14, <1>15, <1>16, <1>17, StepCases
  DEF Steps

\* Types; a mutex of an account is held by a goroutine that works on it.
THEOREM TypeCorrect == Spec => []TypeOK
<1>1. Safe /\ [Next]_vars => Safe'
  BY SafeStep
<1>2. Safe => TypeOK
  BY DEF Safe
<1> QED BY <1>1, <1>2, SafeInit, PTL DEF Spec
-----------------------------------------------------------------------------
\* What is known of the pairs.  Of an account: the file is not ahead of memory,
\* memory not of the server, and both hold pairs that were issued as they are,
\* save that memory is torn while AccessToken assigns.
PerAccount(a) ==
  /\ mem[a].access <= server[a].access
  /\ file[a].access <= mem[a].access
  /\ file[a] \in granted[a]
  /\ mem[a] \in granted[a] \/ (amu[a] \in Goroutines /\ pc[amu[a]] = "assign")

\* Of a clone that save made.
PerClone(g, a) ==
  snap[g][a] # NoClone =>
    snap[g][a] \in granted[a] /\ snap[g][a].access <= mem[a].access

\* Of a call: the response is what the server issued last as long as the mutex
\* is held, and reaches memory, the clone and the file in this order.
PerCall(g) ==
  /\ pc[g] \in {"granted", "assign"} =>
       resp[g] \in granted[acct[g]] /\ resp[g] = server[acct[g]]
  /\ pc[g] = "granted" => mem[acct[g]].access < resp[g].access
  /\ pc[g] = "assign" => mem[acct[g]].access = resp[g].access
  /\ pc[g] \in {"save", "clone", "write"} =>
       /\ resp[g].access <= mem[acct[g]].access
       /\ snap[g][acct[g]] # NoClone => resp[g].access <= snap[g][acct[g]].access
  /\ pc[g] = "refreshed" => resp[g].access <= saved[acct[g]]

Tokens ==
  /\ \A a \in Accounts : PerAccount(a)
  /\ \A g \in Goroutines : PerCall(g)
  /\ \A g \in Goroutines, a \in Accounts : PerClone(g, a)

\* What no step of a process takes back.
Grows ==
  \A a \in Accounts :
    /\ mem[a].access <= mem'[a].access
    /\ granted[a] \subseteq granted'[a]
    /\ saved[a] <= saved'[a]

LEMMA Numbers ==
  ASSUME Safe
  PROVE  /\ \A a \in Accounts :
              /\ server[a].access \in Nat /\ mem[a].access \in Nat
              /\ file[a].access \in Nat /\ saved[a] \in Nat
         /\ \A g \in Goroutines :
              /\ resp[g].access \in Nat
              /\ \A a \in Accounts : snap[g][a] # NoClone => snap[g][a].access \in Nat
  BY StoreAssumption DEF StoreAssumption, Safe, TypeOK, Pair

LEMMA TokensInit == Init => Tokens
<1> SUFFICES ASSUME Init PROVE Tokens
  OBVIOUS
<1>1. \A a \in Accounts : PerAccount(a)
  <2>1. \A a \in Accounts : /\ mem[a] = First /\ server[a] = First /\ file[a] = First
                            /\ granted[a] = {First}
    BY DEF Init
  <2>2. First.access = 0
    BY DEF First
  <2> SUFFICES ASSUME NEW a \in Accounts PROVE PerAccount(a)
    OBVIOUS
  <2>3. mem[a].access <= server[a].access /\ file[a].access <= mem[a].access
    BY <2>1, <2>2
  <2>4. file[a] \in granted[a] /\ mem[a] \in granted[a]
    BY <2>1
  <2> QED BY <2>3, <2>4 DEF PerAccount
<1>2. \A g \in Goroutines : PerCall(g)
  BY DEF Init, PerCall
<1>3. \A g \in Goroutines, a \in Accounts : PerClone(g, a)
  BY DEF Init, PerClone, NoSnap
<1> QED BY <1>1, <1>2, <1>3 DEF Tokens

\* A goroutine that does not move keeps what is known of it: the one that moves
\* changes the tokens only of the account whose mutex it holds.
LEMMA Bystander ==
  ASSUME Safe, Safe', Tokens, Grows, NEW h \in Goroutines,
         pc'[h] = pc[h], acct'[h] = acct[h], resp'[h] = resp[h], snap'[h] = snap[h],
         pc[h] \in Critical =>
           server'[acct[h]] = server[acct[h]] /\ mem'[acct[h]] = mem[acct[h]]
  PROVE  PerCall(h)'
<1>1. CASE pc[h] = "idle"
  BY <1>1 DEF PerCall
<1>2. CASE pc[h] # "idle"
  <2>1. acct[h] \in Accounts /\ PerCall(h)
    BY <1>2 DEF Safe, Locks, Tokens
  <2>2. PICK a \in Accounts : a = acct[h] /\ a = acct'[h]
    BY <2>1
  <2>3. /\ mem[a].access <= mem'[a].access
        /\ granted[a] \subseteq granted'[a]
        /\ saved[a] <= saved'[a]
    BY DEF Grows
  <2>4. /\ mem[a].access \in Nat /\ saved[a] \in Nat /\ resp[h].access \in Nat
        /\ mem'[a].access \in Nat /\ saved'[a] \in Nat
    <3>1. mem[a].access \in Nat /\ saved[a] \in Nat /\ resp[h].access \in Nat
      BY Numbers
    <3>2. mem'[a].access \in Nat /\ saved'[a] \in Nat
      BY StoreAssumption DEF StoreAssumption, Safe, TypeOK, Pair
    <3> QED BY <3>1, <3>2
  <2> QED BY <2>1, <2>2, <2>3, <2>4 DEF PerCall, Critical
<1> QED BY <1>1, <1>2

\* Clones made before stay good.
LEMMA OldClones ==
  ASSUME Safe, Safe', Tokens, Grows, NEW h \in Goroutines, NEW a \in Accounts,
         snap'[h][a] \in {snap[h][a], NoClone}
  PROVE  PerClone(h, a)'
<1>1. PerClone(h, a)
  BY DEF Tokens
<1>2. CASE snap'[h][a] = NoClone
  BY <1>2 DEF PerClone
<1>3. CASE snap'[h][a] = snap[h][a] /\ snap[h][a] # NoClone
  <2>1. mem[a].access \in Nat /\ snap[h][a].access \in Nat
    BY <1>3, Numbers
  <2>2. mem'[a].access \in Nat
    BY StoreAssumption DEF StoreAssumption, Safe, TypeOK, Pair
  <2> QED BY <1>1, <1>3, <2>1, <2>2 DEF PerClone, Grows
<1> QED BY <1>2, <1>3

\* A step that changes no token keeps what is known of them, if the goroutine
\* that makes it has not torn a pair.
LEMMA QuietStep ==
  ASSUME Safe, Safe', Tokens, NEW g \in Goroutines, PerCall(g)',
         UNCHANGED <<server, mem, file, granted, saved>>,
         \A h \in Goroutines \ {g} :
           pc'[h] = pc[h] /\ acct'[h] = acct[h] /\ resp'[h] = resp[h] /\ snap'[h] = snap[h],
         \A a \in Accounts : snap'[g][a] \in {snap[g][a], NoClone},
         pc[g] # "assign",
         \A a \in Accounts : amu'[a] # amu[a] => amu[a] \in {Nobody, g}
  PROVE  Tokens'
<1>1. Grows
  <2>1. \A a \in Accounts : mem[a].access \in Nat /\ saved[a] \in Nat
    BY Numbers
  <2> QED BY <2>1 DEF Grows
<1>2. \A h \in Goroutines : PerCall(h)'
  BY <1>1, Bystander
<1>3. \A h \in Goroutines, a \in Accounts : PerClone(h, a)'
  BY <1>1, OldClones
<1>4. ASSUME NEW a \in Accounts PROVE PerAccount(a)'
  <2>1. PerAccount(a)
    BY DEF Tokens
  <2>2. amu[a] \in Goroutines /\ pc[amu[a]] = "assign" =>
          amu'[a] = amu[a] /\ pc'[amu[a]] = "assign"
    BY StoreAssumption DEF StoreAssumption
  <2> QED BY <2>1, <2>2 DEF PerAccount
<1> QED BY <1>2, <1>3, <1>4 DEF Tokens

LEMMA TokensStep == ASSUME Safe, Safe', Tokens, [Next]_vars PROVE Tokens'
<1>1. ASSUME NEW g \in Goroutines, NEW a \in Accounts,
             NEW entry \in {"token", "account", "store"}, NEW force \in BOOLEAN,
             Call(g, a, entry, force)
      PROVE  Tokens'
  <2>1. PerCall(g)'
    BY <1>1 DEF Call, PerCall, Safe, TypeOK
  <2> QED BY <1>1, <2>1, QuietStep DEF Call, Idle, Safe, TypeOK
<1>2. ASSUME NEW g \in Goroutines, AccountCall(g) \/ StoreCall(g) PROVE Tokens'
  <2>1. PerCall(g)'
    BY <1>2 DEF AccountCall, StoreCall, Leave, Goto, PerCall, Safe, TypeOK
  <2> QED BY <1>2, <2>1, QuietStep DEF AccountCall, StoreCall, Leave, Goto, Safe, TypeOK
<1>3. ASSUME NEW g \in Goroutines, UseCached(g) PROVE Tokens'
  <2>1. PerCall(g)'
    BY <1>3 DEF UseCached, Goto, PerCall, Safe, TypeOK
  <2> QED BY <1>3, <2>1, QuietStep DEF UseCached, Goto, Safe, TypeOK
<1>4. ASSUME NEW g \in Goroutines, Present(g) PROVE Tokens'
  <2>1. PerCall(g)'
    BY <1>4 DEF Present, Goto, PerCall, Safe, TypeOK
  <2>2. \A a \in Accounts : amu'[a] # amu[a] => amu[a] \in {Nobody, g}
    BY <1>4 DEF Present, Lock, Goto, Safe, Locks
  <2> QED BY <1>4, <2>1, <2>2, QuietStep DEF Present, Goto, Safe, TypeOK
<1>5. ASSUME NEW g \in Goroutines, ExchangeFails(g) PROVE Tokens'
  <2>1. PerCall(g)'
    BY <1>5 DEF ExchangeFails, Leave, Goto, PerCall, Safe, TypeOK
  <2>2. \A a \in Accounts : amu'[a] # amu[a] => amu[a] \in {Nobody, g}
    BY <1>5 DEF ExchangeFails, Unlock, Leave, Goto, Safe, Locks, Critical
  <2> QED BY <1>5, <2>1, <2>2, QuietStep DEF ExchangeFails, Leave, Goto, Safe, TypeOK
<1>6. ASSUME NEW g \in Goroutines, ReplyLost(g) PROVE Tokens'
  <2>1. PerCall(g)'
    BY <1>6 DEF ReplyLost, Leave, Goto, PerCall, Safe, TypeOK
  <2>2. \A a \in Accounts : amu'[a] # amu[a] => amu[a] \in {Nobody, g}
    BY <1>6 DEF ReplyLost, Unlock, Leave, Goto, Safe, Locks, Critical
  <2> QED BY <1>6, <2>1, <2>2, QuietStep DEF ReplyLost, Leave, Goto, Safe, TypeOK
<1>7. ASSUME NEW g \in Goroutines, SaveBegins(g) PROVE Tokens'
  <2>1. PerCall(g) /\ acct[g] \in Accounts
    BY <1>7 DEF Tokens, SaveBegins, Goto, Safe, Locks
  <2>2. PerCall(g)'
    BY <1>7, <2>1 DEF SaveBegins, Goto, PerCall, Safe, TypeOK, Locks
  <2> QED BY <1>7, <2>2, QuietStep DEF SaveBegins, Goto, Safe, TypeOK
<1>8. ASSUME NEW g \in Goroutines, CloneEnds(g) PROVE Tokens'
  <2>1. PerCall(g) /\ acct[g] \in Accounts
    BY <1>8 DEF Tokens, CloneEnds, Goto, Safe, Locks
  <2>2. PerCall(g)'
    BY <1>8, <2>1 DEF CloneEnds, Goto, PerCall, Safe, TypeOK
  <2> QED BY <1>8, <2>2, QuietStep DEF CloneEnds, Goto, Safe, TypeOK
<1>9. ASSUME NEW g \in Goroutines, WriteFails(g) PROVE Tokens'
  <2>1. PerCall(g)'
    BY <1>9 DEF WriteFails, Leave, Goto, PerCall, Safe, TypeOK
  <2>2. \A a \in Accounts : snap'[g][a] \in {snap[g][a], NoClone}
    BY <1>9 DEF WriteFails, NoSnap, Safe, TypeOK
  <2> QED BY <1>9, <2>1, <2>2, QuietStep DEF WriteFails, Leave, Goto, Safe, TypeOK
<1>10. ASSUME NEW b \in Accounts, Age(b) PROVE Tokens'
  BY <1>10 DEF Age, Tokens, PerAccount, PerCall, PerClone
<1>11. CASE UNCHANGED vars
  BY <1>11 DEF vars, Tokens, PerAccount, PerCall, PerClone
<1>12. ASSUME NEW g \in Goroutines, Grant(g) PROVE Tokens'
  <2>1. PICK a \in Accounts : a = acct[g] /\ amu[a] = g
    BY <1>12 DEF Grant, Goto, Safe, Locks, Critical
  <2>2. PICK rotated : LET pair == [access |-> server[a].access + 1, refresh |-> rotated]
                       IN  /\ server' = [server EXCEPT ![a] = pair]
                           /\ resp' = [resp EXCEPT ![g] = pair]
                           /\ granted' = [granted EXCEPT ![a] = @ \cup {pair}]
    BY <1>12, <2>1 DEF Grant
  <2>3. PICK pair : /\ pair.access = server[a].access + 1
                    /\ server'[a] = pair /\ resp'[g] = pair
                    /\ granted'[a] = granted[a] \cup {pair}
                    /\ \A b \in Accounts \ {a} : server'[b] = server[b] /\ granted'[b] = granted[b]
                    /\ \A h \in Goroutines \ {g} : resp'[h] = resp[h]
    BY <2>2 DEF Safe, TypeOK
  <2>4. /\ pc[g] = "present" /\ pc'[g] = "granted"
        /\ \A h \in Goroutines \ {g} : pc'[h] = pc[h]
        /\ UNCHANGED <<mem, file, amu, acct, snap, saved>>
    BY <1>12 DEF Grant, Goto, Safe, TypeOK
  <2>5. Grows
    <3>1. \A b \in Accounts : mem[b].access \in Nat /\ saved[b] \in Nat
      BY Numbers
    <3> QED BY <2>3, <2>4, <3>1 DEF Grows
  <2>6. mem[a].access < server'[a].access
    <3>1. mem[a].access <= server[a].access
      BY DEF Tokens, PerAccount
    <3>2. mem[a].access \in Nat /\ server[a].access \in Nat
      BY Numbers
    <3> QED BY <2>3, <3>1, <3>2
  <2>7. PerCall(g)'
    BY <2>1, <2>3, <2>4, <2>6 DEF PerCall
  <2>8. ASSUME NEW h \in Goroutines \ {g} PROVE PerCall(h)'
    <3>1. pc[h] \in Critical => acct[h] \in Accounts \ {a}
      BY <2>1 DEF Safe, Locks, Critical
    <3> QED BY <2>3, <2>4, <2>5, <3>1, Bystander
  <2>9. \A h \in Goroutines, b \in Accounts : PerClone(h, b)'
    BY <2>4, <2>5, OldClones
  <2>10. ASSUME NEW b \in Accounts PROVE PerAccount(b)'
    <3>1. PerAccount(b)
      BY DEF Tokens
    <3>2. mem[b].access <= server'[b].access
      BY <2>3, <2>6, <3>1, Numbers DEF PerAccount
    <3>3. amu[b] \in Goroutines /\ pc[amu[b]] = "assign" => pc'[amu[b]] = "assign"
      BY <2>4
    <3> QED BY <2>3, <2>4, <2>5, <3>1, <3>2, <3>3 DEF PerAccount, Grows
  <2> QED BY <2>7, <2>8, <2>9, <2>10 DEF Tokens
<1>13. ASSUME NEW g \in Goroutines, AssignAccess(g) PROVE Tokens'
  <2>1. PICK a \in Accounts : a = acct[g] /\ amu[a] = g
    BY <1>13 DEF AssignAccess, Goto, Safe, Locks, Critical
  <2>2. /\ mem' = [mem EXCEPT ![a].access = resp[g].access] /\ mem \in [Accounts -> Pair]
        /\ resp[g].access \in 0 .. MaxGrants
    BY <1>13, <2>1 DEF AssignAccess, Safe, TypeOK, Pair
  <2>3. /\ mem'[a].access = resp[g].access
        /\ \A b \in Accounts \ {a} : mem'[b] = mem[b]
    BY <2>2, Assigned
  <2>4. /\ pc[g] = "granted" /\ pc'[g] = "assign"
        /\ \A h \in Goroutines \ {g} : pc'[h] = pc[h]
        /\ UNCHANGED <<server, file, amu, acct, resp, snap, granted, saved>>
    BY <1>13 DEF AssignAccess, Goto, Safe, TypeOK
  <2>5. /\ resp[g] \in granted[a] /\ resp[g] = server[a]
        /\ mem[a].access < resp[g].access
    BY <2>1, <2>4 DEF Tokens, PerCall
  <2>6. Grows
    <3>1. \A b \in Accounts : mem[b].access \in Nat /\ saved[b] \in Nat
      BY Numbers
    <3>2. resp[g].access \in Nat
      BY Numbers
    <3> QED BY <2>3, <2>4, <2>5, <3>1, <3>2 DEF Grows
  <2>7. PerCall(g)'
    BY <2>1, <2>3, <2>4, <2>5 DEF PerCall
  <2>8. ASSUME NEW h \in Goroutines \ {g} PROVE PerCall(h)'
    <3>1. pc[h] \in Critical => acct[h] \in Accounts \ {a}
      BY <2>1 DEF Safe, Locks, Critical
    <3> QED BY <2>3, <2>4, <2>6, <3>1, Bystander
  <2>9. \A h \in Goroutines, b \in Accounts : PerClone(h, b)'
    BY <2>4, <2>6, OldClones
  <2>10. ASSUME NEW b \in Accounts PROVE PerAccount(b)'
    <3>1. PerAccount(b)
      BY DEF Tokens
    <3>2. CASE b = a
      <4>1. /\ file[a].access \in Nat /\ mem[a].access \in Nat /\ resp[g].access \in Nat
        BY Numbers
      <4> QED BY <2>1, <2>3, <2>4, <2>5, <3>1, <3>2, <4>1 DEF PerAccount
    <3>3. CASE b # a
      <4>1. amu[b] \in Goroutines => amu[b] # g
        BY <2>1, <3>3 DEF Safe, Locks
      <4> QED BY <2>3, <2>4, <3>1, <3>3, <4>1 DEF PerAccount
    <3> QED BY <3>2, <3>3
  <2> QED BY <2>7, <2>8, <2>9, <2>10 DEF Tokens
<1>14. ASSUME NEW g \in Goroutines, AssignRest(g) PROVE Tokens'
  <2>1. PICK a \in Accounts : a = acct[g] /\ amu[a] = g
    BY <1>14 DEF AssignRest, Goto, Safe, Locks, Critical
  <2>2. /\ mem' = [mem EXCEPT ![a].refresh = resp[g].refresh] /\ mem \in [Accounts -> Pair]
        /\ resp[g].refresh \in 0 .. MaxGrants
    BY <1>14, <2>1 DEF AssignRest, Safe, TypeOK, Pair
  <2>3. /\ mem'[a] = [access |-> mem[a].access, refresh |-> resp[g].refresh]
        /\ \A b \in Accounts \ {a} : mem'[b] = mem[b]
    <3>1. mem[a] \in Pair
      BY <2>2
    <3>2. mem'[a] = [mem[a] EXCEPT !.refresh = resp[g].refresh]
      BY <2>2
    <3>3. mem'[a] = [access |-> mem[a].access, refresh |-> resp[g].refresh]
      BY <3>1, <3>2 DEF Pair
    <3>4. \A b \in Accounts \ {a} : mem'[b] = mem[b]
      BY <2>2
    <3> QED BY <3>3, <3>4
  <2>4. /\ pc[g] = "assign" /\ pc'[g] = "save"
        /\ \A h \in Goroutines \ {g} : pc'[h] = pc[h]
        /\ UNCHANGED <<server, file, acct, resp, snap, granted, saved>>
    BY <1>14 DEF AssignRest, Goto, Safe, TypeOK
  <2>5. /\ resp[g] \in granted[a] /\ resp[g] = server[a]
        /\ mem[a].access = resp[g].access /\ resp[g] \in Pair
    BY <2>1, <2>4 DEF Tokens, PerCall, Safe, TypeOK
  <2>6. mem'[a] = resp[g]
    BY <2>3, <2>5 DEF Pair
  <2>7. Grows
    <3>1. \A b \in Accounts : mem[b].access \in Nat /\ saved[b] \in Nat
      BY Numbers
    <3> QED BY <2>3, <2>4, <2>5, <2>6, <3>1 DEF Grows
  <2>8. PerCall(g)'
    <3>1. snap[g][a] = NoClone /\ resp[g].access \in Nat
      BY <2>4, Numbers DEF Safe, Locks
    <3> QED BY <2>1, <2>4, <2>6, <3>1 DEF PerCall
  <2>9. ASSUME NEW h \in Goroutines \ {g} PROVE PerCall(h)'
    <3>1. pc[h] \in Critical => acct[h] \in Accounts \ {a}
      BY <2>1 DEF Safe, Locks, Critical
    <3> QED BY <2>3, <2>4, <2>7, <3>1, Bystander
  <2>10. \A h \in Goroutines, b \in Accounts : PerClone(h, b)'
    BY <2>4, <2>7, OldClones
  <2>11. ASSUME NEW b \in Accounts PROVE PerAccount(b)'
    <3>1. PerAccount(b)
      BY DEF Tokens
    <3>2. CASE b = a
      BY <2>1, <2>4, <2>5, <2>6, <3>1, <3>2 DEF PerAccount
    <3>3. CASE b # a
      <4>1. amu[b] \in Goroutines => amu[b] # g
        BY <2>1, <3>3 DEF Safe, Locks
      <4>2. amu'[b] = amu[b]
        BY <1>14, <2>1, <3>3 DEF AssignRest, Unlock, Safe, Locks
      <4> QED BY <2>3, <2>4, <3>1, <3>3, <4>1, <4>2 DEF PerAccount
    <3> QED BY <3>2, <3>3
  <2> QED BY <2>8, <2>9, <2>10, <2>11 DEF Tokens
<1>15. ASSUME NEW g \in Goroutines, NEW a \in Accounts, Clone(g, a) PROVE Tokens'
  <2>1. /\ pc[g] = "clone" /\ acct[g] \in Accounts /\ amu[a] = Nobody
        /\ UNCHANGED <<server, mem, file, amu, pc, acct, resp, granted, saved>>
    BY <1>15 DEF Clone, Safe, Locks
  <2>2. /\ snap'[g][a] = mem[a]
        /\ \A b \in Accounts \ {a} : snap'[g][b] = snap[g][b]
        /\ \A h \in Goroutines \ {g} : snap'[h] = snap[h]
    BY <1>15 DEF Clone, Safe, TypeOK
  <2>3. \A b \in Accounts : mem[b].access \in Nat /\ saved[b] \in Nat
    BY Numbers
  <2>4. Grows
    BY <2>1, <2>3 DEF Grows
  <2>5. mem[a] \in granted[a]
    BY <2>1, StoreAssumption DEF Tokens, PerAccount, StoreAssumption
  <2>6. PerCall(g)'
    BY <2>1, <2>2 DEF Tokens, PerCall
  <2>7. \A h \in Goroutines \ {g} : PerCall(h)'
    BY <2>1, <2>2, <2>4, Bystander
  <2>8. PerClone(g, a)'
    BY <2>1, <2>2, <2>3, <2>5 DEF PerClone
  <2>9. \A h \in Goroutines, b \in Accounts : ~(h = g /\ b = a) => PerClone(h, b)'
    BY <2>2, <2>4, OldClones
  <2>10. \A b \in Accounts : PerAccount(b)'
    BY <2>1 DEF Tokens, PerAccount
  <2> QED BY <2>6, <2>7, <2>8, <2>9, <2>10 DEF Tokens
<1>16. ASSUME NEW g \in Goroutines, Rename(g) PROVE Tokens'
  <2>1. /\ pc[g] = "write" /\ acct[g] \in Accounts
        /\ file' = snap[g]
        /\ UNCHANGED <<server, mem, amu, granted>>
        /\ \A h \in Goroutines \ {g} :
             pc'[h] = pc[h] /\ acct'[h] = acct[h] /\ resp'[h] = resp[h] /\ snap'[h] = snap[h]
        /\ \A a \in Accounts : snap'[g][a] = NoClone
    BY <1>16 DEF Rename, Goto, Leave, Safe, TypeOK, Locks, NoSnap
  <2>2. \A a \in Accounts : /\ saved'[a] = IF snap[g][a].access > saved[a]
                                          THEN snap[g][a].access ELSE saved[a]
                            /\ snap[g][a] # NoClone
                            /\ snap[g][a].access \in Nat
                            /\ saved[a] \in Nat /\ mem[a].access \in Nat
    BY <1>16, <2>1, Numbers DEF Rename, Safe, Locks
  <2>3. Grows
    BY <2>1, <2>2 DEF Grows
  <2>4. PerCall(g)'
    <3>1. CASE pc'[g] = "idle"
      BY <3>1 DEF PerCall
    <3>2. CASE pc'[g] = "refreshed" /\ UNCHANGED <<acct, resp>>
      <4>1. resp[g].access <= snap[g][acct[g]].access /\ resp[g].access \in Nat
        BY <2>1, <2>2, Numbers DEF Tokens, PerCall
      <4> QED BY <2>1, <2>2, <3>2, <4>1 DEF PerCall
    <3> QED BY <1>16, <3>1, <3>2 DEF Rename, Goto, Leave, Safe, TypeOK
  <2>5. \A h \in Goroutines \ {g} : PerCall(h)'
    BY <2>1, <2>3, Bystander
  <2>6. \A h \in Goroutines, b \in Accounts : PerClone(h, b)'
    BY <2>1, <2>3, OldClones
  <2>7. ASSUME NEW b \in Accounts PROVE PerAccount(b)'
    <3>1. PerAccount(b) /\ PerClone(g, b)
      BY DEF Tokens
    <3>2. amu[b] \in Goroutines => amu[b] # g
      BY <2>1 DEF Safe, Locks, Critical
    <3> QED BY <2>1, <2>2, <3>1, <3>2 DEF PerAccount, PerClone
  <2> QED BY <2>4, <2>5, <2>6, <2>7 DEF Tokens
<1>17. CASE Crash
  <2>1. /\ mem' = file
        /\ UNCHANGED <<server, file, granted, saved>>
        /\ \A g \in Goroutines : pc'[g] = "idle"
        /\ \A g \in Goroutines : \A a \in Accounts : snap'[g][a] = NoClone
    BY <1>17 DEF Crash, NoSnap
  <2>2. ASSUME NEW a \in Accounts PROVE PerAccount(a)'
    <3>1. PerAccount(a)
      BY DEF Tokens
    <3>2. server[a].access \in Nat /\ mem[a].access \in Nat /\ file[a].access \in Nat
      BY Numbers
    <3> QED BY <2>1, <3>1, <3>2 DEF PerAccount
  <2> QED BY <2>1, <2>2 DEF Tokens, PerCall, PerClone
<1> QED
  BY <1>1, <1>2, <1>3, <1>4, <1>5, <1>6, <1>7, <1>8, <1>9, <1>10, <1>11, <1>12,
     <1>13, <1>14, <1>15, <1>16, <1>17, StepCases
  DEF Steps

LEMMA Invariant == Spec => [](Safe /\ Tokens)
<1>1. Init => Safe /\ Tokens
  BY SafeInit, TokensInit
<1>2. Safe /\ Tokens /\ [Next]_vars => (Safe /\ Tokens)'
  BY SafeStep, TokensStep
<1> QED BY <1>1, <1>2, PTL DEF Spec

\* Whatever saves and refreshes overlap, the state file holds pairs that were
\* issued as they are.
THEOREM NotTorn == Spec => []NoTornCredentials
<1>1. Tokens => NoTornCredentials
  BY DEF Tokens, PerAccount, NoTornCredentials
<1> QED BY <1>1, Invariant, PTL

\* What AccessToken returns after a refresh was saved first.
THEOREM RefreshedSaved == Spec => []RefreshedTokenWasSaved
<1>1. Tokens => RefreshedTokenWasSaved
  BY DEF Tokens, PerCall, RefreshedTokenWasSaved
<1> QED BY <1>1, Invariant, PTL
-----------------------------------------------------------------------------
\* Memory has the refresh token the server accepts, unless the answer that had
\* it was lost, a restart found another in the file, or it is on its way.
Current ==
  \A a \in Accounts :
    \/ mem[a].refresh = server[a].refresh
    \/ "answer" \in excused[a]
    \/ crashes > 0 /\ excused[a] # {}
    \/ amu[a] \in Goroutines /\ pc[amu[a]] \in {"granted", "assign"}

LEMMA CurrentStep ==
  ASSUME Safe, Tokens, Current, [Next]_vars, ~Crash PROVE Current'
<1> USE StoreAssumption DEF StoreAssumption, Goto, Leave, Safe, TypeOK, Locks, Critical
<1>1. ASSUME NEW g \in Goroutines, NEW b \in Accounts,
             NEW entry \in {"token", "account", "store"}, NEW force \in BOOLEAN,
             Call(g, b, entry, force)
      PROVE  Current'
  BY <1>1 DEF Call, Idle, Current
<1>2. ASSUME NEW g \in Goroutines, AccountCall(g) \/ StoreCall(g) \/ UseCached(g)
      PROVE  Current'
  BY <1>2 DEF AccountCall, StoreCall, UseCached, Current
<1>3. ASSUME NEW g \in Goroutines, Present(g) PROVE Current'
  BY <1>3 DEF Present, Lock, Current
<1>4. ASSUME NEW g \in Goroutines, ExchangeFails(g) PROVE Current'
  BY <1>4 DEF ExchangeFails, Unlock, Current
<1>5. ASSUME NEW g \in Goroutines, Grant(g) PROVE Current'
  BY <1>5 DEF Grant, Current
<1>6. ASSUME NEW g \in Goroutines, ReplyLost(g) PROVE Current'
  <2>1. PICK a \in Accounts : a = acct[g] /\ amu[a] = g
    BY <1>6 DEF ReplyLost
  <2>2. excused' = IF server[a].refresh = mem[a].refresh THEN excused
                   ELSE [excused EXCEPT ![a] = @ \cup {"answer"}]
    BY <1>6, <2>1 DEF ReplyLost
  <2>3. /\ \A b \in Accounts \ {a} : excused'[b] = excused[b]
        /\ server[a].refresh = mem[a].refresh \/ "answer" \in excused'[a]
    BY <2>2
  <2>4. \A b \in Accounts \ {a} : amu'[b] = amu[b] /\ amu[b] # g
    BY <1>6, <2>1 DEF ReplyLost, Unlock
  <2>5. /\ UNCHANGED <<mem, server, crashes>>
        /\ \A h \in Goroutines \ {g} : pc'[h] = pc[h]
    BY <1>6 DEF ReplyLost
  <2> HIDE DEF Goto, Leave, Safe, TypeOK, Locks
  <2>6. mem'[a].refresh = server'[a].refresh \/ "answer" \in excused'[a]
    BY <2>3, <2>5
  <2> QED BY <2>3, <2>4, <2>5, <2>6 DEF Current
<1>7. ASSUME NEW g \in Goroutines, AssignAccess(g) PROVE Current'
  BY <1>7 DEF AssignAccess, Current
<1>8. ASSUME NEW g \in Goroutines, AssignRest(g) PROVE Current'
  <2>1. PICK a \in Accounts : a = acct[g] /\ amu[a] = g
    BY <1>8 DEF AssignRest
  <2>2. mem'[a].refresh = resp[g].refresh /\ \A b \in Accounts \ {a} : mem'[b] = mem[b]
    BY <1>8, <2>1 DEF AssignRest, Pair
  <2>3. resp[g] = server[a]
    BY <1>8, <2>1 DEF AssignRest, Tokens, PerCall
  <2>4. \A b \in Accounts \ {a} : amu'[b] = amu[b] /\ amu[b] # g
    BY <1>8, <2>1 DEF AssignRest, Unlock
  <2> QED BY <1>8, <2>2, <2>3, <2>4 DEF AssignRest, Current
<1>9. ASSUME NEW g \in Goroutines,
             \/ SaveBegins(g) \/ CloneEnds(g) \/ WriteFails(g) \/ Rename(g)
             \/ \E a \in Accounts : Clone(g, a)
      PROVE  Current'
  <2>1. /\ pc[g] \notin Critical /\ pc'[g] \notin Critical
        /\ \A h \in Goroutines \ {g} : pc'[h] = pc[h]
        /\ UNCHANGED <<mem, server, amu, crashes>>
    BY <1>9 DEF SaveBegins, CloneEnds, WriteFails, Rename, Clone
  <2>2. \A a \in Accounts : excused[a] \subseteq excused'[a]
    <3>1. CASE UNCHANGED excused
      BY <3>1
    <3>2. CASE excused' = [excused EXCEPT ![acct[g]] = @ \cup {"save"}]
      BY <3>2
    <3> QED
      BY <1>9, <3>1, <3>2 DEF SaveBegins, CloneEnds, WriteFails, Rename, Clone
  <2> HIDE DEF Goto, Leave, Safe, TypeOK, Locks
  <2> QED BY <2>1, <2>2 DEF Current, Critical
<1>10. ASSUME NEW a \in Accounts, Age(a) PROVE Current'
  BY <1>10 DEF Age, Current
<1>11. CASE UNCHANGED vars
  BY <1>11 DEF vars, Current
<1> HIDE DEF Goto, Leave, Safe, TypeOK, Locks
<1> QED
  BY <1>1, <1>2, <1>3, <1>4, <1>5, <1>6, <1>7, <1>8, <1>9, <1>10, <1>11, StepCases
  DEF Steps

LEMMA PresentsCurrent ==
  ASSUME Safe, crashes = 0 => Current PROVE PresentedTokenIsCurrent
BY DEF Safe, Locks, Current, Critical, PresentedTokenIsCurrent

LEMMA CurrentInit == Init => Current
BY DEF Init, Current

\* Within one life of the process, whatever goroutines refresh at once and
\* whatever fails, none presents a refresh token that another one has spent.
THEOREM PresentedCurrent == Spec => []PresentedTokenIsCurrent
<1> DEFINE I == crashes = 0 => Current
<1>1. ASSUME Safe, Tokens, I, [Next]_vars PROVE I'
  <2>1. CASE Crash
    BY <1>1, <2>1 DEF Crash, Safe, TypeOK
  <2>2. CASE ~Crash /\ crashes' = crashes
    BY <1>1, <2>2, CurrentStep
  <2>3. CASE ~Crash /\ crashes' # crashes
    BY <1>1, <2>3, StepCases DEF Steps, Call, AccountCall, StoreCall, UseCached, Present,
       ExchangeFails, Grant, ReplyLost, AssignAccess, AssignRest, SaveBegins, CloneEnds,
       WriteFails, Rename, Clone, Age, vars
  <2> QED BY <2>1, <2>2, <2>3
<1>2. Safe /\ I => PresentedTokenIsCurrent
  BY PresentsCurrent
<1>3. Init => I
  BY CurrentInit
<1> QED BY <1>1, <1>2, <1>3, Invariant, PTL DEF Spec
-----------------------------------------------------------------------------
current == [a \in Accounts |-> mem[a].access]
call == [g \in Goroutines |-> CallOf(g)]
account == [g \in Goroutines |-> AccountOf(g)]
token == [g \in Goroutines |-> TokenOf(g)]

\* What a step of one goroutine does to the calls that TokenService sees.
LEMMA Mapped ==
  ASSUME NEW g \in Goroutines,
         \A h \in Goroutines \ {g} :
           pc'[h] = pc[h] /\ acct'[h] = acct[h] /\ forced'[h] = forced[h]
           /\ resp'[h] = resp[h]
  PROVE  /\ call' = [call EXCEPT ![g] = CallOf(g)']
         /\ account' = [account EXCEPT ![g] = AccountOf(g)']
         /\ token' = [token EXCEPT ![g] = TokenOf(g)']
<1>1. \A h \in Goroutines \ {g} : CallOf(h)' = CallOf(h)
  BY DEF CallOf
<1>2. \A h \in Goroutines \ {g} : AccountOf(h)' = AccountOf(h) /\ TokenOf(h)' = TokenOf(h)
  BY <1>1 DEF AccountOf, TokenOf
<1> QED BY <1>1, <1>2 DEF call, account, token

\* A step that TokenService does not see.
LEMMA Unseen ==
  ASSUME NEW g \in Goroutines,
         \A h \in Goroutines \ {g} :
           pc'[h] = pc[h] /\ acct'[h] = acct[h] /\ forced'[h] = forced[h]
           /\ resp'[h] = resp[h],
         CallOf(g)' = CallOf(g), AccountOf(g)' = AccountOf(g), TokenOf(g)' = TokenOf(g),
         current' = current
  PROVE  UNCHANGED Service!vars
BY Mapped DEF Service!vars, call, account, token, current

\* A step in which a call leaves, is answered or takes another turn.
LEMMA Seen ==
  ASSUME NEW g \in Goroutines,
         \A h \in Goroutines \ {g} :
           pc'[h] = pc[h] /\ acct'[h] = acct[h] /\ forced'[h] = forced[h]
           /\ resp'[h] = resp[h],
         current' = current
  PROVE  /\ \A a \in Accounts :
              CallOf(g) \in {"none", "answered"} /\ CallOf(g)' \in {"may", "must"}
                /\ AccountOf(g)' = a /\ TokenOf(g)' = 0
              => Service!Ask(g, a)
         /\ CallOf(g) = "may" /\ CallOf(g)' = "answered" /\ AccountOf(g)' = AccountOf(g)
              /\ TokenOf(g)' = current[AccountOf(g)]
            => Service!Reuse(g)
         /\ CallOf(g) = "may" /\ CallOf(g)' = "must" /\ AccountOf(g)' = AccountOf(g)
              /\ TokenOf(g)' = TokenOf(g)
            => Service!Decide(g)
         /\ CallOf(g) = "renewed" /\ CallOf(g)' = "answered" /\ AccountOf(g)' = AccountOf(g)
              /\ TokenOf(g)' = TokenOf(g)
            => Service!Answer(g)
         /\ CallOf(g) \in {"must", "renewed", "answered"} /\ CallOf(g)' = "none"
              /\ AccountOf(g)' = NoAccount /\ TokenOf(g)' = 0
            => Service!Leave(g)
<1>1. /\ call' = [call EXCEPT ![g] = CallOf(g)'] /\ call[g] = CallOf(g)
      /\ account' = [account EXCEPT ![g] = AccountOf(g)'] /\ account[g] = AccountOf(g)
      /\ token' = [token EXCEPT ![g] = TokenOf(g)'] /\ token[g] = TokenOf(g)
  BY Mapped DEF call, account, token
<1> QED
  BY <1>1 DEF Service!Ask, Service!Reuse, Service!Decide, Service!Answer, Service!Leave,
     Service!Step, call, account, token, current

\* Every step of the code is a step of the service, or unseen by it.
LEMMA ServiceStep ==
  ASSUME Safe, Safe', Tokens, [Next]_vars
  PROVE  [Service!Next]_(Service!vars)
<1> DEFINE Still(g) == \A h \in Goroutines \ {g} :
                         /\ pc'[h] = pc[h] /\ acct'[h] = acct[h]
                         /\ forced'[h] = forced[h] /\ resp'[h] = resp[h]
           Done == [Service!Next]_(Service!vars)
<1>a. ASSUME NEW g \in Goroutines, Still(g), current' = current,
             CallOf(g)' = CallOf(g), AccountOf(g)' = AccountOf(g), TokenOf(g)' = TokenOf(g)
      PROVE  Done
  BY <1>a, Unseen
<1>b. ASSUME NEW g \in Goroutines, Still(g), current' = current,
             CallOf(g) \in {"must", "renewed", "answered"}, CallOf(g)' = "none"
      PROVE  Done
  <2>1. AccountOf(g)' = NoAccount /\ TokenOf(g)' = 0
    BY <1>b DEF AccountOf, TokenOf
  <2>2. Service!Leave(g)
    BY <1>b, <2>1, Seen
  <2> QED BY <2>2 DEF Service!Next
<1>1. ASSUME NEW g \in Goroutines, NEW a \in Accounts,
             NEW entry \in {"token", "account", "store"}, NEW force \in BOOLEAN,
             Call(g, a, entry, force)
      PROVE  Done
  <2>1. /\ Still(g) /\ current' = current
        /\ pc[g] \in {"idle", "cached", "refreshed"}
        /\ pc'[g] = entry /\ acct'[g] = a /\ forced'[g] = force
    BY <1>1 DEF Call, Idle, Safe, TypeOK, current
  <2>2. CASE entry = "token"
    <3>1. /\ CallOf(g) \in {"none", "answered"} /\ CallOf(g)' \in {"may", "must"}
          /\ AccountOf(g)' = a /\ TokenOf(g)' = 0
      BY <2>1, <2>2 DEF CallOf, AccountOf, TokenOf
    <3>2. Service!Ask(g, a)
      BY <2>1, <3>1, Seen
    <3> QED BY <3>2 DEF Service!Next
  <2>3. CASE entry # "token" /\ pc[g] # "idle"
    <3>1. CallOf(g) = "answered" /\ CallOf(g)' = "none"
      BY <2>1, <2>3 DEF CallOf
    <3> QED BY <1>b, <2>1, <3>1
  <2>4. CASE entry # "token" /\ pc[g] = "idle"
    <3>1. CallOf(g) = "none" /\ CallOf(g)' = "none"
      BY <2>1, <2>4 DEF CallOf
    <3> QED BY <1>a, <2>1, <3>1 DEF AccountOf, TokenOf
  <2> QED BY <2>2, <2>3, <2>4
<1>2. ASSUME NEW g \in Goroutines, AccountCall(g) \/ StoreCall(g) PROVE Done
  <2>1. /\ Still(g) /\ current' = current
        /\ pc[g] \in {"account", "store"} /\ pc'[g] = "idle"
    BY <1>2 DEF AccountCall, StoreCall, Leave, Goto, Safe, TypeOK, current
  <2>2. CallOf(g) = "none" /\ CallOf(g)' = "none"
    BY <2>1 DEF CallOf
  <2> QED BY <1>a, <2>1, <2>2 DEF AccountOf, TokenOf
<1>3. ASSUME NEW g \in Goroutines, UseCached(g) PROVE Done
  <2>1. PICK a \in Accounts : a = acct[g]
    BY <1>3 DEF UseCached, Goto, Safe, Locks
  <2>2. /\ Still(g) /\ current' = current
        /\ pc[g] = "token" /\ ~forced[g] /\ pc'[g] = "cached"
        /\ acct'[g] = acct[g] /\ resp'[g] = mem[a] /\ current[a] = mem[a].access
    BY <1>3, <2>1 DEF UseCached, Goto, Safe, TypeOK, current
  <2>3. CallOf(g) = "may" /\ CallOf(g)' = "answered"
    BY <2>2 DEF CallOf
  <2>4. /\ AccountOf(g) = a /\ AccountOf(g)' = a
        /\ TokenOf(g)' = current[a]
    BY <2>1, <2>2, <2>3 DEF AccountOf, TokenOf
  <2>5. Service!Reuse(g)
    BY <2>2, <2>3, <2>4, Seen
  <2> QED BY <2>5 DEF Service!Next
<1>4. ASSUME NEW g \in Goroutines, Present(g) PROVE Done
  <2>1. /\ Still(g) /\ current' = current
        /\ pc[g] = "token" /\ pc'[g] = "present" /\ acct'[g] = acct[g]
    BY <1>4 DEF Present, Goto, Safe, TypeOK, current
  <2>2. CallOf(g) \in {"may", "must"} /\ CallOf(g)' = "must"
    BY <2>1 DEF CallOf
  <2>3. /\ AccountOf(g)' = AccountOf(g) /\ TokenOf(g)' = TokenOf(g)
    BY <2>1, <2>2 DEF AccountOf, TokenOf
  <2>4. CASE CallOf(g) = "may"
    <3>1. Service!Decide(g)
      BY <2>1, <2>2, <2>3, <2>4, Seen
    <3> QED BY <3>1 DEF Service!Next
  <2>5. CASE CallOf(g) = "must"
    BY <1>a, <2>1, <2>2, <2>3, <2>5
  <2> QED BY <2>2, <2>4, <2>5
<1>5. ASSUME NEW g \in Goroutines, ExchangeFails(g) \/ ReplyLost(g) \/ WriteFails(g)
      PROVE  Done
  <2>1. /\ Still(g) /\ current' = current
        /\ pc[g] \in {"present", "granted", "write"} /\ pc'[g] = "idle"
    BY <1>5 DEF ExchangeFails, ReplyLost, WriteFails, Leave, Goto, Safe, TypeOK, current
  <2>2. CallOf(g) \in {"must", "renewed"} /\ CallOf(g)' = "none"
    BY <2>1 DEF CallOf
  <2> QED BY <1>b, <2>1, <2>2
<1>6. ASSUME NEW g \in Goroutines, Grant(g) PROVE Done
  <2>1. /\ Still(g) /\ current' = current
        /\ pc[g] = "present" /\ pc'[g] = "granted" /\ acct'[g] = acct[g]
    BY <1>6 DEF Grant, Goto, Safe, TypeOK, current
  <2>2. CallOf(g) = "must" /\ CallOf(g)' = "must"
    BY <2>1 DEF CallOf
  <2> QED BY <1>a, <2>1, <2>2 DEF AccountOf, TokenOf
<1>7. ASSUME NEW g \in Goroutines, AssignAccess(g) PROVE Done
  <2>1. PICK a \in Accounts : a = acct[g]
    BY <1>7 DEF AssignAccess, Goto, Safe, Locks
  <2>2. /\ Still(g)
        /\ pc[g] = "granted" /\ pc'[g] = "assign" /\ acct'[g] = acct[g]
        /\ resp'[g] = resp[g]
    BY <1>7 DEF AssignAccess, Goto, Safe, TypeOK
  <2>3. /\ mem' = [mem EXCEPT ![a].access = resp[g].access] /\ mem \in [Accounts -> Pair]
        /\ resp[g].access \in 0 .. MaxGrants
    BY <1>7, <2>1 DEF AssignAccess, Safe, TypeOK, Pair
  <2>4. /\ mem'[a].access = resp[g].access
        /\ \A b \in Accounts \ {a} : mem'[b] = mem[b]
    BY <2>3, Assigned
  <2>5. mem[a].access < resp[g].access
    BY <2>1, <2>2 DEF Tokens, PerCall
  <2>6. CallOf(g) = "must" /\ CallOf(g)' = "renewed"
    BY <2>2 DEF CallOf
  <2>7. AccountOf(g) = a /\ AccountOf(g)' = a /\ TokenOf(g)' = resp[g].access
    BY <2>1, <2>2, <2>6 DEF AccountOf, TokenOf
  <2>8. /\ current' \in [Accounts -> Nat]
        /\ current'[a] > current[a]
        /\ current'[a] = resp[g].access
        /\ \A b \in Accounts \ {a} : current'[b] = current[b]
    <3>1. \A b \in Accounts : mem[b].access \in Nat /\ resp[g].access \in Nat
      BY Numbers
    <3> QED BY <2>4, <2>5, <3>1 DEF current
  <2>9. /\ call' = [call EXCEPT ![g] = "renewed"] /\ call[g] = "must"
        /\ account' = account /\ account[g] = a
        /\ token' = [token EXCEPT ![g] = resp[g].access]
    <3>1. /\ call' = [call EXCEPT ![g] = "renewed"]
          /\ account' = [account EXCEPT ![g] = a]
          /\ token' = [token EXCEPT ![g] = resp[g].access]
      BY <2>2, <2>6, <2>7, Mapped
    <3>2. call[g] = "must" /\ account[g] = a
      BY <2>6, <2>7 DEF call, account
    <3>3. account = [account EXCEPT ![g] = a]
      BY <3>2 DEF account
    <3> QED BY <3>1, <3>2, <3>3
  <2>10. Service!Renew(g)
    BY <2>8, <2>9 DEF Service!Renew, Service!Step, call, account, token, current
  <2> QED BY <2>10 DEF Service!Next
<1>8. ASSUME NEW g \in Goroutines, AssignRest(g) PROVE Done
  <2>1. PICK a \in Accounts : a = acct[g]
    BY <1>8 DEF AssignRest, Goto, Safe, Locks
  <2>2. /\ Still(g)
        /\ pc[g] = "assign" /\ pc'[g] = "save" /\ acct'[g] = acct[g]
        /\ resp'[g] = resp[g]
    BY <1>8 DEF AssignRest, Goto, Safe, TypeOK
  <2>3. /\ mem' = [mem EXCEPT ![a].refresh = resp[g].refresh] /\ mem \in [Accounts -> Pair]
        /\ resp[g].refresh \in 0 .. MaxGrants
    BY <1>8, <2>1 DEF AssignRest, Safe, TypeOK, Pair
  <2>4. \A b \in Accounts : mem'[b].access = mem[b].access
    BY <2>3 DEF Pair
  <2>5. current' = current
    BY <2>4 DEF current
  <2>6. CallOf(g) = "renewed" /\ CallOf(g)' = "renewed"
    BY <2>2 DEF CallOf
  <2> QED BY <1>a, <2>2, <2>5, <2>6 DEF AccountOf, TokenOf
<1>9. ASSUME NEW g \in Goroutines,
             SaveBegins(g) \/ CloneEnds(g) \/ \E a \in Accounts : Clone(g, a)
      PROVE  Done
  <2>1. /\ Still(g) /\ current' = current
        /\ pc[g] \in {"save", "clone"} /\ pc'[g] \in {"clone", "write"}
        /\ acct'[g] = acct[g] /\ resp'[g] = resp[g]
    BY <1>9 DEF SaveBegins, CloneEnds, Clone, Goto, Safe, TypeOK, current
  <2>2. CallOf(g) = "renewed" /\ CallOf(g)' = "renewed"
    BY <2>1 DEF CallOf
  <2> QED BY <1>a, <2>1, <2>2 DEF AccountOf, TokenOf
<1>10. ASSUME NEW g \in Goroutines, Rename(g) PROVE Done
  <2>1. Still(g) /\ current' = current /\ pc[g] = "write"
    BY <1>10 DEF Rename, Leave, Goto, Safe, TypeOK, current
  <2>2. CallOf(g) = "renewed"
    BY <2>1 DEF CallOf
  <2>3. CASE pc'[g] = "idle"
    <3>1. CallOf(g)' = "none"
      BY <2>3 DEF CallOf
    <3> QED BY <1>b, <2>1, <2>2, <3>1
  <2>4. CASE pc'[g] = "refreshed" /\ UNCHANGED <<acct, resp>>
    <3>1. CallOf(g)' = "answered"
      BY <2>4 DEF CallOf
    <3>2. AccountOf(g)' = AccountOf(g) /\ TokenOf(g)' = TokenOf(g)
      BY <2>2, <2>4, <3>1 DEF AccountOf, TokenOf
    <3>3. Service!Answer(g)
      BY <2>1, <2>2, <3>1, <3>2, Seen
    <3> QED BY <3>3 DEF Service!Next
  <2> QED BY <1>10, <2>3, <2>4 DEF Rename, Leave, Goto, Safe, TypeOK
<1>11. ASSUME NEW a \in Accounts, Age(a) PROVE Done
  BY <1>11 DEF Age, Service!vars, CallOf, AccountOf, TokenOf
<1>12. CASE Crash
  <2>1. /\ \A g \in Goroutines : pc'[g] = "idle"
        /\ \A a \in Accounts : mem'[a].access = file[a].access
    BY <1>12 DEF Crash
  <2>2. \A g \in Goroutines :
          CallOf(g)' = "none" /\ AccountOf(g)' = NoAccount /\ TokenOf(g)' = 0
    BY <2>1 DEF CallOf, AccountOf, TokenOf
  <2>3. \A a \in Accounts : /\ mem'[a].access \in Nat
                            /\ mem'[a].access <= mem[a].access
    BY <2>1, Numbers DEF Tokens, PerAccount
  <2>4. Service!Restart
    BY <2>2, <2>3 DEF Service!Restart
  <2> QED BY <2>4 DEF Service!Next
<1>13. CASE UNCHANGED vars
  BY <1>13 DEF vars, Service!vars, CallOf, AccountOf, TokenOf
<1> QED
  BY <1>1, <1>2, <1>3, <1>4, <1>5, <1>6, <1>7, <1>8, <1>9, <1>10, <1>11, <1>12,
     <1>13, StepCases
  DEF Steps

\* Lease.AccessToken keeps the promise of TokenService, for any number of
\* goroutines and through any restarts.
THEOREM ServiceImplemented == Spec => ImplementsService
<1>1. Init => Service!Init
  BY DEF Init, First, Service!Init, CallOf, AccountOf, TokenOf
<1>2. Safe /\ Safe' /\ Tokens /\ [Next]_vars => [Service!Next]_(Service!vars)
  BY ServiceStep
<1> QED BY <1>1, <1>2, Invariant, PTL DEF Spec, ImplementsService, Service!Spec
-----------------------------------------------------------------------------
\* With one goroutine: the file has the refresh token of memory, unless that
\* was lost or is being saved, and clones are not overtaken.
Alone == \A g, h \in Goroutines : g = h

Saving(a) ==
  \E g \in Goroutines : acct[g] = a /\ pc[g] \in {"assign", "save", "clone", "write"}

Kept ==
  \A a \in Accounts : file[a].refresh = mem[a].refresh \/ excused[a] # {} \/ Saving(a)

Cloned ==
  \A g \in Goroutines, a \in Accounts :
    snap[g][a] # NoClone => snap[g][a].refresh = mem[a].refresh

\* The steps of the process keep both.
LEMMA KeptStep ==
  ASSUME Alone, Safe, Safe', Tokens, Kept, Cloned, NEW g \in Goroutines, Steps(g)
  PROVE  Kept' /\ Cloned'
<1>1. \A h \in Goroutines : h = g
  BY DEF Alone
<1>2. ASSUME UNCHANGED <<mem, file>>,
             \A a \in Accounts : excused[a] \subseteq excused'[a],
             pc[g] \in {"assign", "save", "clone", "write"} =>
               acct' = acct /\ pc'[g] \in {"assign", "save", "clone", "write"}
      PROVE  Kept'
  <2> SUFFICES ASSUME NEW a \in Accounts
               PROVE  file[a].refresh = mem[a].refresh \/ excused'[a] # {} \/ Saving(a)'
    BY <1>2 DEF Kept
  <2>1. file[a].refresh = mem[a].refresh \/ excused[a] # {} \/ Saving(a)
    BY DEF Kept
  <2>2. Saving(a) => Saving(a)'
    BY <1>1, <1>2 DEF Saving
  <2> QED BY <1>2, <2>1, <2>2
<1>3. ASSUME UNCHANGED mem,
             \A a \in Accounts : snap'[g][a] \in {snap[g][a], NoClone}
      PROVE  Cloned'
  BY <1>1, <1>3 DEF Cloned
<1>4. ASSUME NEW a \in Accounts,
             NEW entry \in {"token", "account", "store"}, NEW force \in BOOLEAN,
             Call(g, a, entry, force)
      PROVE  Kept' /\ Cloned'
  BY <1>2, <1>3, <1>4 DEF Call, Idle
<1>5. CASE AccountCall(g) \/ StoreCall(g)
  BY <1>2, <1>3, <1>5 DEF AccountCall, StoreCall, Leave, Goto
<1>6. CASE UseCached(g) \/ Present(g) \/ ExchangeFails(g) \/ Grant(g)
  BY <1>2, <1>3, <1>6 DEF UseCached, Present, ExchangeFails, Grant, Leave, Goto
<1>7. CASE ReplyLost(g)
  <2>1. PICK a \in Accounts : a = acct[g]
    BY <1>7 DEF ReplyLost, Leave, Goto, Safe, Locks
  <2>2. excused' = IF server[a].refresh = mem[a].refresh THEN excused
                   ELSE [excused EXCEPT ![a] = @ \cup {"answer"}]
    BY <1>7, <2>1 DEF ReplyLost
  <2>3. \A b \in Accounts : excused[b] \subseteq excused'[b]
    BY <2>2 DEF Safe, TypeOK
  <2> QED BY <1>2, <1>3, <1>7, <2>3 DEF ReplyLost, Leave, Goto
<1>8. CASE AssignAccess(g)
  <2>1. PICK a \in Accounts : a = acct[g]
    BY <1>8 DEF AssignAccess, Goto, Safe, Locks
  <2>2. \A b \in Accounts : mem'[b].refresh = mem[b].refresh
    BY <1>8, <2>1 DEF AssignAccess, Safe, TypeOK, Pair
  <2>3. /\ pc[g] = "granted" /\ pc'[g] = "assign"
        /\ UNCHANGED <<file, acct, snap, excused>>
    BY <1>8 DEF AssignAccess, Goto, Safe, TypeOK
  <2>4. Kept'
    BY <1>1, <2>2, <2>3 DEF Kept, Saving
  <2>5. Cloned'
    BY <2>2, <2>3 DEF Cloned
  <2> QED BY <2>4, <2>5
<1>9. CASE AssignRest(g)
  <2>1. PICK a \in Accounts : a = acct[g]
    BY <1>9 DEF AssignRest, Goto, Safe, Locks
  <2>2. \A b \in Accounts \ {a} : mem'[b] = mem[b]
    BY <1>9, <2>1 DEF AssignRest, Safe, TypeOK
  <2>3. /\ pc[g] = "assign" /\ pc'[g] = "save"
        /\ UNCHANGED <<file, acct, snap, excused>>
    BY <1>9 DEF AssignRest, Goto, Safe, TypeOK
  <2>4. Kept'
    BY <1>1, <2>1, <2>2, <2>3 DEF Kept, Saving
  <2>5. \A h \in Goroutines, b \in Accounts : snap'[h][b] = NoClone
    BY <1>1, <2>3 DEF Safe, Locks
  <2> QED BY <2>4, <2>5 DEF Cloned
<1>10. CASE SaveBegins(g) \/ CloneEnds(g)
  BY <1>2, <1>3, <1>10 DEF SaveBegins, CloneEnds, Goto, Safe, TypeOK
<1>11. ASSUME NEW a \in Accounts, Clone(g, a) PROVE Kept' /\ Cloned'
  <2>1. Kept'
    BY <1>2, <1>11 DEF Clone
  <2>2. /\ snap'[g][a] = mem[a] /\ mem' = mem
        /\ \A b \in Accounts \ {a} : snap'[g][b] = snap[g][b]
    BY <1>11 DEF Clone, Safe, TypeOK
  <2>3. Cloned'
    BY <1>1, <2>2 DEF Cloned
  <2> QED BY <2>1, <2>3
<1>12. CASE WriteFails(g)
  <2>1. PICK a \in Accounts : a = acct[g]
    BY <1>12 DEF WriteFails, Leave, Goto, Safe, Locks
  <2>2. /\ UNCHANGED <<mem, file>>
        /\ excused'[a] # {} /\ \A b \in Accounts \ {a} : excused'[b] = excused[b]
    BY <1>12, <2>1 DEF WriteFails, Safe, TypeOK
  <2>3. \A b \in Accounts \ {a} : ~Saving(b)
    BY <1>1, <2>1 DEF Saving
  <2>4. Kept'
    BY <2>2, <2>3 DEF Kept
  <2>5. Cloned'
    BY <1>3, <1>12 DEF WriteFails, NoSnap, Safe, TypeOK
  <2> QED BY <2>4, <2>5
<1>13. CASE Rename(g)
  <2>1. /\ file' = snap[g] /\ mem' = mem /\ pc[g] = "write"
        /\ \A a \in Accounts : snap'[g][a] = NoClone
    BY <1>13 DEF Rename, Leave, Goto, NoSnap, Safe, TypeOK
  <2>2. \A a \in Accounts : snap[g][a].refresh = mem[a].refresh
    BY <2>1 DEF Safe, Locks, Cloned
  <2>3. Kept'
    BY <2>1, <2>2 DEF Kept
  <2> QED BY <1>3, <2>1, <2>3
<1> QED
  BY <1>4, <1>5, <1>6, <1>7, <1>8, <1>9, <1>10, <1>11, <1>12, <1>13 DEF Steps

\* A crash brings back what the file has, which is the last refresh token if
\* nothing was under way.
LEMMA CrashStep ==
  ASSUME Safe, Kept, Current, Crash PROVE Kept' /\ Cloned' /\ Current'
<1>1. /\ mem' = file /\ UNCHANGED <<file, server>>
      /\ \A g \in Goroutines, a \in Accounts : snap'[g][a] = NoClone
      /\ crashes' > 0
  BY StoreAssumption DEF StoreAssumption, Crash, NoSnap, Safe, TypeOK
<1>2. ASSUME NEW a \in Accounts
      PROVE  file[a].refresh = server[a].refresh \/ excused[a] # {} \/ Unsaved(a)
  <2>1. Saving(a) => Unsaved(a)
    BY DEF Saving, Unsaved
  <2>2. amu[a] \in Goroutines /\ pc[amu[a]] \in {"granted", "assign"} => Unsaved(a)
    BY DEF Unsaved, Safe, Locks
  <2>3. file[a].refresh = mem[a].refresh \/ excused[a] # {} \/ Saving(a)
    BY DEF Kept
  <2>4. \/ mem[a].refresh = server[a].refresh \/ excused[a] # {}
        \/ amu[a] \in Goroutines /\ pc[amu[a]] \in {"granted", "assign"}
    BY DEF Current
  <2> QED BY <2>1, <2>2, <2>3, <2>4
<1>3. Kept' /\ Cloned'
  BY <1>1 DEF Kept, Cloned
<1>4. \A a \in Accounts : mem'[a].refresh = server'[a].refresh \/ excused'[a] # {}
  <2> TAKE a \in Accounts
  <2>1. excused'[a] = excused[a] \cup IF Unsaved(a) THEN {"crash"} ELSE {}
    BY DEF Crash
  <2>2. excused[a] # {} \/ Unsaved(a) => excused'[a] # {}
    BY <2>1
  <2> QED BY <1>1, <1>2, <2>2
<1>5. Current'
  BY <1>1, <1>4 DEF Current
<1> QED BY <1>3, <1>5

\* Where refreshes and saves follow one another, a restart at any point finds
\* the refresh token the server accepts, unless the refresh it cut off, a lost
\* answer or a failed save took it.
THEOREM RotationDurable ==
  ASSUME Alone PROVE Spec => []RotationIsDurable
<1> DEFINE I == Kept /\ Cloned /\ Current
<1>1. Init => I
  BY CurrentInit DEF Init, Kept, Cloned, NoSnap
<1>2. ASSUME Safe, Safe', Tokens, I, [Next]_vars PROVE I'
  <2>1. ASSUME NEW g \in Goroutines, Steps(g), ~Crash PROVE I'
    BY <1>2, <2>1, KeptStep, CurrentStep
  <2>2. ASSUME NEW a \in Accounts, Age(a), ~Crash PROVE I'
    <3>1. Current'
      BY <1>2, <2>2, CurrentStep
    <3> QED BY <1>2, <2>2, <3>1 DEF Age, Kept, Cloned, Saving
  <2>3. CASE Crash
    BY <1>2, <2>3, CrashStep
  <2>4. CASE UNCHANGED vars
    BY <1>2, <2>4 DEF vars, Kept, Cloned, Saving, Current
  <2> QED BY <1>2, <2>1, <2>2, <2>3, <2>4, StepCases
<1>3. Safe /\ I => RotationIsDurable
  <2> SUFFICES ASSUME Safe, I PROVE RotationIsDurable
    OBVIOUS
  <2> SUFFICES ASSUME \A g \in Goroutines : Idle(g), NEW a \in Accounts
               PROVE  file[a].refresh = server[a].refresh \/ excused[a] # {}
    BY DEF RotationIsDurable
  <2>1. ~Saving(a)
    BY DEF Idle, Saving
  <2>2. ~(amu[a] \in Goroutines /\ pc[amu[a]] \in {"granted", "assign"})
    BY DEF Idle
  <2>3. file[a].refresh = mem[a].refresh \/ excused[a] # {}
    BY <2>1 DEF Kept
  <2>4. mem[a].refresh = server[a].refresh \/ excused[a] # {}
    BY <2>2 DEF Current
  <2> QED BY <2>3, <2>4
<1> QED BY <1>1, <1>2, <1>3, Invariant, PTL DEF Spec
=============================================================================
