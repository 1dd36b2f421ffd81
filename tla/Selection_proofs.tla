---------------------------- MODULE Selection_proofs -------------------------
(***************************************************************************)
(* What Only returns, whatever the sequence.  The induction theorems of    *)
(* the library take an operator, so the facts are proved over sets: first  *)
(* that a set of naturals or of sequences that is closed holds them all.   *)
(***************************************************************************)
EXTENDS Selection, SequenceTheorems, WellFoundedInduction, TLAPS

LEMMA NatInduct ==
  ASSUME NEW Q, 0 \in Q, \A n \in Nat : n \in Q => n + 1 \in Q
  PROVE  Nat \subseteq Q
<1> DEFINE Left == Nat \ Q
<1>1. ASSUME Left # {} PROVE FALSE
  <2> DEFINE R == OpToRel(<, Nat)
  <2>1. \E m \in Left : \A k \in Left : ~ (<<k, m>> \in R)
    <3>1. IsWellFoundedOn(R, Nat)
      BY NatLessThanWellFounded
    <3>2. Left \subseteq Nat
      OBVIOUS
    <3> HIDE DEF R, Left
    <3> QED BY <1>1, <3>1, <3>2, WFMin
  <2>2. PICK m \in Left : \A k \in Left : ~ (<<k, m>> \in R)
    BY <2>1
  <2>3. m - 1 \in Left /\ m \in Nat /\ m - 1 < m
    OBVIOUS
  <2>4. <<m - 1, m>> \in R
    BY <2>3, Zenon DEF OpToRel
  <2> QED BY <2>2, <2>3, <2>4
<1> QED BY <1>1

LEMMA SeqInduct ==
  ASSUME NEW T, NEW Q, <<>> \in Q,
         \A s \in Seq(T), x \in T : s \in Q => Append(s, x) \in Q
  PROVE  Seq(T) \subseteq Q
<1> DEFINE N == {n \in Nat : \A s \in Seq(T) : Len(s) = n => s \in Q}
<1>1. 0 \in N
  BY EmptySeq
<1>2. ASSUME NEW n \in Nat, n \in N PROVE n + 1 \in N
  <2> SUFFICES ASSUME NEW s \in Seq(T), Len(s) = n + 1 PROVE s \in Q
    OBVIOUS
  <2>1. s # <<>>
    OBVIOUS
  <2>2. PICK r \in Seq(T), x \in T : s = Append(r, x)
    BY <2>1, SequenceEmptyOrAppend
  <2>3. Len(r) = n
    BY <2>2
  <2> QED BY <1>2, <2>2, <2>3
<1> HIDE DEF N
<1>3. Nat \subseteq N
  BY <1>1, <1>2, NatInduct
<1> QED BY <1>3 DEF N

\* The steps a loop of N passes may take from values in V, and the values that
\* one such loop goes through from a on.
Steps(N, V) == [(1 .. N) \X V -> V]

Passes(G, a, N, V) ==
  {f \in [0 .. N -> V] : f[0] = a /\ \A n \in 1 .. N : f[n] = G[<<n, f[n - 1]>>]}

\* They exist, so a definition of f[n \in 0 .. N] from f[n - 1] means what it says.
LEMMA Recursion ==
  ASSUME NEW V, NEW a \in V, NEW N \in Nat, NEW G \in Steps(N, V)
  PROVE  Passes(G, a, N, V) # {}
<1> USE DEF Steps
<1> DEFINE Upto(m) == Passes(G, a, m, V)
           Q == {m \in Nat : m <= N => Upto(m) # {}}
<1>1. 0 \in Q
  <2>1. [n \in 0 .. 0 |-> a] \in Upto(0)
    BY DEF Passes
  <2> QED BY <2>1
<1>2. ASSUME NEW m \in Nat, m \in Q PROVE m + 1 \in Q
  <2> SUFFICES ASSUME m + 1 <= N PROVE Upto(m + 1) # {}
    OBVIOUS
  <2>1. PICK f \in Upto(m) : TRUE
    BY <1>2
  <2> USE DEF Passes
  <2> DEFINE g == [n \in 0 .. m + 1 |-> IF n = m + 1 THEN G[<<m + 1, f[m]>>] ELSE f[n]]
  <2>2. f[m] \in V /\ <<m + 1, f[m]>> \in (1 .. N) \X V
    BY <2>1
  <2>3. G[<<m + 1, f[m]>>] \in V
    BY <2>2
  <2>4. g \in [0 .. m + 1 -> V]
    BY <2>1, <2>3
  <2>5. g[0] = a
    BY <2>1
  <2>6. ASSUME NEW n \in 1 .. m + 1 PROVE g[n] = G[<<n, g[n - 1]>>]
    <3>1. CASE n = m + 1
      <4>1. g[n] = G[<<m + 1, f[m]>>] /\ g[n - 1] = f[m]
        BY <3>1
      <4> QED BY <3>1, <4>1
    <3>2. CASE n \in 1 .. m
      <4>1. g[n] = f[n] /\ g[n - 1] = f[n - 1]
        BY <3>2
      <4>2. f[n] = G[<<n, f[n - 1]>>]
        BY <2>1, <3>2
      <4> QED BY <4>1, <4>2
    <3> QED BY <3>1, <3>2
  <2>7. g \in Upto(m + 1)
    BY <2>4, <2>5, <2>6
  <2> QED BY <2>7
<1> HIDE DEF Q
<1>3. Nat \subseteq Q
  BY <1>1, <1>2, NatInduct
<1>4. Upto(N) # {}
  <2> HIDE DEF Upto
  <2> QED BY <1>3 DEF Q
<1> QED BY <1>4

\* The passes of Only, each from the one before.
Keeps(f, s, S) ==
  /\ f[0] = <<>>
  /\ \A n \in 1 .. Len(s) :
       f[n] = IF s[n] \in S THEN Append(f[n - 1], s[n]) ELSE f[n - 1]
  /\ Only(s, S) = f[Len(s)]

LEMMA OnlyPasses ==
  ASSUME NEW T, NEW s \in Seq(T), NEW S
  PROVE  \E f : Keeps(f, s, S)
<1> DEFINE N == Len(s)
           Body(f) == [n \in 0 .. N |-> IF n = 0 THEN <<>>
                         ELSE IF s[n] \in S THEN Append(f[n - 1], s[n]) ELSE f[n - 1]]
           kept == CHOOSE f : f = Body(f)
           G == [p \in (1 .. N) \X Seq(T) |->
                   IF s[p[1]] \in S THEN Append(p[2], s[p[1]]) ELSE p[2]]
<1>1. N \in Nat /\ \A n \in 1 .. N : s[n] \in T
  OBVIOUS
<1>2. G \in [(1 .. N) \X Seq(T) -> Seq(T)]
  BY <1>1
<1>3. \E f \in [0 .. N -> Seq(T)] :
        f[0] = <<>> /\ \A n \in 1 .. N : f[n] = G[<<n, f[n - 1]>>]
  <2> DEFINE V == Seq(T)
             a == <<>>
  <2>1. a \in V /\ N \in Nat /\ G \in Steps(N, V)
    BY <1>1, <1>2, EmptySeq DEF Steps
  <2>2. Passes(G, a, N, V) # {}
    <3> HIDE DEF G, N, V, a
    <3> QED BY <2>1, Recursion
  <2> QED BY <2>2 DEF Passes
<1>4. PICK g \in [0 .. N -> Seq(T)] :
        g[0] = <<>> /\ \A n \in 1 .. N : g[n] = G[<<n, g[n - 1]>>]
  BY <1>3
<1>5. \A n \in 1 .. N : g[n] = IF s[n] \in S THEN Append(g[n - 1], s[n]) ELSE g[n - 1]
  <2> SUFFICES ASSUME NEW n \in 1 .. N
               PROVE  g[n] = IF s[n] \in S THEN Append(g[n - 1], s[n]) ELSE g[n - 1]
    OBVIOUS
  <2>1. n - 1 \in 0 .. N
    BY <1>1
  <2>2. g[n - 1] \in Seq(T)
    BY <1>4, <2>1
  <2>3. <<n, g[n - 1]>> \in (1 .. N) \X Seq(T)
    BY <2>2
  <2>4. g[n] = G[<<n, g[n - 1]>>]
    BY <1>4
  <2> QED BY <2>3, <2>4
<1>6. g = Body(g)
  <2>1. DOMAIN g = 0 .. N /\ g = [n \in 0 .. N |-> g[n]]
    BY <1>4
  <2>2. \A n \in 0 .. N : n = 0 \/ n \in 1 .. N
    BY <1>1
  <2>3. \A n \in 0 .. N : g[n] = IF n = 0 THEN <<>>
           ELSE IF s[n] \in S THEN Append(g[n - 1], s[n]) ELSE g[n - 1]
    <3> HIDE DEF N
    <3> QED BY <2>2, <1>4, <1>5
  <2> HIDE DEF N
  <2> QED BY <2>1, <2>3
<1>7. kept = Body(kept)
  BY <1>6
<1>8. Only(s, S) = kept[N]
  BY DEF Only
<1> HIDE DEF kept, N
<1>9. kept[0] = <<>>
  <2>1. 0 \in 0 .. N
    BY <1>1
  <2> QED BY <1>7, <2>1
<1>10. \A n \in 1 .. N :
         kept[n] = IF s[n] \in S THEN Append(kept[n - 1], s[n]) ELSE kept[n - 1]
  <2>1. \A n \in 1 .. N : n \in 0 .. N /\ n # 0
    BY <1>1
  <2> QED BY <1>7, <2>1
<1> QED BY <1>8, <1>9, <1>10 DEF Keeps, N

LEMMA OnlyEmpty == \A S : Only(<<>>, S) = <<>>
<1> SUFFICES ASSUME NEW S PROVE Only(<<>>, S) = <<>>
  OBVIOUS
<1>1. <<>> \in Seq({}) /\ Len(<<>>) = 0
  BY EmptySeq
<1>2. PICK f : Keeps(f, <<>>, S)
  BY <1>1, OnlyPasses
<1> QED BY <1>1, <1>2 DEF Keeps

LEMMA OnlyAppend ==
  ASSUME NEW T, NEW s \in Seq(T), NEW x \in T, NEW S
  PROVE  Only(Append(s, x), S) = IF x \in S THEN Append(Only(s, S), x) ELSE Only(s, S)
<1> DEFINE N == Len(s)
           t == Append(s, x)
<1>1. /\ N \in Nat /\ t \in Seq(T) /\ Len(t) = N + 1 /\ t[N + 1] = x
      /\ \A n \in 1 .. N : t[n] = s[n]
  BY AppendProperties
<1>2. PICK f : /\ f[0] = <<>>
               /\ \A n \in 1 .. N :
                    f[n] = IF s[n] \in S THEN Append(f[n - 1], s[n]) ELSE f[n - 1]
               /\ Only(s, S) = f[N]
  <2>1. \E f : Keeps(f, s, S)
    BY OnlyPasses
  <2> QED BY <2>1 DEF Keeps
<1>3. PICK g : /\ g[0] = <<>>
               /\ \A n \in 1 .. N + 1 :
                    g[n] = IF t[n] \in S THEN Append(g[n - 1], t[n]) ELSE g[n - 1]
               /\ Only(t, S) = g[N + 1]
  <2> HIDE DEF t, N
  <2>1. \E g : Keeps(g, t, S)
    BY <1>1, OnlyPasses
  <2> QED BY <1>1, <2>1 DEF Keeps
<1>4. f[N] = g[N]
  <2> DEFINE Q == {n \in Nat : n <= N => f[n] = g[n]}
  <2>1. 0 \in Q
    BY <1>2, <1>3
  <2>2. ASSUME NEW n \in Nat, n \in Q PROVE n + 1 \in Q
    <3> SUFFICES ASSUME n + 1 <= N PROVE f[n + 1] = g[n + 1]
      OBVIOUS
    <3>1. f[n] = g[n] /\ n + 1 \in 1 .. N /\ n + 1 \in 1 .. N + 1 /\ (n + 1) - 1 = n
      BY <1>1, <2>2
    <3>2. t[n + 1] = s[n + 1]
      BY <1>1, <3>1
    <3> HIDE DEF t, N
    <3>3. f[n + 1] = IF s[n + 1] \in S THEN Append(f[n], s[n + 1]) ELSE f[n]
      BY <1>2, <3>1
    <3>4. g[n + 1] = IF t[n + 1] \in S THEN Append(g[n], t[n + 1]) ELSE g[n]
      BY <1>3, <3>1
    <3> QED BY <3>1, <3>2, <3>3, <3>4
  <2> HIDE DEF Q
  <2>3. Nat \subseteq Q
    BY <2>1, <2>2, NatInduct
  <2> QED BY <1>1, <2>3 DEF Q
<1>5. g[N + 1] = IF t[N + 1] \in S THEN Append(g[N], t[N + 1]) ELSE g[N]
  <2>1. N + 1 \in 1 .. N + 1 /\ (N + 1) - 1 = N
    BY <1>1
  <2> HIDE DEF t, N
  <2> QED BY <1>3, <2>1
<1> HIDE DEF N
<1>6. Only(t, S) = IF x \in S THEN Append(Only(s, S), x) ELSE Only(s, S)
  <2> HIDE DEF t
  <2> QED BY <1>1, <1>2, <1>3, <1>4, <1>5
<1> QED BY <1>6

\* What is kept is of the sequence and in the set.
LEMMA OnlyType ==
  ASSUME NEW T, NEW S
  PROVE  \A s \in Seq(T) : /\ Only(s, S) \in Seq(T)
                           /\ \A i \in 1 .. Len(Only(s, S)) : Only(s, S)[i] \in S
<1> DEFINE Q == {s \in Seq(T) : /\ Only(s, S) \in Seq(T)
                                /\ \A i \in 1 .. Len(Only(s, S)) : Only(s, S)[i] \in S}
<1>1. <<>> \in Q
  <2>1. Only(<<>>, S) = <<>>
    BY OnlyEmpty
  <2>2. <<>> \in Seq(T) /\ Len(<<>>) = 0
    BY EmptySeq
  <2>3. \A i \in 1 .. Len(Only(<<>>, S)) : Only(<<>>, S)[i] \in S
    BY <2>1, <2>2
  <2>4. Only(<<>>, S) \in Seq(T)
    BY <2>1, <2>2, Zenon
  <2> QED BY <2>2, <2>3, <2>4, Zenon
<1>2. ASSUME NEW s \in Seq(T), NEW x \in T, s \in Q PROVE Append(s, x) \in Q
  <2>1. Append(s, x) \in Seq(T)
    OBVIOUS
  <2>2. Only(Append(s, x), S) = IF x \in S THEN Append(Only(s, S), x) ELSE Only(s, S)
    BY OnlyAppend
  <2>3. /\ Only(s, S) \in Seq(T)
        /\ \A i \in 1 .. Len(Only(s, S)) : Only(s, S)[i] \in S
    BY <1>2
  <2>4. CASE x \in S
    <3>1. /\ Append(Only(s, S), x) \in Seq(T)
          /\ Len(Append(Only(s, S), x)) = Len(Only(s, S)) + 1
          /\ \A i \in 1 .. Len(Only(s, S)) : Append(Only(s, S), x)[i] = Only(s, S)[i]
          /\ Append(Only(s, S), x)[Len(Only(s, S)) + 1] = x
      BY <2>3, AppendProperties
    <3> QED BY <2>1, <2>2, <2>3, <2>4, <3>1
  <2>5. CASE x \notin S
    BY <2>1, <2>2, <2>3, <2>5
  <2> QED BY <2>4, <2>5
<1> HIDE DEF Q
<1>3. Seq(T) \subseteq Q
  BY <1>1, <1>2, SeqInduct
<1> QED BY <1>3 DEF Q

\* Sets that agree about the elements of a sequence keep the same of it.
LEMMA OnlySame ==
  ASSUME NEW T, NEW R, NEW S, \A x \in T : x \in R <=> x \in S
  PROVE  \A s \in Seq(T) : Only(s, R) = Only(s, S)
<1> DEFINE Q == {s \in Seq(T) : Only(s, R) = Only(s, S)}
<1>1. <<>> \in Q
  BY OnlyEmpty
<1>2. ASSUME NEW s \in Seq(T), NEW x \in T, s \in Q PROVE Append(s, x) \in Q
  <2>1. Append(s, x) \in Seq(T)
    OBVIOUS
  <2>2. /\ Only(Append(s, x), S) = IF x \in S THEN Append(Only(s, S), x) ELSE Only(s, S)
        /\ Only(Append(s, x), R) = IF x \in R THEN Append(Only(s, R), x) ELSE Only(s, R)
    BY OnlyAppend
  <2> QED BY <1>2, <2>1, <2>2
<1> HIDE DEF Q
<1>3. Seq(T) \subseteq Q
  BY <1>1, <1>2, SeqInduct
<1> QED BY <1>3 DEF Q

LEMMA OnlyConcat ==
  ASSUME NEW T, NEW s \in Seq(T), NEW S
  PROVE  \A t \in Seq(T) : Only(s \o t, S) = Only(s, S) \o Only(t, S)
<1> DEFINE Q == {t \in Seq(T) : Only(s \o t, S) = Only(s, S) \o Only(t, S)}
<1>0. \A t \in Seq(T) : Only(t, S) \in Seq(T)
  BY OnlyType
<1>1. <<>> \in Q
  BY <1>0, OnlyEmpty
<1>2. ASSUME NEW t \in Seq(T), NEW x \in T, t \in Q PROVE Append(t, x) \in Q
  <2>1. Append(t, x) \in Seq(T)
    OBVIOUS
  <2>2. s \o Append(t, x) = Append(s \o t, x) /\ s \o t \in Seq(T)
    OBVIOUS
  <2>3. /\ Only(Append(t, x), S) = IF x \in S THEN Append(Only(t, S), x) ELSE Only(t, S)
        /\ Only(Append(s \o t, x), S) =
             IF x \in S THEN Append(Only(s \o t, S), x) ELSE Only(s \o t, S)
    BY <2>2, OnlyAppend
  <2>4. Only(s \o t, S) = Only(s, S) \o Only(t, S)
    BY <1>2
  <2>5. Append(Only(s, S) \o Only(t, S), x) = Only(s, S) \o Append(Only(t, S), x)
    <3>1. Only(s, S) \in Seq(T) /\ Only(t, S) \in Seq(T)
      BY <1>0
    <3> DEFINE u == Only(s, S)
               v == Only(t, S)
    <3> HIDE DEF u, v
    <3>2. u \in Seq(T) /\ v \in Seq(T)
      BY <3>1 DEF u, v
    <3>3. Append(u \o v, x) = u \o Append(v, x)
      <4>1. /\ Append(u \o v, x) \in Seq(T) /\ u \o Append(v, x) \in Seq(T)
            /\ Len(Append(u \o v, x)) = Len(u \o Append(v, x))
        BY <3>2
      <4>2. \A i \in 1 .. Len(Append(u \o v, x)) :
              Append(u \o v, x)[i] = (u \o Append(v, x))[i]
        BY <3>2
      <4> QED BY <4>1, <4>2, SeqEqual
    <3> QED BY <3>3 DEF u, v
  <2> QED BY <2>1, <2>2, <2>3, <2>4, <2>5
<1> HIDE DEF Q
<1>3. Seq(T) \subseteq Q
  BY <1>1, <1>2, SeqInduct
<1> QED BY <1>3 DEF Q

LEMMA OnlyOnly ==
  ASSUME NEW T, NEW R, NEW S
  PROVE  \A s \in Seq(T) : Only(Only(s, R), S) = Only(s, R \cap S)
<1> DEFINE Q == {s \in Seq(T) : Only(Only(s, R), S) = Only(s, R \cap S)}
<1>0. \A s \in Seq(T) : Only(s, R) \in Seq(T)
  BY OnlyType
<1>1. <<>> \in Q
  BY OnlyEmpty
<1>2. ASSUME NEW s \in Seq(T), NEW x \in T, s \in Q PROVE Append(s, x) \in Q
  <2>1. Append(s, x) \in Seq(T)
    OBVIOUS
  <2>2. /\ Only(Append(s, x), R) = IF x \in R THEN Append(Only(s, R), x) ELSE Only(s, R)
        /\ Only(Append(s, x), R \cap S) =
             IF x \in R \cap S THEN Append(Only(s, R \cap S), x) ELSE Only(s, R \cap S)
    BY OnlyAppend
  <2>3. Only(Append(Only(s, R), x), S) =
          IF x \in S THEN Append(Only(Only(s, R), S), x) ELSE Only(Only(s, R), S)
    BY <1>0, OnlyAppend
  <2>4. Only(Only(s, R), S) = Only(s, R \cap S)
    BY <1>2
  <2>5. CASE x \in R
    <3>1. Only(Append(s, x), R) = Append(Only(s, R), x)
      BY <2>2, <2>5
    <3>2. Only(Only(Append(s, x), R), S) =
            IF x \in S THEN Append(Only(s, R \cap S), x) ELSE Only(s, R \cap S)
      BY <2>3, <2>4, <3>1
    <3>3. Only(Append(s, x), R \cap S) =
            IF x \in S THEN Append(Only(s, R \cap S), x) ELSE Only(s, R \cap S)
      BY <2>2, <2>5
    <3>4. Only(Only(Append(s, x), R), S) = Only(Append(s, x), R \cap S)
      <4>1. CASE x \in S
        BY <3>2, <3>3, <4>1
      <4>2. CASE x \notin S
        BY <3>2, <3>3, <4>2
      <4> QED BY <4>1, <4>2
    <3> QED BY <2>1, <3>4
  <2>6. CASE x \notin R
    BY <2>1, <2>2, <2>4, <2>6
  <2> QED BY <2>5, <2>6
<1> HIDE DEF Q
<1>3. Seq(T) \subseteq Q
  BY <1>1, <1>2, SeqInduct
<1> QED BY <1>3 DEF Q

LEMMA OnlyOne ==
  ASSUME NEW x, NEW S
  PROVE  Only(<<x>>, S) = IF x \in S THEN <<x>> ELSE <<>>
<1>1. <<>> \in Seq({x}) /\ x \in {x}
  BY EmptySeq
<1>2. Only(Append(<<>>, x), S) =
        IF x \in S THEN Append(Only(<<>>, S), x) ELSE Only(<<>>, S)
  BY <1>1, OnlyAppend
<1>3. Append(<<>>, x) = <<x>>
  OBVIOUS
<1>4. Only(<<>>, S) = <<>>
  BY OnlyEmpty
<1> QED BY <1>2, <1>3, <1>4

LEMMA OnlyAll ==
  ASSUME NEW T, NEW S
  PROVE  \A s \in Seq(T) : (\A i \in 1 .. Len(s) : s[i] \in S) => Only(s, S) = s
<1> DEFINE Q == {s \in Seq(T) : (\A i \in 1 .. Len(s) : s[i] \in S) => Only(s, S) = s}
<1>1. <<>> \in Q
  <2>1. Only(<<>>, S) = <<>>
    BY OnlyEmpty
  <2>2. <<>> \in Seq(T)
    BY EmptySeq
  <2> QED BY <2>1, <2>2, Zenon
<1>2. ASSUME NEW s \in Seq(T), NEW x \in T, s \in Q PROVE Append(s, x) \in Q
  <2> SUFFICES ASSUME \A i \in 1 .. Len(Append(s, x)) : Append(s, x)[i] \in S
               PROVE  Only(Append(s, x), S) = Append(s, x)
    BY AppendProperties
  <2>1. /\ Len(Append(s, x)) = Len(s) + 1 /\ Append(s, x)[Len(s) + 1] = x
        /\ \A i \in 1 .. Len(s) : Append(s, x)[i] = s[i]
    BY AppendProperties
  <2>2. x \in S /\ \A i \in 1 .. Len(s) : s[i] \in S
    BY <2>1
  <2>3. Only(s, S) = s
    BY <1>2, <2>2
  <2>4. Only(Append(s, x), S) = IF x \in S THEN Append(Only(s, S), x) ELSE Only(s, S)
    BY OnlyAppend
  <2> QED BY <2>2, <2>3, <2>4
<1> HIDE DEF Q
<1>3. Seq(T) \subseteq Q
  BY <1>1, <1>2, SeqInduct
<1> QED BY <1>3 DEF Q

LEMMA OnlyNone ==
  ASSUME NEW T, NEW S
  PROVE  \A s \in Seq(T) : (\A i \in 1 .. Len(s) : s[i] \notin S) => Only(s, S) = <<>>
<1> DEFINE Q == {s \in Seq(T) : (\A i \in 1 .. Len(s) : s[i] \notin S) => Only(s, S) = <<>>}
<1>1. <<>> \in Q
  <2>1. Only(<<>>, S) = <<>>
    BY OnlyEmpty
  <2>2. <<>> \in Seq(T)
    BY EmptySeq
  <2> QED BY <2>1, <2>2, Zenon
<1>2. ASSUME NEW s \in Seq(T), NEW x \in T, s \in Q PROVE Append(s, x) \in Q
  <2> SUFFICES ASSUME \A i \in 1 .. Len(Append(s, x)) : Append(s, x)[i] \notin S
               PROVE  Only(Append(s, x), S) = <<>>
    BY AppendProperties
  <2>1. /\ Len(Append(s, x)) = Len(s) + 1 /\ Append(s, x)[Len(s) + 1] = x
        /\ \A i \in 1 .. Len(s) : Append(s, x)[i] = s[i]
    BY AppendProperties
  <2>2. x \notin S /\ \A i \in 1 .. Len(s) : s[i] \notin S
    BY <2>1
  <2>3. Only(s, S) = <<>>
    BY <1>2, <2>2
  <2>4. Only(Append(s, x), S) = IF x \in S THEN Append(Only(s, S), x) ELSE Only(s, S)
    BY OnlyAppend
  <2> QED BY <2>2, <2>3, <2>4
<1> HIDE DEF Q
<1>3. Seq(T) \subseteq Q
  BY <1>1, <1>2, SeqInduct
<1> QED BY <1>3 DEF Q

\* g takes the places of r to those of s it was selected from, in order: each
\* place of s with an element of S, once.
SelectedFrom(g, r, s, S) ==
  /\ g \in [1 .. Len(r) -> 1 .. Len(s)]
  /\ \A i, j \in 1 .. Len(r) : i < j => g[i] < g[j]
  /\ \A i \in 1 .. Len(r) : r[i] = s[g[i]] /\ r[i] \in S
  /\ \A k \in 1 .. Len(s) : s[k] \in S => \E i \in 1 .. Len(r) : g[i] = k

LEMMA OnlyPlaces ==
  ASSUME NEW T, NEW S
  PROVE  \A s \in Seq(T) : \E g : SelectedFrom(g, Only(s, S), s, S)
<1> DEFINE Q == {s \in Seq(T) : \E g : SelectedFrom(g, Only(s, S), s, S)}
<1>1. <<>> \in Q
  <2>1. Only(<<>>, S) = <<>>
    BY OnlyEmpty
  <2>2. <<>> \in Seq(T) /\ Len(<<>>) = 0
    BY EmptySeq
  <2>3. SelectedFrom([i \in 1 .. 0 |-> 0], <<>>, <<>>, S)
    BY <2>2 DEF SelectedFrom
  <2>4. \E g : SelectedFrom(g, Only(<<>>, S), <<>>, S)
    BY <2>1, <2>3
  <2> QED BY <2>2, <2>4, Zenon
<1>2. ASSUME NEW s \in Seq(T), NEW x \in T, s \in Q PROVE Append(s, x) \in Q
  <2> DEFINE t == Append(s, x)
             r == Only(s, S)
             q == Only(t, S)
             N == Len(s)
             M == Len(r)
  <2>1. /\ t \in Seq(T) /\ N \in Nat /\ Len(t) = N + 1 /\ t[N + 1] = x
        /\ \A k \in 1 .. N : t[k] = s[k]
    BY AppendProperties
  <2>2. q = IF x \in S THEN Append(r, x) ELSE r
    BY OnlyAppend
  <2>3. r \in Seq(T) /\ M \in Nat
    BY OnlyType
  <2>4. PICK g : SelectedFrom(g, r, s, S)
    BY <1>2
  <2>5. CASE x \in S
    <3> DEFINE h == [i \in 1 .. M + 1 |-> IF i <= M THEN g[i] ELSE N + 1]
    <3>1. q = Append(r, x)
      BY <2>2, <2>5
    <3>2. /\ Len(q) = M + 1 /\ q[M + 1] = x
          /\ \A i \in 1 .. M : q[i] = r[i]
      BY <2>3, <3>1, AppendProperties
    <3> HIDE DEF t, r, q, N, M
    <3>3. /\ g \in [1 .. M -> 1 .. N]
          /\ \A i, j \in 1 .. M : i < j => g[i] < g[j]
          /\ \A i \in 1 .. M : r[i] = s[g[i]] /\ r[i] \in S
          /\ \A k \in 1 .. N : s[k] \in S => \E i \in 1 .. M : g[i] = k
      BY <2>4 DEF SelectedFrom, N, M
    <3>4. h \in [1 .. M + 1 -> 1 .. N + 1]
      BY <2>1, <2>3, <3>3
    <3>5. \A i, j \in 1 .. M + 1 : i < j => h[i] < h[j]
      BY <2>1, <2>3, <3>3
    <3>6. ASSUME NEW i \in 1 .. M + 1 PROVE q[i] = t[h[i]] /\ q[i] \in S
      <4>1. CASE i \in 1 .. M
        <5>1. h[i] = g[i] /\ g[i] \in 1 .. N
          BY <2>3, <3>3, <4>1
        <5>2. q[i] = s[g[i]] /\ q[i] \in S
          BY <3>2, <3>3, <4>1
        <5> QED BY <2>1, <5>1, <5>2
      <4>2. CASE i = M + 1
        BY <2>1, <2>3, <2>5, <3>2, <4>2
      <4> QED BY <2>3, <4>1, <4>2
    <3>7. ASSUME NEW k \in 1 .. N + 1, t[k] \in S
          PROVE  \E i \in 1 .. M + 1 : h[i] = k
      <4>1. CASE k \in 1 .. N
        <5>1. PICK i \in 1 .. M : g[i] = k
          BY <2>1, <3>3, <3>7, <4>1
        <5>2. i \in 1 .. M + 1 /\ h[i] = k
          BY <2>3, <5>1
        <5> QED BY <5>2
      <4>2. CASE k = N + 1
        <5>1. M + 1 \in 1 .. M + 1 /\ h[M + 1] = k
          BY <2>3, <4>2
        <5> QED BY <5>1
      <4> QED BY <2>1, <4>1, <4>2
    <3>8. SelectedFrom(h, q, t, S)
      <4> HIDE DEF h
      <4> QED BY <2>1, <3>2, <3>4, <3>5, <3>6, <3>7 DEF SelectedFrom
    <3> QED BY <2>1, <3>8 DEF t, q
  <2>6. CASE x \notin S
    <3>1. q = r
      BY <2>2, <2>6
    <3> HIDE DEF t, r, q, N, M
    <3>2. /\ g \in [1 .. M -> 1 .. N]
          /\ \A i, j \in 1 .. M : i < j => g[i] < g[j]
          /\ \A i \in 1 .. M : r[i] = s[g[i]] /\ r[i] \in S
          /\ \A k \in 1 .. N : s[k] \in S => \E i \in 1 .. M : g[i] = k
      BY <2>4 DEF SelectedFrom, N, M
    <3>3. g \in [1 .. M -> 1 .. N + 1]
      BY <2>1, <3>2
    <3>4. \A i \in 1 .. M : r[i] = t[g[i]] /\ r[i] \in S
      BY <2>1, <3>2
    <3>5. \A k \in 1 .. N + 1 : t[k] \in S => \E i \in 1 .. M : g[i] = k
      BY <2>1, <2>6, <3>2
    <3>6. SelectedFrom(g, q, t, S)
      BY <2>1, <3>1, <3>2, <3>3, <3>4, <3>5 DEF SelectedFrom, M
    <3> QED BY <2>1, <3>6 DEF t, q
  <2> QED BY <2>5, <2>6
<1> HIDE DEF Q
<1>3. Seq(T) \subseteq Q
  BY <1>1, <1>2, SeqInduct
<1> QED BY <1>3 DEF Q

\* From sequences that agree place by place about what is kept, the same places
\* are kept: what relates their elements (R[x] are those related to x) relates
\* what is kept.
LEMMA OnlyPaired ==
  ASSUME NEW T, NEW U, NEW S, NEW P, NEW R,
         NEW s \in Seq(T), NEW t \in Seq(U), Len(t) = Len(s),
         \A i \in 1 .. Len(s) :
           /\ s[i] \in S <=> t[i] \in P
           /\ s[i] \in S => t[i] \in R[s[i]]
  PROVE  /\ Len(Only(t, P)) = Len(Only(s, S))
         /\ \A i \in 1 .. Len(Only(s, S)) : Only(t, P)[i] \in R[Only(s, S)[i]]
<1> DEFINE Paired(a, b) ==
             /\ Len(b) = Len(a)
             /\ \A i \in 1 .. Len(a) : b[i] \in R[a[i]]
           Both(a, b) ==
             /\ Len(b) = Len(a)
             /\ \A i \in 1 .. Len(a) :
                  /\ a[i] \in S <=> b[i] \in P
                  /\ a[i] \in S => b[i] \in R[a[i]]
           Q == {a \in Seq(T) : \A b \in Seq(U) :
                   Both(a, b) => Paired(Only(a, S), Only(b, P))}
<1>1. <<>> \in Q
  <2>1. <<>> \in Seq(T) /\ Len(<<>>) = 0
    BY EmptySeq
  <2>2. ASSUME NEW b \in Seq(U), Both(<<>>, b) PROVE Paired(Only(<<>>, S), Only(b, P))
    <3>1. Len(b) = 0
      BY <2>1, <2>2
    <3>2. b = <<>>
      BY <3>1, EmptySeq
    <3>3. Only(<<>>, S) = <<>> /\ Only(b, P) = <<>>
      BY <3>2, OnlyEmpty
    <3> QED BY <2>1, <3>3
  <2> QED BY <2>1, <2>2, Zenon
<1>2. ASSUME NEW a \in Seq(T), NEW x \in T, a \in Q PROVE Append(a, x) \in Q
  <2>1. /\ Append(a, x) \in Seq(T) /\ Len(Append(a, x)) = Len(a) + 1
        /\ Append(a, x)[Len(a) + 1] = x /\ Len(a) \in Nat
        /\ \A i \in 1 .. Len(a) : Append(a, x)[i] = a[i]
    BY AppendProperties
  <2>2. ASSUME NEW d \in Seq(U), Both(Append(a, x), d)
        PROVE  Paired(Only(Append(a, x), S), Only(d, P))
    <3>1. d # <<>>
      BY <2>1, <2>2
    <3>2. PICK b \in Seq(U), y \in U : d = Append(b, y)
      BY <3>1, SequenceEmptyOrAppend
    <3>3. /\ Len(d) = Len(b) + 1 /\ d[Len(b) + 1] = y /\ Len(b) \in Nat
          /\ \A i \in 1 .. Len(b) : d[i] = b[i]
      BY <3>2, AppendProperties
    <3>4. Len(b) = Len(a)
      BY <2>1, <2>2, <3>3
    <3>5. Both(a, b)
      BY <2>1, <2>2, <3>3, <3>4
    <3>6. (x \in S <=> y \in P) /\ (x \in S => y \in R[x])
      <4> DEFINE n == Len(a) + 1
      <4>1. n \in 1 .. Len(Append(a, x))
        BY <2>1
      <4>2. Append(a, x)[n] = x /\ d[n] = y
        BY <2>1, <3>3, <3>4
      <4>3. /\ Append(a, x)[n] \in S <=> d[n] \in P
            /\ Append(a, x)[n] \in S => d[n] \in R[Append(a, x)[n]]
        <5> HIDE DEF n
        <5> QED BY <2>2, <4>1
      <4> QED BY <4>2, <4>3
    <3>7. Paired(Only(a, S), Only(b, P))
      BY <1>2, <3>5
    <3>8. /\ Only(Append(a, x), S) = IF x \in S THEN Append(Only(a, S), x) ELSE Only(a, S)
          /\ Only(d, P) = IF y \in P THEN Append(Only(b, P), y) ELSE Only(b, P)
      BY <3>2, OnlyAppend
    <3>9. CASE x \in S
      <4> DEFINE u == Only(a, S)
                 v == Only(b, P)
      <4>1. u \in Seq(T) /\ v \in Seq(U)
        BY OnlyType
      <4> HIDE DEF u, v
      <4>2. /\ Len(Append(u, x)) = Len(u) + 1 /\ Append(u, x)[Len(u) + 1] = x
            /\ \A i \in 1 .. Len(u) : Append(u, x)[i] = u[i]
            /\ Len(Append(v, y)) = Len(v) + 1 /\ Append(v, y)[Len(v) + 1] = y
            /\ \A i \in 1 .. Len(v) : Append(v, y)[i] = v[i]
            /\ Len(u) \in Nat
        BY <4>1, AppendProperties
      <4>3. Len(v) = Len(u) /\ \A i \in 1 .. Len(u) : v[i] \in R[u[i]]
        BY <3>7 DEF u, v
      <4>4. \A i \in 1 .. Len(u) + 1 : Append(v, y)[i] \in R[Append(u, x)[i]]
        <5>1. \A i \in 1 .. Len(u) + 1 : i \in 1 .. Len(u) \/ i = Len(u) + 1
          BY <4>2
        <5> QED BY <3>6, <3>9, <4>2, <4>3, <5>1
      <4>5. Paired(Append(u, x), Append(v, y))
        BY <4>2, <4>3, <4>4
      <4> QED BY <3>6, <3>8, <3>9, <4>5 DEF u, v
    <3>10. CASE x \notin S
      BY <3>6, <3>7, <3>8, <3>10
    <3> QED BY <3>9, <3>10
  <2> QED BY <2>1, <2>2
<1>3. Both(s, t)
  OBVIOUS
<1> HIDE DEF Q
<1>4. Seq(T) \subseteq Q
  BY <1>1, <1>2, SeqInduct
<1>5. Paired(Only(s, S), Only(t, P))
  BY <1>3, <1>4 DEF Q
<1> QED BY <1>5
=============================================================================
