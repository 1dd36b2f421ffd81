----------------------- MODULE ResponseConvert_proofs -----------------------
EXTENDS StreamConvert_proofs, Selection_proofs

(***************************************************************************)
(* One Responses output, converted as a response object and as a stream,   *)
(* gives the client the same answer.  The argument is RInv: at every step  *)
(* the writes so far mirror the output read so far, item by item (Mirrors, *)
(* Linked) and in their totals (Tallies, Reasoned), and the items are kept *)
(* apart (Separate).  Every event keeps it, whatever the order in which    *)
(* the arguments of the calls arrive, as long as the response is regular;  *)
(* SameAnswer and SameBlocks are read off it where the stream has finished.*)
(***************************************************************************)

-----------------------------------------------------------------------------
(***************************************************************************)
(* The answer that is streamed against the response object.  Only and      *)
(* Count say what is left of the writes when only some of them matter;     *)
(* Mirrors(s, items) says that the writes s started the items, in their    *)
(* order, each with as many deltas as the item has parts.                  *)
(***************************************************************************)
Starts == {w \in Sendable : w.name \in StartNames}

DeltasAt(n) ==
  {w \in Sendable : w.name \in {"tool_delta", "block_delta"} /\ w.index = n}

DeltasOf(kind) ==
  {w \in Sendable : w.name \in {"delta", "block_delta"} /\ w.kind = kind}

Places(s, S) == {i \in DOMAIN s : s[i] \in S}

Count(s, S) == Cardinality(Places(s, S))

Parts == {"output_text", "refusal", "summary_start", "summary_text", "reasoning_text",
          "arguments"}

\* What an item of a type is made of.
PartNames(type) ==
  IF type = "message" THEN {"output_text", "refusal"}
  ELSE IF type = "reasoning" THEN {"summary_start", "summary_text", "reasoning_text"}
  ELSE {"arguments"}

OutputItems ==
  {x \in [type : {"message", "reasoning", "function_call"},
          call : Calls \cup {NoItem}, parts : Seq(Parts)] :
     /\ x.type = "function_call" <=> x.call # NoItem
     /\ \A k \in DOMAIN x.parts : x.parts[k] \in PartNames(x.type)}

CallItems == {x \in OutputItems : x.type = "function_call"}

KindOf(type) ==
  IF type = "message" THEN "text"
  ELSE IF type = "reasoning" THEN "thinking" ELSE "tool"

\* The items a client sees started: of a chat the calls only.
Shown(fmt, out) == IF fmt = "chat" THEN Only(out, CallItems) ELSE out

PartsOf(out, type) ==
  UNION {{i} \X DOMAIN out[i].parts : i \in {i \in DOMAIN out : out[i].type = type}}

SizeOf(out, type) == Cardinality(PartsOf(out, type))

\* parseOutput's id for a call.
WholeId(c) == First(Ids[c].call_id, Ids[c].id, <<"call_missing">>)

Mirrors(s, items) ==
  /\ Len(Only(s, Starts)) = Len(items)
  /\ \A j \in 1 .. Len(items) :
       /\ Only(s, Starts)[j].index = j - 1
       /\ Only(s, Starts)[j].call = items[j].call
       /\ Only(s, Starts)[j].kind = KindOf(items[j].type)
       /\ items[j].type = "function_call" /\ OneId(items[j].call) =>
            Only(s, Starts)[j].id = WholeId(items[j].call)
       /\ Count(s, DeltasAt(j - 1)) = Len(items[j].parts)
  /\ \A n \in Nat : n >= Len(items) => Count(s, DeltasAt(n)) = 0

\* The j-th item gets one more part.
Grows(items, more, j) ==
  /\ Len(more) = Len(items)
  /\ more[j].call = items[j].call /\ more[j].type = items[j].type
  /\ Len(more[j].parts) = Len(items[j].parts) + 1
  /\ \A i \in 1 .. Len(items) : i # j => more[i] = items[i]

Tallies(s, out) ==
  /\ Count(s, DeltasOf("text")) = SizeOf(out, "message")
  /\ Count(s, DeltasOf("thinking")) = SizeOf(out, "reasoning")

\* Writes that a client's answer does not depend on.
SameWrites(s, t) ==
  /\ Only(t, Starts) = Only(s, Starts)
  /\ \A n \in Nat : Count(t, DeltasAt(n)) = Count(s, DeltasAt(n))
  /\ \A kind \in {"text", "thinking"} : Count(t, DeltasOf(kind)) = Count(s, DeltasOf(kind))
-----------------------------------------------------------------------------
LEMMA CountAppend ==
  ASSUME NEW s \in Seq(Sendable), NEW e \in Sendable, NEW S
  PROVE  /\ Count(s, S) \in Nat
         /\ Count(Append(s, e), S) = IF e \in S THEN Count(s, S) + 1 ELSE Count(s, S)
<1> DEFINE t == Append(s, e)
           n == Len(s)
<1>1. /\ n \in Nat /\ DOMAIN t = 1 .. n + 1 /\ DOMAIN s = 1 .. n
      /\ t[n + 1] = e /\ \A i \in 1 .. n : t[i] = s[i]
  BY AppendFacts
<1>2. IsFiniteSet(Places(s, S))
  <2>1. IsFiniteSet(1 .. n)
    BY <1>1, FS_Interval
  <2>2. Places(s, S) \subseteq 1 .. n
    BY <1>1 DEF Places
  <2> QED BY <2>1, <2>2, FS_Subset
<1>3. n + 1 \notin Places(s, S)
  BY <1>1 DEF Places
<1>4. Places(t, S) = IF e \in S THEN Places(s, S) \cup {n + 1} ELSE Places(s, S)
  <2> HIDE DEF t, n
  <2>1. 1 .. n + 1 = (1 .. n) \cup {n + 1}
    BY <1>1
  <2> QED BY <1>1, <2>1 DEF Places
<1>5. Cardinality(Places(s, S) \cup {n + 1}) = Cardinality(Places(s, S)) + 1
  BY <1>2, <1>3, FS_AddElement
<1>6. Cardinality(Places(s, S)) \in Nat
  BY <1>2, FS_CardinalityType
<1> QED BY <1>4, <1>5, <1>6 DEF Count

\* Opening the answer, closing a block and finishing add nothing to it.
LEMMA SameWritesAppend ==
  ASSUME NEW s \in Seq(Sendable), NEW e \in Sendable,
         e.name \notin {"delta", "tool_start", "tool_delta", "block_start", "block_delta"}
  PROVE  SameWrites(s, Append(s, e))
<1>1. e \notin Starts /\ \A n : e \notin DeltasAt(n) /\ e \notin DeltasOf(n)
  BY DEF Starts, StartNames, DeltasAt, DeltasOf
<1>2. Only(Append(s, e), Starts) = Only(s, Starts)
  BY <1>1, OnlyAppend
<1> QED BY <1>1, <1>2, CountAppend DEF SameWrites

LEMMA SameWritesKept ==
  ASSUME NEW s, NEW t, SameWrites(s, t), NEW items \in Seq(OutputItems), NEW out
  PROVE  /\ Mirrors(s, items) => Mirrors(t, items)
         /\ Tallies(s, out) => Tallies(t, out)
<1>1. \A j \in 1 .. Len(items) : j - 1 \in Nat
  OBVIOUS
<1> QED BY <1>1 DEF SameWrites, Mirrors, Tallies

LEMMA SameWritesTwice ==
  ASSUME NEW s, NEW t, NEW u, SameWrites(s, t), SameWrites(t, u)
  PROVE  SameWrites(s, u)
BY DEF SameWrites

\* The start of an item, which has no parts yet.
LEMMA StartMirrored ==
  ASSUME NEW s \in Seq(Sendable), NEW e \in Sendable,
         NEW items \in Seq(OutputItems), NEW x \in OutputItems, Mirrors(s, items),
         e.name \in StartNames, e.index = Len(items), e.call = x.call,
         e.kind = KindOf(x.type), x.parts = <<>>,
         x.type = "function_call" /\ OneId(x.call) => e.id = WholeId(x.call)
  PROVE  /\ Mirrors(Append(s, e), Append(items, x))
         /\ \A kind : Count(Append(s, e), DeltasOf(kind)) = Count(s, DeltasOf(kind))
<1> DEFINE t == Append(s, e)
           more == Append(items, x)
           m == Len(items)
           r == Only(s, Starts)
<1>1. e \in Starts /\ \A n : e \notin DeltasAt(n) /\ e \notin DeltasOf(n)
  BY DEF Starts, StartNames, DeltasAt, DeltasOf
<1>2. Only(t, Starts) = Append(r, e)
  BY <1>1, OnlyAppend
<1>3. \A S : e \notin S => Count(t, S) = Count(s, S)
  BY CountAppend
<1>4. r \in Seq(Sendable) /\ Len(r) = m /\ m \in Nat
  BY OnlyType DEF Mirrors
<1>5. /\ Len(Append(r, e)) = m + 1 /\ Append(r, e)[m + 1] = e
      /\ \A j \in 1 .. m : Append(r, e)[j] = r[j]
  BY <1>4, AppendProperties
<1>6. /\ Len(more) = m + 1 /\ more[m + 1] = x /\ \A j \in 1 .. m : more[j] = items[j]
  BY AppendProperties
<1>7. x.parts = <<>> /\ Len(<<>>) = 0
  OBVIOUS
<1>8. Count(s, DeltasAt(m)) = 0 /\ (m + 1) - 1 = m
  BY <1>4 DEF Mirrors
<1> HIDE DEF t, more, r, m
<1>9. ASSUME NEW j \in 1 .. m + 1
      PROVE  /\ Only(t, Starts)[j].index = j - 1
             /\ Only(t, Starts)[j].call = more[j].call
             /\ Only(t, Starts)[j].kind = KindOf(more[j].type)
             /\ more[j].type = "function_call" /\ OneId(more[j].call) =>
                  Only(t, Starts)[j].id = WholeId(more[j].call)
             /\ Count(t, DeltasAt(j - 1)) = Len(more[j].parts)
  <2>1. CASE j = m + 1
    <3>1. Count(t, DeltasAt(j - 1)) = 0
      BY <1>1, <1>3, <1>8, <2>1
    <3>2. Only(t, Starts)[j] = e /\ more[j] = x /\ j - 1 = m
      BY <1>2, <1>4, <1>5, <1>6, <2>1
    <3> QED BY <1>7, <3>1, <3>2 DEF m
  <2>2. CASE j \in 1 .. m
    <3>1. Only(t, Starts)[j] = r[j] /\ more[j] = items[j]
      BY <1>2, <1>5, <1>6, <2>2
    <3>2. /\ r[j].index = j - 1 /\ r[j].call = items[j].call
          /\ r[j].kind = KindOf(items[j].type)
          /\ items[j].type = "function_call" /\ OneId(items[j].call) =>
               r[j].id = WholeId(items[j].call)
          /\ Count(s, DeltasAt(j - 1)) = Len(items[j].parts)
      BY <2>2 DEF Mirrors, r, m
    <3>3. Count(t, DeltasAt(j - 1)) = Count(s, DeltasAt(j - 1))
      BY <1>1, <1>3
    <3> QED BY <3>1, <3>2, <3>3
  <2> QED BY <1>4, <2>1, <2>2
<1>10. \A n \in Nat : n >= m + 1 => Count(t, DeltasAt(n)) = 0
  BY <1>1, <1>3, <1>4 DEF Mirrors, m
<1>11. Mirrors(t, more)
  BY <1>2, <1>5, <1>6, <1>9, <1>10 DEF Mirrors
<1> QED BY <1>1, <1>3, <1>11 DEF t, more

\* A delta of the item that was started with its index.
LEMMA DeltaMirrored ==
  ASSUME NEW s \in Seq(Sendable), NEW e \in Sendable,
         NEW items \in Seq(OutputItems), NEW more \in Seq(OutputItems), Mirrors(s, items),
         NEW j \in 1 .. Len(items),
         e.name \in {"tool_delta", "block_delta"}, e.index = j - 1,
         Grows(items, more, j)
  PROVE  Mirrors(Append(s, e), more)
<1> DEFINE t == Append(s, e)
           m == Len(items)
<1>1. e \notin Starts /\ \A n : e \in DeltasAt(n) <=> n = j - 1
  BY DEF Starts, StartNames, DeltasAt
<1>2. Only(t, Starts) = Only(s, Starts)
  BY <1>1, OnlyAppend
<1>3. \A S : Count(s, S) \in Nat /\ Count(t, S) = IF e \in S THEN Count(s, S) + 1 ELSE Count(s, S)
  BY CountAppend
<1>4. m \in Nat
  OBVIOUS
<1> USE DEF Grows
<1> HIDE DEF t, m
<1>5. ASSUME NEW i \in 1 .. m
      PROVE  /\ Only(t, Starts)[i].index = i - 1
             /\ Only(t, Starts)[i].call = more[i].call
             /\ Only(t, Starts)[i].kind = KindOf(more[i].type)
             /\ more[i].type = "function_call" /\ OneId(more[i].call) =>
                  Only(t, Starts)[i].id = WholeId(more[i].call)
             /\ Count(t, DeltasAt(i - 1)) = Len(more[i].parts)
  <2>1. /\ Only(s, Starts)[i].index = i - 1 /\ Only(s, Starts)[i].call = items[i].call
        /\ Only(s, Starts)[i].kind = KindOf(items[i].type)
        /\ items[i].type = "function_call" /\ OneId(items[i].call) =>
             Only(s, Starts)[i].id = WholeId(items[i].call)
        /\ Count(s, DeltasAt(i - 1)) = Len(items[i].parts)
    BY DEF Mirrors, m
  <2>2. CASE i = j
    BY <1>1, <1>2, <1>3, <2>1, <2>2
  <2>3. CASE i # j
    <3>1. more[i] = items[i] /\ i - 1 # j - 1
      BY <1>4, <2>3 DEF m
    <3> QED BY <1>1, <1>2, <1>3, <2>1, <3>1
  <2> QED BY <2>2, <2>3
<1>6. \A n \in Nat : n >= m => Count(t, DeltasAt(n)) = 0
  <2> SUFFICES ASSUME NEW n \in Nat, n >= m PROVE Count(t, DeltasAt(n)) = 0
    OBVIOUS
  <2>1. n # j - 1
    BY <1>4 DEF m
  <2>2. Count(s, DeltasAt(n)) = 0
    BY DEF Mirrors, m
  <2> QED BY <1>1, <1>3, <2>1, <2>2
<1>7. Len(Only(t, Starts)) = m /\ Len(more) = m
  BY <1>2 DEF Mirrors, m
<1> QED BY <1>5, <1>6, <1>7 DEF Mirrors, t
-----------------------------------------------------------------------------
LEMMA PartsFinite ==
  ASSUME NEW out \in Seq(OutputItems), NEW type
  PROVE  IsFiniteSet(PartsOf(out, type))
<1> DEFINE I == {i \in DOMAIN out : out[i].type = type}
           Of(i) == {i} \X DOMAIN out[i].parts
<1>1. IsFiniteSet(I)
  <2>1. IsFiniteSet(1 .. Len(out)) /\ I \subseteq 1 .. Len(out)
    BY FS_Interval
  <2> QED BY <2>1, FS_Subset
<1>2. ASSUME NEW i \in I PROVE IsFiniteSet(Of(i))
  <2>1. out[i].parts \in Seq(Parts)
    BY DEF OutputItems
  <2>2. IsFiniteSet(DOMAIN out[i].parts)
    BY <2>1, FS_Interval
  <2> QED BY <2>2, FS_Singleton, FS_Product
<1> HIDE DEF I, Of
<1>3. IsFiniteSet({Of(i) : i \in I})
  <2> DEFINE f == [i \in I |-> Of(i)]
             S == {Of(i) : i \in I}
  <2>1. f \in Surjection(I, S)
    BY DEF Surjection
  <2> QED BY <1>1, <2>1, FS_Surjection
<1>4. IsFiniteSet(UNION {Of(i) : i \in I})
  BY <1>2, <1>3, FS_UNION
<1> QED BY <1>4 DEF PartsOf, I, Of

LEMMA PartsMember ==
  ASSUME NEW out, NEW type, NEW p
  PROVE  p \in PartsOf(out, type) <=>
           \E i \in DOMAIN out : /\ out[i].type = type
                                 /\ \E k \in DOMAIN out[i].parts : p = <<i, k>>
BY DEF PartsOf

\* An item that is opened has no size, one that grows one part more.
LEMMA SizeOpened ==
  ASSUME NEW out \in Seq(OutputItems), NEW x \in OutputItems, x.parts = <<>>, NEW type
  PROVE  SizeOf(Append(out, x), type) = SizeOf(out, type)
<1> DEFINE more == Append(out, x)
<1>1. /\ DOMAIN more = (DOMAIN out) \cup {Len(out) + 1} /\ more[Len(out) + 1] = x
      /\ \A i \in DOMAIN out : more[i] = out[i]
  BY AppendProperties
<1>2. DOMAIN x.parts = {}
  <2>1. x.parts = <<>> /\ DOMAIN <<>> = {}
    OBVIOUS
  <2> QED BY <2>1
<1> HIDE DEF more
<1>3. ASSUME NEW p
      PROVE  p \in PartsOf(more, type) <=> p \in PartsOf(out, type)
  BY <1>1, <1>2, PartsMember
<1>4. PartsOf(more, type) = PartsOf(out, type)
  BY <1>3
<1> QED BY <1>4 DEF SizeOf, more

LEMMA SizeGrown ==
  ASSUME NEW out \in Seq(OutputItems), NEW more \in Seq(OutputItems),
         NEW j \in 1 .. Len(out), Grows(out, more, j), NEW type
  PROVE  /\ SizeOf(out, type) \in Nat
         /\ SizeOf(more, type) =
              IF out[j].type = type THEN SizeOf(out, type) + 1 ELSE SizeOf(out, type)
<1> DEFINE new == <<j, Len(more[j].parts)>>
<1>1. /\ DOMAIN more = 1 .. Len(out) /\ DOMAIN out = 1 .. Len(out)
      /\ more[j].type = out[j].type
      /\ \A i \in 1 .. Len(out) : i # j => more[i] = out[i]
  BY DEF Grows
<1>2. /\ out[j].parts \in Seq(Parts) /\ more[j].parts \in Seq(Parts)
      /\ Len(more[j].parts) = Len(out[j].parts) + 1
  BY <1>1 DEF Grows, OutputItems
<1>3. /\ DOMAIN more[j].parts = DOMAIN out[j].parts \cup {Len(more[j].parts)}
      /\ Len(more[j].parts) \notin DOMAIN out[j].parts
  BY <1>2
<1>4. \A p : p \in PartsOf(more, type) <=>
              p \in PartsOf(out, type) \/ (out[j].type = type /\ p = new)
  <2> HIDE DEF new
  <2>1. ASSUME NEW p
        PROVE  p \in PartsOf(more, type) <=>
                 p \in PartsOf(out, type) \/ (out[j].type = type /\ p = new)
    <3>1. ASSUME NEW i \in 1 .. Len(out)
          PROVE  (more[i].type = type /\ \E k \in DOMAIN more[i].parts : p = <<i, k>>) <=>
                   \/ out[i].type = type /\ \E k \in DOMAIN out[i].parts : p = <<i, k>>
                   \/ i = j /\ out[j].type = type /\ p = new
      <4>1. CASE i = j
        BY <1>1, <1>3, <4>1 DEF new
      <4>2. CASE i # j
        BY <1>1, <4>2
      <4> QED BY <4>1, <4>2
    <3> QED BY <1>1, <3>1, PartsMember
  <2> QED BY <2>1
<1>5. new \notin PartsOf(out, type)
  <2>1. \A i, k : new = <<i, k>> => i = j /\ k = Len(more[j].parts)
    OBVIOUS
  <2> HIDE DEF new
  <2> QED BY <1>3, <2>1, PartsMember
<1>6. IsFiniteSet(PartsOf(out, type))
  BY PartsFinite
<1> HIDE DEF new
<1>7. CASE out[j].type = type
  <2>1. PartsOf(more, type) = PartsOf(out, type) \cup {new}
    BY <1>4, <1>7
  <2> QED BY <1>5, <1>6, <1>7, <2>1, FS_AddElement, FS_CardinalityType DEF SizeOf
<1>8. CASE out[j].type # type
  <2>1. PartsOf(more, type) = PartsOf(out, type)
    BY <1>4, <1>8
  <2> QED BY <1>6, <1>8, <2>1, FS_CardinalityType DEF SizeOf
<1> QED BY <1>7, <1>8
-----------------------------------------------------------------------------
LEMMA ShownType ==
  ASSUME NEW fmt, NEW out \in Seq(OutputItems)
  PROVE  /\ Shown(fmt, out) \in Seq(OutputItems)
         /\ \A j \in 1 .. Len(Shown(fmt, out)) :
              fmt = "chat" => Shown(fmt, out)[j].type = "function_call"
BY OnlyType DEF Shown, CallItems

LEMMA ShownAppend ==
  ASSUME NEW fmt, NEW out \in Seq(OutputItems), NEW x \in OutputItems
  PROVE  Shown(fmt, Append(out, x)) =
           IF fmt = "chat" /\ x.type # "function_call" THEN Shown(fmt, out)
           ELSE Append(Shown(fmt, out), x)
<1>1. x \in CallItems <=> x.type = "function_call"
  BY DEF CallItems
<1>2. Only(Append(out, x), CallItems) =
        IF x \in CallItems THEN Append(Only(out, CallItems), x) ELSE Only(out, CallItems)
  BY OnlyAppend
<1>3. CASE fmt = "chat"
  BY <1>1, <1>2, <1>3 DEF Shown
<1>4. CASE fmt # "chat"
  BY <1>4 DEF Shown
<1> QED BY <1>3, <1>4

\* A call that grows grows where it is shown; another item only where all are.
LEMMA ShownGrown ==
  ASSUME NEW fmt, NEW out \in Seq(OutputItems), NEW more \in Seq(OutputItems),
         NEW j \in 1 .. Len(out), Grows(out, more, j), out[j].type # "function_call"
  PROVE  IF fmt = "chat" THEN Shown(fmt, more) = Shown(fmt, out)
         ELSE Shown(fmt, more) = more /\ Shown(fmt, out) = out
<1>1. CASE fmt = "chat"
  <2> DEFINE R == [x \in OutputItems |-> {x}]
             u == Only(out, CallItems)
             v == Only(more, CallItems)
  <2>1. Len(more) = Len(out)
    BY DEF Grows
  <2>2. ASSUME NEW i \in 1 .. Len(out)
        PROVE  /\ out[i] \in CallItems <=> more[i] \in CallItems
               /\ out[i] \in CallItems => more[i] \in R[out[i]]
    <3>1. out[i] \in OutputItems /\ more[i] \in OutputItems
      BY <2>1
    <3> QED BY <3>1 DEF Grows, CallItems
  <2> HIDE DEF R
  <2>3. /\ Len(v) = Len(u)
        /\ \A i \in 1 .. Len(u) : v[i] \in R[u[i]]
    BY <2>1, <2>2, OnlyPaired
  <2>4. u \in Seq(OutputItems) /\ v \in Seq(OutputItems)
    BY OnlyType
  <2> HIDE DEF u, v
  <2>5. \A i \in 1 .. Len(u) : v[i] = u[i]
    <3> SUFFICES ASSUME NEW i \in 1 .. Len(u) PROVE v[i] = u[i]
      OBVIOUS
    <3>1. u[i] \in OutputItems
      BY <2>4
    <3>2. R[u[i]] = {u[i]}
      BY <3>1 DEF R
    <3> QED BY <2>3, <3>2
  <2>6. v = u
    BY <2>3, <2>4, <2>5, SeqEqual
  <2> QED BY <1>1, <2>6 DEF Shown, u, v
<1>2. CASE fmt # "chat"
  BY <1>2 DEF Shown
<1> QED BY <1>1, <1>2
-----------------------------------------------------------------------------
\* No two items are one call.
Distinct(items) ==
  \A i, j \in 1 .. Len(items) :
    items[i].call = items[j].call /\ items[i].call # NoItem => i = j

CallIn(out) == \E j \in 1 .. Len(out) : out[j].type = "function_call"

\* What streamState knows of the items a client sees, while the upstream sends.
Linked(fmt, st, items) ==
  /\ Distinct(items)
  /\ Limit(fmt, st) = Len(items)
  /\ fmt # "chat" =>
       IF items = <<>> THEN st.openBlock = None
       ELSE /\ st.openBlock = Len(items) - 1
            /\ st.blockKind = KindOf(items[Len(items)].type)
  /\ st.hadTool <=> CallIn(items)

Answer(fmt, s, st, out) ==
  /\ Mirrors(s, Shown(fmt, out))
  /\ Tallies(s, out)
  /\ Linked(fmt, st, Shown(fmt, out))

\* The same items, but for their parts.
SameShape(items, more) ==
  /\ Len(more) = Len(items)
  /\ \A i \in 1 .. Len(items) : /\ more[i].call = items[i].call
                                /\ more[i].type = items[i].type

LEMMA LinkedKept ==
  ASSUME NEW fmt, NEW st, NEW st2, NEW items \in Seq(OutputItems),
         NEW more \in Seq(OutputItems), Linked(fmt, st, items), SameShape(items, more),
         st2.openBlock = st.openBlock, st2.blockKind = st.blockKind,
         st2.nextBlock = st.nextBlock, st2.hadTool = st.hadTool,
         st2.toolIndexes = st.toolIndexes
  PROVE  Linked(fmt, st2, more)
<1>1. Limit(fmt, st2) = Limit(fmt, st) /\ Len(more) = Len(items) /\ Len(items) \in Nat
  BY DEF Limit, SameShape
<1>2. items # <<>> => Len(items) \in 1 .. Len(items)
  OBVIOUS
<1>3. items = <<>> <=> more = <<>>
  BY <1>1
<1>4. Distinct(more) /\ (CallIn(more) <=> CallIn(items))
  BY <1>1 DEF Linked, Distinct, CallIn, SameShape
<1> QED BY <1>1, <1>2, <1>3, <1>4 DEF Linked, SameShape

\* An item is opened.
LEMMA LinkedOpened ==
  ASSUME NEW fmt, NEW st, NEW st2, NEW items \in Seq(OutputItems), NEW x \in OutputItems,
         Linked(fmt, st, items),
         \A j \in 1 .. Len(items) : items[j].call # x.call \/ x.call = NoItem,
         Limit(fmt, st2) = Len(items) + 1,
         st2.hadTool <=> st.hadTool \/ x.type = "function_call",
         fmt # "chat" => st2.openBlock = Len(items) /\ st2.blockKind = KindOf(x.type)
  PROVE  Linked(fmt, st2, Append(items, x))
<1> DEFINE more == Append(items, x)
           m == Len(items)
<1>1. /\ m \in Nat /\ Len(more) = m + 1 /\ more[m + 1] = x /\ more # <<>>
      /\ \A j \in 1 .. m : more[j] = items[j]
  BY AppendProperties
<1>2. \A j \in 1 .. m + 1 : j \in 1 .. m \/ j = m + 1
  BY <1>1
<1> HIDE DEF more
<1>3. Distinct(more)
  <2> SUFFICES ASSUME NEW i \in 1 .. m + 1, NEW j \in 1 .. m + 1,
                      more[i].call = more[j].call, more[i].call # NoItem
               PROVE  i = j
    BY <1>1 DEF Distinct
  <2>1. CASE i \in 1 .. m /\ j \in 1 .. m
    BY <1>1, <2>1 DEF Linked, Distinct
  <2>2. CASE i = m + 1 \/ j = m + 1
    BY <1>1, <1>2, <2>2
  <2> QED BY <1>2, <2>1, <2>2
<1>4. CallIn(more) <=> CallIn(items) \/ x.type = "function_call"
  <2>1. m + 1 \in 1 .. m + 1 /\ \A j \in 1 .. m : j \in 1 .. m + 1
    BY <1>1
  <2> QED BY <1>1, <1>2, <2>1 DEF CallIn
<1>5. Linked(fmt, st2, more)
  <2>1. (m + 1) - 1 = m
    BY <1>1
  <2> QED BY <1>1, <1>3, <1>4, <2>1 DEF Linked
<1> QED BY <1>5 DEF more
-----------------------------------------------------------------------------
LEMMA JoinTwo ==
  ASSUME NEW s \in Seq(Sendable), NEW w \in Seq(Sendable),
         NEW a \in Sendable, NEW b \in Sendable
  PROVE  s \o (w \o <<a, b>>) = Append(Append(s \o w, a), b)
OBVIOUS

LEMMA WriteDone ==
  ASSUME NEW w, NEW after, Write(w, after), phase' # "broken"
  PROVE  sent' = sent \o w /\ phase' = after
BY DEF Write

LEMMA SameWritesSelf == ASSUME NEW s PROVE SameWrites(s, s)
BY DEF SameWrites

LEMMA SameWritesStart ==
  ASSUME IInv
  PROVE  /\ EnsureChatStart \in Seq(Sendable)
         /\ SameWrites(sent, sent \o EnsureChatStart)
<1>1. sent \in Seq(Sendable)
  BY DEF IInv
<1>2. CASE state.started
  <2>1. EnsureChatStart = <<>> /\ sent \o <<>> = sent /\ <<>> \in Seq(Sendable)
    BY <1>1, <1>2 DEF EnsureChatStart
  <2> QED BY <2>1, SameWritesSelf
<1>3. CASE ~state.started
  <2>1. EnsureChatStart = <<Role>> /\ Role \in Sendable
    BY <1>3, EventTypes DEF EnsureChatStart
  <2>2. sent \o <<Role>> = Append(sent, Role) /\ <<Role>> \in Seq(Sendable)
    BY <1>1, <2>1
  <2>3. Role.name = "role"
    BY DEF Role, Event
  <2>4. SameWrites(sent, Append(sent, Role))
    BY <1>1, <2>1, <2>3, SameWritesAppend
  <2> QED BY <2>1, <2>2, <2>4
<1> QED BY <1>2, <1>3

LEMMA SameWritesClose ==
  ASSUME IInv
  PROVE  /\ CloseBlock \in Seq(Sendable)
         /\ SameWrites(sent, sent \o CloseBlock)
<1>1. sent \in Seq(Sendable) /\ state.openBlock \in Int
  BY DEF IInv, StateType
<1>2. CASE state.openBlock = None
  <2>1. CloseBlock = <<>> /\ sent \o <<>> = sent /\ <<>> \in Seq(Sendable)
    BY <1>1, <1>2 DEF CloseBlock
  <2> QED BY <2>1, SameWritesSelf
<1>3. CASE state.openBlock # None
  <2> DEFINE e == BlockStop(state.openBlock)
  <2>1. CloseBlock = <<e>> /\ e \in Sendable
    BY <1>1, <1>3, EventTypes DEF CloseBlock
  <2>2. e.name = "block_stop"
    BY DEF BlockStop, Event
  <2> HIDE DEF e
  <2>3. sent \o <<e>> = Append(sent, e) /\ <<e>> \in Seq(Sendable)
    BY <1>1, <2>1
  <2>4. SameWrites(sent, Append(sent, e))
    BY <1>1, <2>1, <2>2, SameWritesAppend
  <2> QED BY <2>1, <2>3, <2>4
<1> QED BY <1>2, <1>3

LEMMA KindsDiffer ==
  ASSUME NEW x \in OutputItems, NEW type \in {"message", "reasoning"},
         KindOf(x.type) = KindOf(type)
  PROVE  x.type = type
BY DEF KindOf, OutputItems

LEMMA GrowsShape ==
  ASSUME NEW items \in Seq(OutputItems), NEW more, NEW j \in 1 .. Len(items),
         Grows(items, more, j)
  PROVE  SameShape(items, more)
BY DEF Grows, SameShape

\* Extend opens an item without parts, unless the last one is of the type, and
\* then lets the last one grow.
LEMMA Extended ==
  ASSUME output \in Seq(OutputItems), NEW type \in {"message", "reasoning"},
         NEW part \in PartNames(type), ~Complete, Extend(type, part)
  PROVE  \E mid \in Seq(OutputItems) :
           /\ mid # <<>> /\ mid[Len(mid)].type = type
           /\ IF output # <<>> /\ output[Len(output)].type = type THEN mid = output
              ELSE mid = Append(output, OutputItem(type, NoItem, <<>>))
           /\ OutputItem(type, NoItem, <<>>) \in OutputItems
           /\ output' \in Seq(OutputItems) /\ Grows(mid, output', Len(mid))
<1> DEFINE x == OutputItem(type, NoItem, <<>>)
           y == OutputItem(type, NoItem, <<part>>)
           m == Len(output)
<1>1. x \in OutputItems /\ y \in OutputItems
  <2>1. /\ <<>> \in Seq(Parts) /\ <<part>> \in Seq(Parts)
        /\ DOMAIN <<>> = {} /\ DOMAIN <<part>> = {1} /\ <<part>>[1] = part
    BY DEF PartNames, Parts
  <2> QED BY <2>1 DEF OutputItem, OutputItems
<1>2. x.type = type /\ y.type = type /\ x.call = y.call /\ Len(y.parts) = Len(x.parts) + 1
  BY DEF OutputItem
<1>3. CASE output # <<>> /\ output[m].type = type
  <2> DEFINE z == [output[m] EXCEPT !.parts = Append(@, part)]
  <2>1. m \in 1 .. m /\ output[m] \in OutputItems /\ m \in Nat
    BY <1>3
  <2>2. /\ z \in OutputItems /\ z.type = output[m].type /\ z.call = output[m].call
        /\ Len(z.parts) = Len(output[m].parts) + 1
    <3> DEFINE o == output[m]
               p == Append(o.parts, part)
    <3>1. o \in OutputItems /\ o.type = type
      BY <1>3, <2>1
    <3> HIDE DEF o
    <3>2. /\ o.parts \in Seq(Parts) /\ part \in Parts
          /\ \A k \in DOMAIN o.parts : o.parts[k] \in PartNames(type)
      BY <3>1 DEF OutputItems, PartNames, Parts
    <3>3. /\ p \in Seq(Parts) /\ Len(p) = Len(o.parts) + 1
          /\ \A k \in DOMAIN p : p[k] \in PartNames(type)
      BY <3>2
    <3>4. z = [o EXCEPT !.parts = p]
      BY DEF o
    <3> HIDE DEF p, z
    <3> QED BY <3>1, <3>3, <3>4 DEF OutputItems, o
  <2>3. output' = [output EXCEPT ![m] = z]
    BY <1>3 DEF Extend, LastIs, Last
  <2> HIDE DEF z
  <2>4. output' \in Seq(OutputItems) /\ Len(output') = m /\ output'[m] = z
        /\ \A i \in 1 .. m : i # m => output'[i] = output[i]
    BY <2>1, <2>2, <2>3
  <2>5. Grows(output, output', m)
    BY <2>2, <2>4 DEF Grows
  <2> QED BY <1>1, <1>3, <2>4, <2>5
<1>4. CASE ~(output # <<>> /\ output[m].type = type)
  <2> DEFINE mid == Append(output, x)
  <2>1. output' = Append(output, y)
    BY <1>4 DEF Extend, LastIs, Last
  <2> HIDE DEF x, y
  <2>2. /\ mid \in Seq(OutputItems) /\ Len(mid) = m + 1 /\ mid[m + 1] = x /\ m \in Nat
        /\ \A i \in 1 .. m : mid[i] = output[i]
    BY <1>1, AppendProperties
  <2>3. /\ output' \in Seq(OutputItems) /\ Len(output') = m + 1 /\ output'[m + 1] = y
        /\ \A i \in 1 .. m : output'[i] = output[i]
    BY <1>1, <2>1, AppendProperties
  <2>4. \A i \in 1 .. m + 1 : i # m + 1 => i \in 1 .. m
    BY <2>2
  <2>5. mid # <<>>
    BY <2>2
  <2> HIDE DEF mid
  <2>6. Grows(mid, output', m + 1)
    BY <1>2, <2>2, <2>3, <2>4 DEF Grows
  <2> QED BY <1>1, <1>2, <1>4, <2>2, <2>3, <2>5, <2>6 DEF mid, x
<1> QED BY <1>3, <1>4
-----------------------------------------------------------------------------
\* A text or thinking delta of a chat.
LEMMA ChatDeltaAnswer ==
  ASSUME IInv, output \in Seq(OutputItems), Answer(format, sent, state, output),
         NEW type \in {"message", "reasoning"}, NEW part \in PartNames(type), ~Complete,
         ChatDelta(KindOf(type)), Extend(type, part), phase' # "broken"
  PROVE  Answer(format, sent', state', output')
<1> DEFINE kind == KindOf(type)
           e == Event("delta", None, kind, NoItem)
           s == sent \o EnsureChatStart
           items == Shown(format, output)
<1>1. /\ sent \in Seq(Sendable) /\ format = "chat" /\ state \in StateType
      /\ state' = [state EXCEPT !.started = TRUE]
      /\ sent' = sent \o Append(EnsureChatStart, e)
  BY WriteDone DEF ChatDelta, IInv
<1>2. kind \in {"text", "thinking"}
  BY DEF KindOf
<1>3. e \in Sendable /\ e.name = "delta" /\ e.kind = kind
  BY <1>2, EventTypes DEF Event, Names
<1> HIDE DEF e
<1>4. /\ EnsureChatStart \in Seq(Sendable) /\ SameWrites(sent, s) /\ s \in Seq(Sendable)
  BY <1>1, SameWritesStart
<1>5. sent' = Append(s, e)
  BY <1>1, <1>3, <1>4, Joins
<1>6. PICK mid \in Seq(OutputItems) :
        /\ mid # <<>> /\ mid[Len(mid)].type = type
        /\ IF output # <<>> /\ output[Len(output)].type = type THEN mid = output
           ELSE mid = Append(output, OutputItem(type, NoItem, <<>>))
        /\ OutputItem(type, NoItem, <<>>) \in OutputItems
        /\ output' \in Seq(OutputItems) /\ Grows(mid, output', Len(mid))
  BY Extended
<1>7. Len(mid) \in 1 .. Len(mid)
  BY <1>6
<1>8. items \in Seq(OutputItems)
  BY ShownType
<1>9. Shown(format, output') = items
  <2>1. Shown(format, output') = Shown(format, mid)
    BY <1>1, <1>6, <1>7, ShownGrown
  <2>2. OutputItem(type, NoItem, <<>>).type = type
    BY DEF OutputItem
  <2>3. Shown(format, mid) = items
    BY <1>1, <1>6, <2>2, ShownAppend
  <2> QED BY <2>1, <2>3
<1>10. /\ \A t : SizeOf(mid, t) = SizeOf(output, t)
       /\ \A t : /\ SizeOf(mid, t) \in Nat
                /\ SizeOf(output', t) = IF t = type THEN SizeOf(mid, t) + 1 ELSE SizeOf(mid, t)
  <2>1. OutputItem(type, NoItem, <<>>).parts = <<>>
    BY DEF OutputItem
  <2>2. \A t : SizeOf(mid, t) = SizeOf(output, t)
    BY <1>6, <2>1, SizeOpened
  <2>3. output' \in Seq(OutputItems) /\ Grows(mid, output', Len(mid)) /\ mid[Len(mid)].type = type
    BY <1>6
  <2>4. \A t : /\ SizeOf(mid, t) \in Nat
              /\ SizeOf(output', t) =
                   IF mid[Len(mid)].type = t THEN SizeOf(mid, t) + 1 ELSE SizeOf(mid, t)
    BY <1>7, <2>3, SizeGrown
  <2> QED BY <2>2, <2>3, <2>4
<1>11. Mirrors(s, items) /\ Tallies(s, output)
  BY <1>4, <1>8, SameWritesKept DEF Answer
<1>12. e \notin Starts /\ \A n : e \notin DeltasAt(n) /\ \A k : e \in DeltasOf(k) <=> k = kind
  BY <1>3 DEF Starts, StartNames, DeltasAt, DeltasOf
<1>13. \A S : Count(s, S) \in Nat /\ Count(Append(s, e), S) =
                IF e \in S THEN Count(s, S) + 1 ELSE Count(s, S)
  BY <1>3, <1>4, CountAppend
<1>14. Mirrors(sent', items)
  <2>1. Only(sent', Starts) = Only(s, Starts)
    BY <1>3, <1>4, <1>5, <1>12, OnlyAppend
  <2>2. \A n : Count(sent', DeltasAt(n)) = Count(s, DeltasAt(n))
    BY <1>5, <1>12, <1>13
  <2> QED BY <1>11, <2>1, <2>2 DEF Mirrors
<1>15. Tallies(sent', output')
  BY <1>5, <1>10, <1>11, <1>12, <1>13 DEF Tallies, KindOf
<1>16. Linked(format, state', items)
  <2>1. Linked(format, state, items) /\ SameShape(items, items)
    BY DEF Answer, SameShape
  <2>2. /\ state'.openBlock = state.openBlock /\ state'.blockKind = state.blockKind
        /\ state'.nextBlock = state.nextBlock /\ state'.hadTool = state.hadTool
        /\ state'.toolIndexes = state.toolIndexes
    BY <1>1 DEF StateType
  <2> HIDE DEF items
  <2> QED BY <1>8, <2>1, <2>2, LinkedKept
<1> QED BY <1>9, <1>14, <1>15, <1>16 DEF Answer

\* The last item grows by a delta of the block that is open.
LEMMA BlockDelta ==
  ASSUME NEW u \in Seq(Sendable), NEW st, NEW type \in {"message", "reasoning"},
         NEW mid \in Seq(OutputItems), NEW more \in Seq(OutputItems),
         mid # <<>>, mid[Len(mid)].type = type, Grows(mid, more, Len(mid)),
         Mirrors(u, mid), Tallies(u, mid), Linked("anthropic", st, mid),
         NEW e \in Sendable, e.name = "block_delta", e.index = Len(mid) - 1,
         e.kind = KindOf(type)
  PROVE  Answer("anthropic", Append(u, e), st, more)
<1>1. Len(mid) \in 1 .. Len(mid)
  OBVIOUS
<1>2. Mirrors(Append(u, e), more)
  BY <1>1, DeltaMirrored
<1>3. \A t : /\ SizeOf(mid, t) \in Nat
             /\ SizeOf(more, t) = IF t = type THEN SizeOf(mid, t) + 1 ELSE SizeOf(mid, t)
  BY <1>1, SizeGrown
<1>4. \A k : e \in DeltasOf(k) <=> k = KindOf(type)
  BY DEF DeltasOf
<1>5. \A S : Count(u, S) \in Nat /\ Count(Append(u, e), S) =
               IF e \in S THEN Count(u, S) + 1 ELSE Count(u, S)
  BY CountAppend
<1>6. Tallies(Append(u, e), more)
  BY <1>3, <1>4, <1>5 DEF Tallies, KindOf
<1>7. Linked("anthropic", st, more)
  BY <1>1, GrowsShape, LinkedKept
<1> QED BY <1>2, <1>6, <1>7 DEF Answer, Shown

LEMMA AnthropicDeltaAnswer ==
  ASSUME IInv, output \in Seq(OutputItems), Answer(format, sent, state, output),
         NEW type \in {"message", "reasoning"}, NEW part \in PartNames(type), ~Complete,
         AnthropicDelta(KindOf(type)), Extend(type, part), phase' # "broken"
  PROVE  Answer(format, sent', state', output')
<1> DEFINE kind == KindOf(type)
           x == OutputItem(type, NoItem, <<>>)
           n == Len(output)
<1>1. /\ sent \in Seq(Sendable) /\ format = "anthropic" /\ state \in StateType
      /\ n \in Nat /\ n \in Int
  <2>1. n \in Nat
    OBVIOUS
  <2> QED BY <2>1 DEF AnthropicDelta, IInv
<1>2. kind \in {"text", "thinking"} /\ kind \in {"", "text", "thinking", "tool", "length", "stop"}
  BY DEF KindOf
<1>3. PICK mid \in Seq(OutputItems) :
        /\ mid # <<>> /\ mid[Len(mid)].type = type
        /\ IF output # <<>> /\ output[n].type = type THEN mid = output
           ELSE mid = Append(output, x)
        /\ x \in OutputItems
        /\ output' \in Seq(OutputItems) /\ Grows(mid, output', Len(mid))
  BY Extended
<1>4. /\ Mirrors(sent, output) /\ Tallies(sent, output)
      /\ Linked("anthropic", state, output)
  BY <1>1 DEF Answer, Shown
<1>5. /\ state.nextBlock = n
      /\ IF output = <<>> THEN state.openBlock = None
         ELSE state.openBlock = n - 1 /\ state.blockKind = KindOf(output[n].type)
  BY <1>4 DEF Linked, Limit
<1>6. CASE state.openBlock # None /\ state.blockKind = kind
  <2> DEFINE e == Event("block_delta", state.openBlock, kind, NoItem)
  <2>1. sent' = sent \o <<e>> /\ state' = state
    BY <1>6, WriteDone DEF AnthropicDelta
  <2>2. /\ e \in Sendable /\ e.name = "block_delta" /\ e.index = state.openBlock
        /\ e.kind = kind
    BY <1>1, <1>2, EventTypes DEF Event, Names, StateType
  <2> HIDE DEF e
  <2>3. sent' = Append(sent, e)
    BY <1>1, <2>1, <2>2, Joins
  <2>4. output # <<>> /\ output[n].type = type
    <3>1. output # <<>> /\ state.openBlock = n - 1 /\ KindOf(output[n].type) = KindOf(type)
      BY <1>5, <1>6
    <3>2. output[n] \in OutputItems
      BY <3>1
    <3> QED BY <3>1, <3>2, KindsDiffer
  <2>5. mid = output
    BY <1>3, <2>4
  <2>6. e.index = Len(mid) - 1
    BY <1>5, <2>2, <2>4, <2>5
  <2>7. Answer("anthropic", Append(sent, e), state, output')
    BY <1>1, <1>3, <1>4, <2>2, <2>5, <2>6, BlockDelta
  <2> QED BY <1>1, <2>1, <2>3, <2>7
<1>7. CASE ~(state.openBlock # None /\ state.blockKind = kind)
  <2> DEFINE a == Event("block_start", n, kind, NoItem)
             b == Event("block_delta", n, kind, NoItem)
             s == sent \o CloseBlock
  <2>1. /\ sent' = sent \o (CloseBlock \o <<a, b>>)
        /\ state' = [state EXCEPT !.openBlock = n, !.blockKind = kind, !.nextBlock = n + 1]
    BY <1>5, <1>7, WriteDone DEF AnthropicDelta
  <2>2. /\ a \in Sendable /\ a.name = "block_start" /\ a.index = n /\ a.kind = kind
        /\ a.call = NoItem
        /\ b \in Sendable /\ b.name = "block_delta" /\ b.index = n /\ b.kind = kind
    <3>1. a \in Sendable /\ b \in Sendable
      <4>1. n \in Int /\ kind \in {"", "text", "thinking", "tool", "length", "stop"}
        BY <1>1, <1>2
      <4> HIDE DEF n, kind
      <4> QED BY <4>1, EventTypes DEF Names
    <3> QED BY <3>1 DEF Event
  <2> HIDE DEF a, b
  <2>3. /\ CloseBlock \in Seq(Sendable) /\ SameWrites(sent, s) /\ s \in Seq(Sendable)
    BY <1>1, SameWritesClose
  <2>4. sent' = Append(Append(s, a), b)
    <3>1. a \in Sendable /\ b \in Sendable /\ CloseBlock \in Seq(Sendable)
      BY <2>2, <2>3
    <3>2. sent \o (CloseBlock \o <<a, b>>) = Append(Append(s, a), b)
      BY <1>1, <3>1, JoinTwo
    <3> QED BY <2>1, <3>2
  <2>5. ~(output # <<>> /\ output[n].type = type)
    <3>1. output # <<>> => state.openBlock # None
      BY <1>1, <1>5 DEF None
    <3> QED BY <1>5, <1>7, <3>1
  <2>6. mid = Append(output, x) /\ Len(mid) = n + 1
    BY <1>1, <1>3, <2>5
  <2>7. x.type = type /\ x.call = NoItem /\ x.parts = <<>>
    BY DEF OutputItem
  <2> HIDE DEF x
  <2>8. Mirrors(s, output) /\ Tallies(s, output)
    BY <1>4, <2>3, SameWritesKept
  <2>9. /\ Mirrors(Append(s, a), mid)
        /\ \A k : Count(Append(s, a), DeltasOf(k)) = Count(s, DeltasOf(k))
    <3>1. x.type # "function_call"
      BY <2>7
    <3> QED BY <1>3, <2>2, <2>3, <2>6, <2>7, <2>8, <3>1, StartMirrored DEF StartNames
  <2>10. Tallies(Append(s, a), mid)
    <3>1. \A t : SizeOf(mid, t) = SizeOf(output, t)
      BY <1>3, <2>6, <2>7, SizeOpened
    <3> QED BY <2>8, <2>9, <3>1 DEF Tallies
  <2>11. Linked("anthropic", state', mid)
    <3>1. /\ state'.openBlock = n /\ state'.blockKind = kind /\ state'.nextBlock = n + 1
          /\ state'.hadTool = state.hadTool /\ state'.toolIndexes = state.toolIndexes
      BY <1>1, <2>1 DEF StateType
    <3>2. Limit("anthropic", state') = n + 1 /\ x.type # "function_call"
      BY <2>7, <3>1 DEF Limit
    <3> QED BY <1>1, <1>3, <1>4, <2>6, <2>7, <3>1, <3>2, LinkedOpened
  <2>12. Append(s, a) \in Seq(Sendable) /\ b.index = Len(mid) - 1
    BY <1>1, <2>2, <2>3, <2>6
  <2>13. Answer("anthropic", Append(Append(s, a), b), state', output')
    BY <1>3, <2>2, <2>9, <2>10, <2>11, <2>12, BlockDelta
  <2> QED BY <1>1, <2>4, <2>13
<1> QED BY <1>6, <1>7

\* A call that comes with one id has it on both sides.
LEMMA SameId ==
  ASSUME NEW c \in Calls, OneId(c)
  PROVE  ToolId(c) = WholeId(c)
<1> DEFINE a == Ids[c].id
           b == Ids[c].call_id
<1>1. PICK x : {a, b} \ {NoId} = {x}
  <2>1. IsFiniteSet({a, b} \ {NoId})
    <3>1. IsFiniteSet({a}) /\ IsFiniteSet({b}) /\ {a, b} = {a} \cup {b}
      BY FS_Singleton
    <3>2. IsFiniteSet({a, b})
      BY <3>1, FS_Union
    <3> QED BY <3>2, FS_Subset
  <2> QED BY <2>1, FS_Singleton DEF OneId
<1>2. CASE a # NoId
  <2>1. b = NoId \/ b = a
    BY <1>1, <1>2
  <2> QED BY <1>2, <2>1 DEF ToolId, WholeId, First
<1>3. CASE a = NoId
  <2>1. b # NoId
    BY <1>1, <1>3
  <2> QED BY <1>3, <2>1 DEF ToolId, WholeId, First
<1> QED BY <1>2, <1>3

\* A call that was not announced is of no item.
LEMMA NewItem ==
  ASSUME sent \in Seq(Sendable), NEW items \in Seq(OutputItems), Mirrors(sent, items),
         NEW c \in Calls, \A k \in DOMAIN sent : ~Announces(k, c)
  PROVE  \A j \in 1 .. Len(items) : items[j].call # c
<1> SUFFICES ASSUME NEW j \in 1 .. Len(items), items[j].call = c
             PROVE  FALSE
  OBVIOUS
<1>1. PICK g : SelectedFrom(g, Only(sent, Starts), sent, Starts)
  BY OnlyPlaces
<1>2. j \in 1 .. Len(Only(sent, Starts)) /\ Only(sent, Starts)[j].call = c
  BY DEF Mirrors
<1>3. /\ g[j] \in DOMAIN sent /\ Only(sent, Starts)[j] = sent[g[j]]
      /\ sent[g[j]] \in Starts
  BY <1>1, <1>2 DEF SelectedFrom
<1> QED BY <1>2, <1>3 DEF Starts, StartNames, Announces

\* A call is opened: its start is the only write that matters.
LEMMA CallOpened ==
  ASSUME NEW fmt, sent \in Seq(Sendable), NEW s \in Seq(Sendable), NEW st, NEW st2,
         NEW out \in Seq(OutputItems),
         NEW c \in Calls, Answer(fmt, sent, st, out), SameWrites(sent, s),
         \A k \in DOMAIN sent : ~Announces(k, c),
         NEW e \in Sendable, e.name \in StartNames, e.index = Limit(fmt, st),
         e.kind = "tool", e.call = c, e.id = ToolId(c),
         Limit(fmt, st2) = Limit(fmt, st) + 1, st2.hadTool,
         fmt # "chat" => st2.openBlock = e.index /\ st2.blockKind = "tool"
  PROVE  Answer(fmt, Append(s, e), st2, Append(out, OutputItem("function_call", c, <<>>)))
<1> DEFINE x == OutputItem("function_call", c, <<>>)
           items == Shown(fmt, out)
<1>1. x \in OutputItems /\ x.type = "function_call" /\ x.call = c /\ x.parts = <<>>
  <2>1. <<>> \in Seq(Parts) /\ c # NoItem /\ DOMAIN <<>> = {}
    BY StreamAssumption
  <2> QED BY <2>1 DEF OutputItem, OutputItems
<1>2. /\ items \in Seq(OutputItems) /\ Shown(fmt, Append(out, x)) = Append(items, x)
  BY <1>1, ShownType, ShownAppend
<1>3. /\ Mirrors(s, items) /\ Tallies(s, out) /\ Linked(fmt, st, items)
      /\ e.index = Len(items) /\ Mirrors(sent, items)
  BY <1>2, SameWritesKept DEF Answer, Linked
<1> HIDE DEF x, items
<1>4. KindOf(x.type) = "tool"
  BY <1>1 DEF KindOf
<1>5. /\ Mirrors(Append(s, e), Append(items, x))
      /\ \A k : Count(Append(s, e), DeltasOf(k)) = Count(s, DeltasOf(k))
  <2>1. OneId(x.call) => e.id = WholeId(x.call)
    BY <1>1, SameId
  <2> QED BY <1>1, <1>2, <1>3, <1>4, <2>1, StartMirrored
<1>6. \A t : SizeOf(Append(out, x), t) = SizeOf(out, t)
  BY <1>1, SizeOpened
<1>7. Tallies(Append(s, e), Append(out, x))
  BY <1>3, <1>5, <1>6 DEF Tallies
<1>8. Linked(fmt, st2, Append(items, x))
  <2>1. \A j \in 1 .. Len(items) : items[j].call # x.call
    BY <1>1, <1>2, <1>3, NewItem
  <2>2. Limit(fmt, st2) = Len(items) + 1
    BY <1>3 DEF Linked
  <2> QED BY <1>1, <1>2, <1>3, <1>4, <2>1, <2>2, LinkedOpened
<1>9. Answer(fmt, Append(s, e), st2, Append(out, x))
  BY <1>2, <1>5, <1>7, <1>8 DEF Answer
<1> QED BY <1>9 DEF x

LEMMA AddCallAnswer ==
  ASSUME IInv, output \in Seq(OutputItems), Answer(format, sent, state, output),
         NEW c \in Calls, ~Complete, AddCall(c), phase' # "broken", "repeated" \notin odd'
  PROVE  Answer(format, sent', state', output')
<1>1. /\ output' = Append(output, OutputItem("function_call", c, <<>>))
      /\ ChatStartTool(c) \/ AnthropicStartTool(c)
  BY DEF AddCall
<1>2. NewCall(c)
  BY <1>1 DEF ChatStartTool, AnthropicStartTool
<1>3. /\ sent \in Seq(Sendable) /\ state \in StateType /\ Tracks(format, sent, state, odd')
      /\ ToolId(c) \notin DOMAIN state.toolIndexes /\ ToolId(c) \in SendableIds
      /\ \A k \in DOMAIN sent : ~Announces(k, c)
  BY <1>2, NewCallFacts
<1>4. IsFiniteSet(DOMAIN state.toolIndexes)
  BY <1>3 DEF Tracks, StartsTracked
<1> DEFINE id == ToolId(c)
<1>5. CASE ChatStartTool(c)
  <2> DEFINE i == Cardinality(DOMAIN state.toolIndexes)
             e == ToolStart("tool_start", i, c, id)
             s == sent \o EnsureChatStart
             w == WithTool(id, i)
  <2>1. /\ format = "chat" /\ sent' = sent \o Append(EnsureChatStart, e)
        /\ state' = [w EXCEPT !.started = TRUE]
    BY <1>5, WriteDone DEF ChatStartTool
  <2>2. i \in Nat /\ i \in Int
    BY <1>4, FS_CardinalityType
  <2>3. /\ e \in Sendable /\ e.name = "tool_start" /\ e.index = i /\ e.kind = "tool"
        /\ e.call = c /\ e.id = id
    BY <1>3, <2>2, EventTypes DEF ToolStart, Names
  <2> HIDE DEF e
  <2>4. /\ EnsureChatStart \in Seq(Sendable) /\ SameWrites(sent, s) /\ s \in Seq(Sendable)
    BY <1>3, SameWritesStart
  <2>5. sent' = Append(s, e)
    BY <1>3, <2>1, <2>3, <2>4, Joins
  <2>6. i = Limit(format, state)
    BY <2>1 DEF Limit
  <2>7. /\ w \in StateType /\ w.hadTool
        /\ DOMAIN w.toolIndexes = DOMAIN state.toolIndexes \cup {id}
    BY <1>3, <2>2, WithToolFacts
  <2> HIDE DEF w
  <2>8. state'.toolIndexes = w.toolIndexes /\ state'.hadTool
    BY <2>1, <2>7 DEF StateType
  <2>9. Limit(format, state') = i + 1
    <3>1. Cardinality(DOMAIN state.toolIndexes \cup {id}) = i + 1
      BY <1>3, <1>4, FS_AddElement
    <3> QED BY <2>1, <2>7, <2>8, <3>1 DEF Limit
  <2> HIDE DEF s, i
  <2>10. e.name \in StartNames /\ ~(format # "chat")
    BY <2>1, <2>3 DEF StartNames
  <2>11. Answer(format, Append(s, e), state',
                Append(output, OutputItem("function_call", c, <<>>)))
    BY <1>3, <2>3, <2>4, <2>6, <2>8, <2>9, <2>10, CallOpened
  <2> QED BY <1>1, <2>5, <2>11
<1>6. CASE AnthropicStartTool(c)
  <2> DEFINE i == state.nextBlock
             e == ToolStart("block_start", i, c, id)
             s == sent \o CloseBlock
             w == WithTool(id, i)
  <2>1. /\ format = "anthropic" /\ sent' = sent \o Append(CloseBlock, e)
        /\ state' = [w EXCEPT !.openBlock = i, !.blockKind = "tool", !.nextBlock = i + 1]
    BY <1>6, WriteDone DEF AnthropicStartTool
  <2>2. i \in Nat /\ i \in Int /\ i + 1 \in Nat
    <3>1. i \in Nat
      BY <1>3 DEF StateType
    <3> QED BY <3>1
  <2>3. /\ e \in Sendable /\ e.name = "block_start" /\ e.index = i /\ e.kind = "tool"
        /\ e.call = c /\ e.id = id
    BY <1>3, <2>2, EventTypes DEF ToolStart, Names
  <2> HIDE DEF e
  <2>4. /\ CloseBlock \in Seq(Sendable) /\ SameWrites(sent, s) /\ s \in Seq(Sendable)
    BY <1>3, SameWritesClose
  <2>5. sent' = Append(s, e)
    BY <1>3, <2>1, <2>3, <2>4, Joins
  <2>6. i = Limit(format, state)
    BY <2>1 DEF Limit
  <2> HIDE DEF i
  <2>7. w \in StateType /\ w.hadTool
    BY <1>3, <2>2, WithToolFacts
  <2> HIDE DEF w
  <2>8. /\ state'.hadTool /\ state'.openBlock = i /\ state'.blockKind = "tool"
        /\ state'.nextBlock = i + 1
    BY <2>1, <2>2, <2>7 DEF StateType
  <2>9. Limit(format, state') = i + 1
    BY <2>1, <2>8 DEF Limit
  <2> HIDE DEF s
  <2>10. /\ e.name \in StartNames
         /\ state'.openBlock = e.index /\ state'.blockKind = "tool"
    BY <2>3, <2>8 DEF StartNames
  <2>11. Answer(format, Append(s, e), state',
                Append(output, OutputItem("function_call", c, <<>>)))
    BY <1>3, <2>3, <2>4, <2>6, <2>8, <2>9, <2>10, CallOpened
  <2> QED BY <1>1, <2>5, <2>11
<1> QED BY <1>1, <1>5, <1>6
-----------------------------------------------------------------------------
\* The item of call c gets one more part.
Grown(c) ==
  [x \in OutputItems |->
     IF x.call = c THEN [x EXCEPT !.parts = Append(@, "arguments")] ELSE x]

LEMMA GrownFacts ==
  ASSUME NEW c \in Calls, NEW x \in OutputItems
  PROVE  /\ Grown(c)[x] \in OutputItems
         /\ Grown(c)[x].type = x.type /\ Grown(c)[x].call = x.call
         /\ IF x.call = c THEN Len(Grown(c)[x].parts) = Len(x.parts) + 1
            ELSE Grown(c)[x] = x
<1> DEFINE p == Append(x.parts, "arguments")
           y == [x EXCEPT !.parts = p]
<1>1. /\ x.parts \in Seq(Parts) /\ "arguments" \in Parts
      /\ \A k \in DOMAIN x.parts : x.parts[k] \in PartNames(x.type)
  BY DEF OutputItems, Parts
<1>2. /\ p \in Seq(Parts) /\ Len(p) = Len(x.parts) + 1
      /\ \A k \in DOMAIN p : p[k] \in PartNames(x.type) \/ p[k] = "arguments"
  BY <1>1
<1>3. Grown(c)[x] = IF x.call = c THEN y ELSE x
  BY DEF Grown
<1> HIDE DEF p
<1>4. y.type = x.type /\ y.call = x.call /\ y.parts = p
  BY DEF OutputItems
<1>5. x.call = c => y \in OutputItems
  <2>1. x.call = c => x.type = "function_call"
    BY StreamAssumption DEF OutputItems
  <2>2. "arguments" \in PartNames("function_call")
    BY DEF PartNames
  <2> QED BY <1>2, <2>1, <2>2 DEF OutputItems
<1> QED BY <1>2, <1>3, <1>4, <1>5

LEMMA ArgumentsDone ==
  ASSUME output \in Seq(OutputItems), NEW c \in Calls, NEW id, ~Complete, Arguments(c, id)
  PROVE  /\ output' \in Seq(OutputItems) /\ Len(output') = Len(output)
         /\ \A i \in 1 .. Len(output) : output'[i] = Grown(c)[output[i]]
<1> DEFINE f(i) == IF output[i].call = c
                   THEN [output[i] EXCEPT !.parts = Append(@, "arguments")]
                   ELSE output[i]
<1>1. DOMAIN output = 1 .. Len(output) /\ Len(output) \in Nat
  OBVIOUS
<1>2. ASSUME NEW i \in 1 .. Len(output)
      PROVE  f(i) = Grown(c)[output[i]] /\ f(i) \in OutputItems
  <2>1. output[i] \in OutputItems
    OBVIOUS
  <2> QED BY <2>1, GrownFacts DEF Grown
<1>3. output' = [i \in 1 .. Len(output) |-> f(i)]
  BY <1>1 DEF Arguments
<1> HIDE DEF f
<1>4. output' \in [1 .. Len(output) -> OutputItems]
  BY <1>2, <1>3
<1>5. output' \in Seq(OutputItems) /\ DOMAIN output' = 1 .. Len(output)
  BY <1>1, <1>4
<1> QED BY <1>1, <1>2, <1>3, <1>5

\* The same map, of the items that are shown.
LEMMA ShownGrows ==
  ASSUME NEW fmt, NEW out \in Seq(OutputItems), NEW more \in Seq(OutputItems),
         NEW c \in Calls, Len(more) = Len(out),
         \A i \in 1 .. Len(out) : more[i] = Grown(c)[out[i]]
  PROVE  /\ Len(Shown(fmt, more)) = Len(Shown(fmt, out))
         /\ \A i \in 1 .. Len(Shown(fmt, out)) :
              Shown(fmt, more)[i] = Grown(c)[Shown(fmt, out)[i]]
<1>1. CASE fmt = "chat"
  <2> DEFINE R == [x \in OutputItems |-> {Grown(c)[x]}]
             u == Only(out, CallItems)
             v == Only(more, CallItems)
  <2>1. \A x \in OutputItems : R[x] = {Grown(c)[x]}
    OBVIOUS
  <2> HIDE DEF R
  <2>2. ASSUME NEW i \in 1 .. Len(out)
        PROVE  /\ out[i] \in CallItems <=> more[i] \in CallItems
               /\ out[i] \in CallItems => more[i] \in R[out[i]]
    <3>1. out[i] \in OutputItems /\ more[i] = Grown(c)[out[i]]
      OBVIOUS
    <3> QED BY <2>1, <3>1, GrownFacts DEF CallItems
  <2>3. /\ Len(v) = Len(u)
        /\ \A i \in 1 .. Len(u) : v[i] \in R[u[i]]
    BY <2>2, OnlyPaired
  <2>4. u \in Seq(OutputItems)
    BY OnlyType
  <2> HIDE DEF u, v
  <2>5. ASSUME NEW i \in 1 .. Len(u) PROVE v[i] = Grown(c)[u[i]]
    <3>1. u[i] \in OutputItems
      BY <2>4
    <3> QED BY <2>1, <2>3, <3>1
  <2> QED BY <1>1, <2>3, <2>5 DEF Shown, u, v
<1>2. CASE fmt # "chat"
  BY <1>2 DEF Shown
<1> QED BY <1>1, <1>2

\* Its arguments do not change what messages and reasoning hold.
LEMMA SizeKept ==
  ASSUME NEW out \in Seq(OutputItems), NEW more \in Seq(OutputItems),
         NEW c \in Calls, Len(more) = Len(out),
         \A i \in 1 .. Len(out) : more[i] = Grown(c)[out[i]],
         NEW type \in {"message", "reasoning"}
  PROVE  SizeOf(more, type) = SizeOf(out, type)
<1>1. DOMAIN out = 1 .. Len(out) /\ DOMAIN more = 1 .. Len(out)
  OBVIOUS
<1>2. ASSUME NEW i \in 1 .. Len(out)
      PROVE  more[i].type = out[i].type /\ (out[i].type = type => more[i] = out[i])
  <2>1. out[i] \in OutputItems /\ more[i] = Grown(c)[out[i]] /\ c # NoItem
    BY StreamAssumption
  <2>2. out[i].type = type => out[i].call # c
    BY <2>1 DEF OutputItems
  <2> QED BY <2>1, <2>2, GrownFacts
<1>3. ASSUME NEW p
      PROVE  p \in PartsOf(more, type) <=> p \in PartsOf(out, type)
  BY <1>1, <1>2, PartsMember
<1>4. PartsOf(more, type) = PartsOf(out, type)
  BY <1>3
<1> QED BY <1>4 DEF SizeOf

LEMMA ArgumentsAnswer ==
  ASSUME IInv, output \in Seq(OutputItems), Answer(format, sent, state, output),
         NEW c \in Calls, NEW id, ~Complete, Arguments(c, id), phase' # "broken",
         odd' \cap {"misnamed", "repeated"} = {}
  PROVE  Answer(format, sent', state', output')
<1> DEFINE i0 == ToolIndex(id)
           e == ToolEvent(i0, c)
           unnamed == \A k \in DOMAIN sent : Announces(k, c) => sent[k].id # id
           os == Late \cup Oddity("mixed", c # item) \cup Oddity("misnamed", unnamed)
           items == Shown(format, output)
           more == Shown(format, output')
<1>0. Read(item, os) /\ Write(<<e>>, "reading") /\ state' = state
  BY DEF Arguments, ToolDelta, SendArguments
<1>1. /\ sent \in Seq(Sendable) /\ state \in StateType /\ state' = state
      /\ ~unnamed /\ c # NoItem /\ Tracks(format, sent, state, odd')
      /\ sent' = sent \o <<e>>
  <2>1. os \in SUBSET Oddities /\ (unnamed => "misnamed" \in os)
    BY OddityFacts DEF Oddity, Oddities
  <2> HIDE DEF os, unnamed, e
  <2>2. item \in Calls \cup {NoItem}
    BY DEF IInv, TypeOK
  <2>3. /\ sent \in Seq(Sendable) /\ state \in StateType /\ os \subseteq odd'
        /\ Tracks(format, sent, state, odd')
    BY <1>0, <2>1, <2>2, ReadFacts
  <2>4. c # NoItem
    BY StreamAssumption
  <2>5. sent' = sent \o <<e>>
    BY <1>0, WriteDone
  <2> QED BY <1>0, <2>1, <2>3, <2>4, <2>5
<1>2. /\ output' \in Seq(OutputItems) /\ Len(output') = Len(output)
      /\ \A i \in 1 .. Len(output) : output'[i] = Grown(c)[output[i]]
  BY ArgumentsDone
<1>3. /\ items \in Seq(OutputItems) /\ more \in Seq(OutputItems)
      /\ Len(more) = Len(items)
      /\ \A i \in 1 .. Len(items) : more[i] = Grown(c)[items[i]]
  BY <1>2, ShownType, ShownGrows
<1>4. /\ Mirrors(sent, items) /\ Tallies(sent, output) /\ Linked(format, state, items)
  BY DEF Answer
<1> HIDE DEF items, more
<1>5. PICK j \in 1 .. Len(items) : items[j].call = c /\ i0 = j - 1
  <2>1. PICK k \in DOMAIN sent : Announces(k, c) /\ sent[k].id = id
    BY <1>1
  <2>2. sent[k] \in Sendable /\ sent[k].name \in StartNames /\ sent[k].call = c
    BY <1>1, <2>1 DEF Announces, StartNames
  <2>3. id \in DOMAIN state.toolIndexes /\ state.toolIndexes[id] = sent[k].index
    <3>1. StartsTracked(format, sent, state, odd')
      BY <1>1 DEF Tracks
    <3>2. sent[k].kind = "tool" /\ "repeated" \notin odd'
      BY <1>1, <2>2, <3>1 DEF StartsTracked
    <3>3. IndexesTracked(format, sent, state)
      BY <3>1, <3>2 DEF StartsTracked
    <3> QED BY <2>1, <2>2, <3>2, <3>3 DEF IndexesTracked
  <2>4. i0 = sent[k].index
    BY <2>3 DEF ToolIndex
  <2> HIDE DEF i0
  <2>5. PICK g : SelectedFrom(g, Only(sent, Starts), sent, Starts)
    BY <1>1, OnlyPlaces
  <2>6. k \in 1 .. Len(sent) /\ sent[k] \in Starts
    BY <1>1, <2>2 DEF Starts
  <2>7. PICK j \in 1 .. Len(Only(sent, Starts)) : g[j] = k
    BY <2>5, <2>6 DEF SelectedFrom
  <2>8. Only(sent, Starts)[j] = sent[k]
    BY <2>5, <2>7 DEF SelectedFrom
  <2>9. /\ j \in 1 .. Len(items) /\ sent[k].index = j - 1
        /\ sent[k].call = items[j].call
    BY <1>4, <2>7, <2>8 DEF Mirrors
  <2> QED BY <2>2, <2>4, <2>9
<1>6. \A i \in 1 .. Len(items) : items[i].call = c => i = j
  BY <1>1, <1>4, <1>5 DEF Linked, Distinct
<1>7. Grows(items, more, j)
  <2>1. \A i \in 1 .. Len(items) : items[i] \in OutputItems
    BY <1>3
  <2> QED BY <1>3, <1>5, <1>6, <2>1, GrownFacts DEF Grows
<1>8. /\ e.name \in {"tool_delta", "block_delta"} /\ e.index = j - 1 /\ e.kind = "tool"
      /\ e \in Sendable
  <2>1. i0 \in Int
    BY <1>5
  <2>2. "tool" \in {"", "text", "thinking", "tool", "length", "stop"}
    OBVIOUS
  <2> HIDE DEF i0
  <2>3. e \in Sendable
    BY <2>1, <2>2, EventTypes DEF Names, ToolEvent
  <2> QED BY <1>5, <2>3 DEF Event, ToolEvent
<1> HIDE DEF e
<1>9. sent' = Append(sent, e)
  BY <1>1, <1>8, Joins
<1>10. Mirrors(sent', more)
  BY <1>1, <1>3, <1>4, <1>7, <1>8, <1>9, DeltaMirrored
<1>11. Tallies(sent', output')
  <2>1. e \notin DeltasOf("text") /\ e \notin DeltasOf("thinking")
    BY <1>8 DEF DeltasOf
  <2>2. /\ Count(sent', DeltasOf("text")) = Count(sent, DeltasOf("text"))
        /\ Count(sent', DeltasOf("thinking")) = Count(sent, DeltasOf("thinking"))
    <3>1. \A S : Count(Append(sent, e), S) =
                   IF e \in S THEN Count(sent, S) + 1 ELSE Count(sent, S)
      BY <1>1, <1>8, CountAppend
    <3> QED BY <1>9, <2>1, <3>1
  <2>3. \A type \in {"message", "reasoning"} : SizeOf(output', type) = SizeOf(output, type)
    BY <1>2, SizeKept
  <2> QED BY <1>4, <2>2, <2>3 DEF Tallies
<1>12. Linked(format, state', more)
  BY <1>1, <1>3, <1>4, <1>7, GrowsShape, LinkedKept
<1> QED BY <1>10, <1>11, <1>12 DEF Answer, more
-----------------------------------------------------------------------------
(***************************************************************************)
(* The items on their own: neighbours differ in type, unless they are      *)
(* calls, and what was said is not taken back.                             *)
(***************************************************************************)
Separate(out) ==
  /\ \A i \in 1 .. Len(out) : out[i].type # "function_call" => Len(out[i].parts) > 0
  /\ \A i \in 1 .. Len(out) - 1 :
       out[i].type = out[i + 1].type => out[i].type = "function_call"

Refuses(x) == \E k \in DOMAIN x.parts : x.parts[k] = "refusal"

\* The items go on: none of them takes back a refusal.
Continues(out, more) ==
  /\ more \in Seq(OutputItems) /\ Separate(more)
  /\ Len(out) <= Len(more)
  /\ \A i \in 1 .. Len(out) : Refuses(out[i]) => Refuses(more[i])

Refused == \E i \in 1 .. Len(output) : Refuses(output[i])

LEMMA RefusedKept ==
  ASSUME output \in Seq(OutputItems), Continues(output, output')
  PROVE  /\ Refused => Refused'
         /\ \A i \in 1 .. Len(output') : Refuses(output'[i]) => Refused'
<1>1. \A i \in 1 .. Len(output) :
        i \in 1 .. Len(output') /\ (Refuses(output[i]) => Refuses(output'[i]))
  BY DEF Continues
<1> QED BY <1>1 DEF Refused

LEMMA ContinuesSame ==
  ASSUME output \in Seq(OutputItems), Separate(output), output' = output
  PROVE  Continues(output, output')
BY DEF Continues

LEMMA PartsGrow ==
  ASSUME NEW x \in OutputItems, NEW p \in Parts, NEW y,
         p \in PartNames(x.type), y = [x EXCEPT !.parts = Append(@, p)]
  PROVE  /\ y \in OutputItems /\ y.type = x.type /\ y.call = x.call
         /\ Len(x.parts) \in Nat /\ Len(y.parts) = Len(x.parts) + 1
         /\ Refuses(x) => Refuses(y)
         /\ p = "refusal" => Refuses(y)
<1> DEFINE q == x.parts
           r == Append(q, p)
<1>1. /\ q \in Seq(Parts) /\ p \in Parts
      /\ \A k \in DOMAIN q : q[k] \in PartNames(x.type)
  BY DEF OutputItems, PartNames, Parts
<1>2. y = [x EXCEPT !.parts = r]
  OBVIOUS
<1> HIDE DEF q
<1>3. /\ r \in Seq(Parts) /\ Len(r) = Len(q) + 1 /\ Len(q) \in Nat
      /\ DOMAIN r = 1 .. Len(q) + 1 /\ DOMAIN q = 1 .. Len(q)
      /\ r[Len(q) + 1] = p /\ \A k \in 1 .. Len(q) : r[k] = q[k]
      /\ \A k \in DOMAIN r : r[k] \in PartNames(x.type)
  BY <1>1
<1> HIDE DEF r
<1>4. y \in OutputItems /\ y.type = x.type /\ y.call = x.call /\ y.parts = r
  BY <1>2, <1>3 DEF OutputItems
<1>5. \A k \in DOMAIN q : k \in DOMAIN r /\ r[k] = q[k]
  BY <1>3
<1>6. Len(q) + 1 \in DOMAIN r
  BY <1>3
<1> QED BY <1>3, <1>4, <1>5, <1>6 DEF Refuses, q

LEMMA ExtendDone ==
  ASSUME output \in Seq(OutputItems), Separate(output),
         NEW type \in {"message", "reasoning"}, NEW part \in PartNames(type), Extend(type, part)
  PROVE  /\ Continues(output, output') /\ UNCHANGED status
         /\ Complete => output' = output
         /\ part = "refusal" => Refused' \/ output' = output
<1> DEFINE y == OutputItem(type, NoItem, <<part>>)
           m == Len(output)
<1>0. CASE Complete
  <2>1. output' = output /\ UNCHANGED status
    BY <1>0 DEF Extend
  <2> QED BY <2>1, ContinuesSame
<1>1. CASE ~Complete /\ output # <<>> /\ output[m].type = type
  <2> DEFINE o == output[m]
             z == [o EXCEPT !.parts = Append(@, part)]
  <2>1. m \in 1 .. m /\ o \in OutputItems /\ m \in Nat
    BY <1>1
  <2>2. output' = [output EXCEPT ![m] = z] /\ UNCHANGED status
    BY <1>1 DEF Extend, LastIs, Last
  <2> HIDE DEF z
  <2>3. /\ z \in OutputItems /\ z.type = o.type /\ z.call = o.call
        /\ Len(z.parts) > 0
        /\ Refuses(o) => Refuses(z)
        /\ part = "refusal" => Refuses(z)
    <3>1. o \in OutputItems /\ z = [o EXCEPT !.parts = Append(@, part)] /\ o.type = type
      BY <1>1, <2>1 DEF z
    <3> HIDE DEF o
    <3>2. /\ z \in OutputItems /\ z.type = o.type /\ z.call = o.call
          /\ Len(o.parts) \in Nat /\ Len(z.parts) = Len(o.parts) + 1
          /\ Refuses(o) => Refuses(z)
          /\ part = "refusal" => Refuses(z)
      <4>1. part \in PartNames(o.type) /\ part \in Parts
        BY <3>1 DEF PartNames, Parts
      <4> QED BY <3>1, <4>1, PartsGrow
    <3> QED BY <3>2
  <2>4. /\ output' \in Seq(OutputItems) /\ Len(output') = m /\ output'[m] = z
        /\ \A i \in 1 .. m : i # m => output'[i] = output[i]
    BY <2>1, <2>2, <2>3
  <2>5. ASSUME NEW i \in 1 .. m
        PROVE  /\ output'[i].type = output[i].type
               /\ output'[i].call = output[i].call
               /\ Refuses(output[i]) => Refuses(output'[i])
               /\ Len(output[i].parts) > 0 => Len(output'[i].parts) > 0
    <3>1. CASE i = m
      BY <2>3, <2>4, <3>1
    <3>2. CASE i # m
      <4>1. output'[i] = output[i]
        BY <2>4, <3>2
      <4> QED BY <4>1
    <3> QED BY <3>1, <3>2
  <2>6. Separate(output')
    <3>1. \A i \in 1 .. m - 1 : i \in 1 .. m /\ i + 1 \in 1 .. m
      BY <2>1
    <3> QED BY <2>4, <2>5, <3>1 DEF Separate
  <2>7. Continues(output, output')
    BY <2>1, <2>4, <2>5, <2>6 DEF Continues
  <2>8. part = "refusal" => Refused'
    BY <2>1, <2>3, <2>4 DEF Refused
  <2> QED BY <1>1, <2>2, <2>7, <2>8
<1>2. CASE ~Complete /\ ~(output # <<>> /\ output[m].type = type)
  <2>1. output' = Append(output, y) /\ UNCHANGED status
    BY <1>2 DEF Extend, LastIs, Last
  <2>2. /\ y \in OutputItems /\ y.type = type /\ y.call = NoItem /\ Len(y.parts) = 1
        /\ DOMAIN y.parts = 1 .. 1 /\ y.parts[1] = part
    <3>1. <<part>> \in Seq(Parts) /\ Len(<<part>>) = 1
      BY DEF PartNames, Parts
    <3> QED BY <3>1 DEF OutputItem, OutputItems
  <2> HIDE DEF y
  <2>3. /\ output' \in Seq(OutputItems) /\ Len(output') = m + 1 /\ m \in Nat
        /\ output'[m + 1] = y /\ DOMAIN output' = 1 .. m + 1
        /\ \A i \in 1 .. m : output'[i] = output[i]
    BY <2>1, <2>2, AppendProperties
  <2>4. \A i \in 1 .. m + 1 : i \in 1 .. m \/ i = m + 1
    BY <2>3
  <2>5. Separate(output')
    <3>1. \A i \in 1 .. m + 1 : output'[i].type # "function_call" => Len(output'[i].parts) > 0
      BY <2>2, <2>3, <2>4 DEF Separate
    <3>2. \A i \in 1 .. m :
            output'[i].type = output'[i + 1].type => output'[i].type = "function_call"
      <4> SUFFICES ASSUME NEW i \in 1 .. m, output'[i].type = output'[i + 1].type
                   PROVE  output'[i].type = "function_call"
        OBVIOUS
      <4>1. CASE i = m
        <5>1. output # <<>> /\ output'[m + 1].type = type /\ output'[m] = output[m]
          BY <2>2, <2>3, <4>1
        <5> QED BY <1>2, <4>1, <5>1
      <4>2. CASE i # m
        <5>1. i \in 1 .. m - 1 /\ i + 1 \in 1 .. m
          BY <2>3, <4>2
        <5> QED BY <2>3, <5>1 DEF Separate
      <4> QED BY <4>1, <4>2
    <3> QED BY <2>3, <3>1, <3>2 DEF Separate
  <2>6. Continues(output, output')
    BY <2>3, <2>5 DEF Continues
  <2>7. part = "refusal" => Refused'
    <3>1. part = "refusal" => Refuses(output'[m + 1])
      BY <2>2, <2>3 DEF Refuses
    <3>2. m + 1 \in 1 .. Len(output')
      BY <2>3
    <3> QED BY <3>1, <3>2 DEF Refused
  <2> QED BY <1>2, <2>1, <2>6, <2>7
<1> QED BY <1>0, <1>1, <1>2

LEMMA AddCallDone ==
  ASSUME output \in Seq(OutputItems), Separate(output), NEW c \in Calls, AddCall(c)
  PROVE  Continues(output, output') /\ UNCHANGED status
<1> SUFFICES ASSUME ~Complete
             PROVE  Continues(output, output') /\ UNCHANGED status
  BY ContinuesSame DEF AddCall
<1> DEFINE y == OutputItem("function_call", c, <<>>)
           m == Len(output)
<1>1. output' = Append(output, y) /\ UNCHANGED status
  BY DEF AddCall
<1>2. y \in OutputItems /\ y.type = "function_call" /\ y.call = c
  <2>1. <<>> \in Seq(Parts) /\ c # NoItem /\ DOMAIN <<>> = {}
    BY StreamAssumption
  <2> QED BY <2>1 DEF OutputItem, OutputItems
<1> HIDE DEF y
<1>3. /\ output' \in Seq(OutputItems) /\ Len(output') = m + 1 /\ m \in Nat
      /\ output'[m + 1] = y /\ \A i \in 1 .. m : output'[i] = output[i]
  BY <1>1, <1>2, AppendProperties
<1>4. \A i \in 1 .. m + 1 : i \in 1 .. m \/ i = m + 1
  BY <1>3
<1>5. Separate(output')
  <2>1. \A i \in 1 .. m + 1 : output'[i].type # "function_call" => Len(output'[i].parts) > 0
    BY <1>2, <1>3, <1>4 DEF Separate
  <2>2. \A i \in 1 .. m :
          output'[i].type = output'[i + 1].type => output'[i].type = "function_call"
    <3> SUFFICES ASSUME NEW i \in 1 .. m, output'[i].type = output'[i + 1].type
                 PROVE  output'[i].type = "function_call"
      OBVIOUS
    <3>1. CASE i = m
      BY <1>2, <1>3, <3>1
    <3>2. CASE i # m
      <4>1. i \in 1 .. m - 1 /\ i + 1 \in 1 .. m
        BY <1>3, <3>2
      <4> QED BY <1>3, <4>1 DEF Separate
    <3> QED BY <3>1, <3>2
  <2> QED BY <1>3, <2>1, <2>2 DEF Separate
<1>6. Continues(output, output')
  BY <1>3, <1>5 DEF Continues
<1> QED BY <1>1, <1>2, <1>3, <1>4, <1>6

LEMMA ArgumentsKept ==
  ASSUME output \in Seq(OutputItems), Separate(output), NEW c \in Calls, NEW id,
         Arguments(c, id)
  PROVE  Continues(output, output') /\ UNCHANGED status
<1> SUFFICES ASSUME ~Complete
             PROVE  Continues(output, output') /\ UNCHANGED status
  <2>1. CASE Complete
    <3>1. output' = [i \in DOMAIN output |-> output[i]] /\ UNCHANGED status
      BY <2>1 DEF Arguments
    <3>2. output = [i \in DOMAIN output |-> output[i]]
      OBVIOUS
    <3> QED BY <3>1, <3>2, ContinuesSame
  <2> QED BY <2>1
<1> DEFINE m == Len(output)
<1>1. /\ output' \in Seq(OutputItems) /\ Len(output') = m /\ m \in Nat
      /\ \A i \in 1 .. m : output'[i] = Grown(c)[output[i]]
  BY ArgumentsDone
<1>2. ASSUME NEW i \in 1 .. m
      PROVE  /\ output'[i].type = output[i].type /\ output'[i].call = output[i].call
             /\ Refuses(output[i]) => Refuses(output'[i])
             /\ Len(output[i].parts) > 0 => Len(output'[i].parts) > 0
  <2> DEFINE x == output[i]
             y == [x EXCEPT !.parts = Append(@, "arguments")]
  <2>1. x \in OutputItems /\ output'[i] = Grown(c)[x]
    BY <1>1
  <2> HIDE DEF x
  <2>2. Grown(c)[x] = IF x.call = c THEN y ELSE x
    BY <2>1 DEF Grown
  <2>3. "arguments" \in Parts /\ (x.call = c => "arguments" \in PartNames(x.type))
    BY <2>1, StreamAssumption DEF PartNames, OutputItems, Parts
  <2> HIDE DEF y
  <2>4. x.call = c =>
        /\ y.type = x.type /\ y.call = x.call
        /\ Len(x.parts) \in Nat /\ Len(y.parts) = Len(x.parts) + 1
        /\ Refuses(x) => Refuses(y)
    <3> SUFFICES ASSUME x.call = c
                 PROVE  /\ y.type = x.type /\ y.call = x.call
                        /\ Len(x.parts) \in Nat /\ Len(y.parts) = Len(x.parts) + 1
                        /\ Refuses(x) => Refuses(y)
      OBVIOUS
    <3> QED BY <2>1, <2>3, PartsGrow DEF y
  <2> QED BY <2>1, <2>2, <2>4 DEF x
<1>3. Separate(output')
  <2>1. \A i \in 1 .. m - 1 : i \in 1 .. m /\ i + 1 \in 1 .. m
    BY <1>1
  <2> QED BY <1>1, <1>2, <2>1 DEF Separate
<1>4. Continues(output, output')
  BY <1>1, <1>2, <1>3 DEF Continues
<1>5. UNCHANGED status
  BY DEF Arguments
<1> QED BY <1>1, <1>2, <1>4, <1>5
-----------------------------------------------------------------------------
(***************************************************************************)
(* The invariant of the converter and the upstream's object together.      *)
(***************************************************************************)
Reasoned(s, out, stat) ==
  /\ \E i \in DOMAIN s : s[i].name = "finish"
  /\ \A i \in DOMAIN s : s[i].name = "finish" =>
       s[i].kind = IF CallIn(out) THEN "tool"
                   ELSE IF stat = "incomplete" THEN "length" ELSE "stop"

Mirrored == Mirrors(sent, Shown(format, output)) /\ Tallies(sent, output)

RInv ==
  /\ IInv
  /\ output \in Seq(OutputItems) /\ Separate(output)
  /\ status \in {"in_progress", "completed", "incomplete", "failed"}
  /\ Complete => state.finished /\ events > 0
  /\ phase = "reading" /\ state.finished => Complete
  /\ phase # "broken" /\ Regular /\ ~Refused =>
       /\ Mirrored
       /\ ~state.finished => Linked(format, state, Shown(format, output))
       /\ Complete => Reasoned(sent, output, status)

\* finish writes one finish, and nothing else that a client's answer depends on.
LEMMA FinishAnswer ==
  ASSUME IInv, phase = "reading", ~state.finished, NEW incomplete, NEW after,
         Finish(incomplete, after), phase' # "broken"
  PROVE  /\ SameWrites(sent, sent')
         /\ \E i \in DOMAIN sent' : sent'[i].name = "finish"
         /\ \A i \in DOMAIN sent' : sent'[i].name = "finish" => sent'[i].kind = Reason(incomplete)
<1> DEFINE f == Event("finish", None, Reason(incomplete), NoItem)
           g == Event("end", None, "", NoItem)
<1>1. /\ Write(IF format = "chat" THEN ChatFinish(incomplete)
               ELSE AnthropicFinish(incomplete), after)
      /\ state' = [state EXCEPT !.finished = TRUE, !.started = TRUE,
                                !.openBlock = None, !.blockKind = ""]
  BY DEF Finish
<1>2. /\ sent \in Seq(Sendable) /\ state \in StateType
      /\ \A k \in DOMAIN sent : sent[k].name \notin {"finish", "end"}
  BY DEF IInv, Tracks, FinishTracked
<1>3. f \in Sendable /\ g \in Sendable
  <2>1. Reason(incomplete) \in {"tool", "length", "stop"}
    BY DEF Reason
  <2> QED BY <2>1, EventTypes DEF Names
<1>4. f.name = "finish" /\ f.kind = Reason(incomplete) /\ g.name = "end"
  BY DEF Event
<1> HIDE DEF f, g
<1>5. \E w \in Seq(Sendable) :
        /\ sent' = sent \o (w \o <<f, g>>) /\ SameWrites(sent, sent \o w)
        /\ \A k \in DOMAIN w : w[k].name # "finish"
  <2>1. CASE format = "chat"
    <3>1. sent' = sent \o (EnsureChatStart \o <<f, g>>)
      BY <1>1, <2>1, WriteDone DEF ChatFinish, f, g
    <3>2. \A k \in DOMAIN EnsureChatStart : EnsureChatStart[k].name # "finish"
      <4>1. EnsureChatStart = <<>> \/ EnsureChatStart = <<Role>>
        BY DEF EnsureChatStart
      <4>2. Role.name # "finish"
        BY DEF Role, Event
      <4>3. DOMAIN <<Role>> = {1} /\ <<Role>>[1] = Role /\ DOMAIN <<>> = {}
        OBVIOUS
      <4> QED BY <4>1, <4>2, <4>3
    <3> QED BY <3>1, <3>2, SameWritesStart
  <2>2. CASE format # "chat"
    <3>1. sent' = sent \o (CloseBlock \o <<f, g>>)
      BY <1>1, <2>2, WriteDone DEF AnthropicFinish, f, g
    <3>2. \A k \in DOMAIN CloseBlock : CloseBlock[k].name # "finish"
      <4> DEFINE b == BlockStop(state.openBlock)
      <4>1. CloseBlock = <<>> \/ CloseBlock = <<b>>
        BY DEF CloseBlock
      <4>2. b.name # "finish"
        BY DEF BlockStop, Event
      <4> HIDE DEF b
      <4>3. DOMAIN <<b>> = {1} /\ <<b>>[1] = b /\ DOMAIN <<>> = {}
        OBVIOUS
      <4> QED BY <4>1, <4>2, <4>3
    <3> QED BY <3>1, <3>2, SameWritesClose
  <2> QED BY <2>1, <2>2
<1>6. PICK w \in Seq(Sendable) :
        /\ sent' = sent \o (w \o <<f, g>>) /\ SameWrites(sent, sent \o w)
        /\ \A k \in DOMAIN w : w[k].name # "finish"
  BY <1>5
<1> DEFINE s == sent \o w
<1>7. /\ s \in Seq(Sendable) /\ Len(s) \in Nat /\ DOMAIN s = 1 .. Len(s)
      /\ \A k \in DOMAIN s : s[k].name # "finish"
  <2>1. /\ Len(s) = Len(sent) + Len(w) /\ s \in Seq(Sendable)
        /\ \A k \in 1 .. Len(s) : s[k] = IF k <= Len(sent) THEN sent[k] ELSE w[k - Len(sent)]
    BY <1>2
  <2>2. DOMAIN s = 1 .. Len(s) /\ DOMAIN sent = 1 .. Len(sent) /\ DOMAIN w = 1 .. Len(w)
    BY <1>2, <2>1
  <2>3. ASSUME NEW k \in 1 .. Len(s) PROVE s[k].name # "finish"
    <3>1. CASE k <= Len(sent)
      <4>1. k \in DOMAIN sent /\ s[k] = sent[k]
        BY <1>2, <2>1, <2>2, <3>1
      <4> QED BY <1>2, <4>1
    <3>2. CASE ~(k <= Len(sent))
      <4>1. k - Len(sent) \in DOMAIN w /\ s[k] = w[k - Len(sent)]
        BY <1>2, <2>1, <2>2, <3>2
      <4> QED BY <1>6, <4>1
    <3> QED BY <3>1, <3>2
  <2> HIDE DEF s
  <2> QED BY <2>1, <2>2, <2>3
<1>8. sent' = Append(Append(s, f), g)
  <2>1. sent \o (w \o <<f, g>>) = Append(Append(sent \o w, f), g)
    <3>1. w \in Seq(Sendable)
      BY <1>6
    <3> QED BY <1>2, <1>3, <3>1, JoinTwo
  <2> QED BY <1>6, <2>1
<1> HIDE DEF s
<1>9. /\ Append(s, f) \in Seq(Sendable) /\ sent' \in Seq(Sendable)
      /\ DOMAIN sent' = 1 .. Len(s) + 2
      /\ sent'[Len(s) + 1] = f /\ sent'[Len(s) + 2] = g
      /\ \A k \in 1 .. Len(s) : sent'[k] = s[k]
  BY <1>3, <1>7, <1>8
<1>10. SameWrites(sent, sent')
  <2>1. SameWrites(s, Append(s, f)) /\ SameWrites(Append(s, f), Append(Append(s, f), g))
    BY <1>3, <1>4, <1>7, <1>9, SameWritesAppend
  <2>2. SameWrites(sent, s)
    BY <1>6 DEF s
  <2> QED BY <1>8, <2>1, <2>2, SameWritesTwice
<1>12. Len(s) + 1 \in DOMAIN sent' /\ sent'[Len(s) + 1].name = "finish"
  BY <1>4, <1>7, <1>9
<1>13. ASSUME NEW i \in DOMAIN sent', sent'[i].name = "finish"
       PROVE  sent'[i].kind = Reason(incomplete)
  <2>1. i \in 1 .. Len(s) \/ i = Len(s) + 1 \/ i = Len(s) + 2
    BY <1>7, <1>9
  <2>2. i \notin 1 .. Len(s)
    BY <1>7, <1>9, <1>13
  <2>3. i # Len(s) + 2
    BY <1>4, <1>9, <1>13
  <2> QED BY <1>4, <1>9, <2>1, <2>2, <2>3
<1> QED BY <1>10, <1>12, <1>13

\* hadTool is set exactly when the response has a call.
LEMMA HadTool ==
  ASSUME output \in Seq(OutputItems), Linked(format, state, Shown(format, output))
  PROVE  state.hadTool <=> CallIn(output)
<1> DEFINE items == Shown(format, output)
<1>1. items \in Seq(OutputItems)
  BY ShownType
<1>2. (\E j \in 1 .. Len(items) : items[j].type = "function_call") <=> CallIn(output)
  <2>1. CASE format = "chat"
    <3>1. PICK g : SelectedFrom(g, Only(output, CallItems), output, CallItems)
      BY OnlyPlaces
    <3>2. \A k \in 1 .. Len(output) : output[k] \in CallItems <=> output[k].type = "function_call"
      BY DEF CallItems
    <3>3. items = Only(output, CallItems)
      BY <2>1 DEF Shown
    <3> HIDE DEF items
    <3>4. /\ \A i \in 1 .. Len(items) : items[i] = output[g[i]] /\ g[i] \in 1 .. Len(output)
          /\ \A k \in 1 .. Len(output) : output[k] \in CallItems =>
               \E i \in 1 .. Len(items) : g[i] = k
      BY <3>1, <3>3 DEF SelectedFrom
    <3> QED BY <3>2, <3>4 DEF CallIn
  <2>2. CASE format # "chat"
    BY <2>2 DEF Shown, CallIn
  <2> QED BY <2>1, <2>2
<1> QED BY <1>2 DEF Linked, CallIn
-----------------------------------------------------------------------------
LEMMA ReadLate ==
  ASSUME IInv, NEW c \in Calls \cup {NoItem}, NEW os, Read(c, os)
  PROVE  /\ phase = "reading" /\ format' = format /\ events' > 0
         /\ Regular' => Regular
         /\ Regular' /\ Late \subseteq os => ~state.finished
         /\ Tracks(format, sent, state, odd) /\ state \in StateType
<1>1. /\ phase = "reading" /\ events' = events + 1 /\ odd' = odd \cup os /\ format' = format
  BY DEF Read
<1>2. events' > 0
  <2>1. MaxEvents \in Nat /\ events \in 0 .. MaxEvents
    BY StreamAssumption DEF IInv, TypeOK
  <2> QED BY <1>1, <2>1
<1>3. Regular' => Regular
  BY <1>1 DEF Regular
<1>4. Regular' /\ Late \subseteq os => ~state.finished
  <2>1. Regular' => "late" \notin os
    BY <1>1 DEF Regular
  <2> QED BY <2>1, OddityFacts
<1> QED BY <1>1, <1>2, <1>3, <1>4 DEF IInv

LEMMA DeltaReads ==
  ASSUME IInv, NEW kind, ChatDelta(kind) \/ AnthropicDelta(kind)
  PROVE  /\ phase = "reading" /\ format' = format /\ events' > 0
         /\ Regular' => Regular /\ ~state.finished
         /\ state'.finished = state.finished
<1>1. NoItem \in Calls \cup {NoItem} /\ Read(NoItem, Late) /\ Late \subseteq Late
  BY DEF ChatDelta, AnthropicDelta
<1>2. /\ phase = "reading" /\ format' = format /\ events' > 0
      /\ Regular' => Regular /\ ~state.finished
      /\ state \in StateType
  BY <1>1, ReadLate
<1>3. CASE ChatDelta(kind)
  BY <1>2, <1>3 DEF ChatDelta, StateType
<1>4. CASE AnthropicDelta(kind)
  BY <1>2, <1>4 DEF AnthropicDelta, StateType
<1> QED BY <1>2, <1>3, <1>4

LEMMA StartReads ==
  ASSUME IInv, NEW c \in Calls, ChatStartTool(c) \/ AnthropicStartTool(c)
  PROVE  /\ phase = "reading" /\ format' = format /\ events' > 0
         /\ Regular' => Regular /\ ~state.finished
         /\ state'.finished = state.finished
<1> DEFINE os == Late \cup Oddity("repeated", ToolId(c) \in DOMAIN state.toolIndexes)
<1>1. c \in Calls \cup {NoItem} /\ Read(c, os) /\ Late \subseteq os /\ NewCall(c)
  BY DEF ChatStartTool, AnthropicStartTool, NewCall
<1> HIDE DEF os
<1>2. /\ phase = "reading" /\ format' = format /\ events' > 0
      /\ Regular' => Regular /\ ~state.finished
      /\ state \in StateType /\ Tracks(format, sent, state, odd)
  BY <1>1, ReadLate
<1>3. ToolId(c) \in SendableIds
  BY <1>1, NewCallFacts
<1>4. ASSUME NEW i \in Nat
      PROVE  WithTool(ToolId(c), i) \in StateType /\ WithTool(ToolId(c), i).finished = state.finished
  BY <1>2, <1>3, WithToolFacts
<1>5. CASE ChatStartTool(c)
  <2> DEFINE i == Cardinality(DOMAIN state.toolIndexes)
             w == WithTool(ToolId(c), i)
  <2>1. i \in Nat
    BY <1>2, FS_CardinalityType DEF Tracks, StartsTracked
  <2>2. state' = [w EXCEPT !.started = TRUE]
    BY <1>5 DEF ChatStartTool
  <2>3. w \in StateType /\ w.finished = state.finished
    BY <1>4, <2>1
  <2> HIDE DEF w
  <2> QED BY <1>2, <2>2, <2>3 DEF StateType
<1>6. CASE AnthropicStartTool(c)
  <2> DEFINE i == state.nextBlock
             w == WithTool(ToolId(c), i)
  <2>1. i \in Nat
    BY <1>2 DEF StateType
  <2>2. state' = [w EXCEPT !.openBlock = i, !.blockKind = "tool", !.nextBlock = i + 1]
    BY <1>6 DEF AnthropicStartTool
  <2>3. w \in StateType /\ w.finished = state.finished
    BY <1>4, <2>1
  <2> HIDE DEF w
  <2> QED BY <1>2, <2>2, <2>3 DEF StateType
<1> QED BY <1>5, <1>6

\* The events before the terminal one keep the invariant if they keep the
\* answer; a late one is an oddity.
LEMMA KeepsOn ==
  ASSUME RInv, IInv', UNCHANGED status, phase = "reading", events' > 0,
         state'.finished = state.finished, Continues(output, output'),
         Regular' => ~state.finished,
         phase' # "broken" /\ Regular' /\ ~Refused' => Answer(format', sent', state', output')
  PROVE  RInv'
<1>1. output' \in Seq(OutputItems) /\ Separate(output')
  BY DEF Continues
<1>2. Complete' <=> Complete
  BY DEF Complete
<1>3. Regular' => ~Complete'
  BY <1>2 DEF RInv
<1> QED BY <1>1, <1>2, <1>3 DEF RInv, Answer, Mirrored

LEMMA Answering ==
  ASSUME RInv, phase = "reading", ~state.finished, Regular, ~Refused
  PROVE  Answer(format, sent, state, output) /\ ~Complete
BY DEF RInv, Answer, Mirrored

LEMMA DeltaResponse ==
  ASSUME RInv, NEW type \in {"message", "reasoning"}, NEW part \in PartNames(type),
         ChatDelta(KindOf(type)) \/ AnthropicDelta(KindOf(type)), Extend(type, part)
  PROVE  RInv'
<1>1. /\ IInv /\ output \in Seq(OutputItems) /\ Separate(output)
  BY DEF RInv
<1>2. /\ phase = "reading" /\ format' = format /\ events' > 0
      /\ Regular' => Regular /\ ~state.finished
      /\ state'.finished = state.finished
  BY <1>1, DeltaReads
<1>3. IInv'
  <2>1. KindOf(type) \in {"text", "thinking"}
    BY DEF KindOf
  <2> QED BY <1>1, <2>1, ChatDeltaStep, AnthropicDeltaStep
<1>4. Continues(output, output') /\ UNCHANGED status
  BY <1>1, ExtendDone
<1>5. ASSUME phase' # "broken", Regular', ~Refused'
      PROVE  Answer(format', sent', state', output')
  <2>1. Answer(format, sent, state, output) /\ ~Complete
    BY <1>1, <1>2, <1>4, <1>5, RefusedKept, Answering
  <2> QED BY <1>1, <1>2, <1>5, <2>1, ChatDeltaAnswer, AnthropicDeltaAnswer
<1> QED BY <1>2, <1>3, <1>4, <1>5, KeepsOn

LEMMA AddCallResponse == ASSUME RInv, NEW c \in Calls, AddCall(c) PROVE RInv'
<1>1. IInv /\ output \in Seq(OutputItems) /\ Separate(output)
  BY DEF RInv
<1>2. /\ phase = "reading" /\ format' = format /\ events' > 0
      /\ Regular' => Regular /\ ~state.finished
      /\ state'.finished = state.finished
  BY <1>1, StartReads DEF AddCall
<1>3. IInv'
  BY <1>1, ChatStartToolStep, AnthropicStartToolStep DEF AddCall
<1>4. Continues(output, output') /\ UNCHANGED status
  BY <1>1, AddCallDone
<1>5. ASSUME phase' # "broken", Regular', ~Refused'
      PROVE  Answer(format', sent', state', output')
  <2>1. Answer(format, sent, state, output) /\ ~Complete
    BY <1>1, <1>2, <1>4, <1>5, RefusedKept, Answering
  <2>2. "repeated" \notin odd'
    BY <1>5 DEF Regular
  <2> QED BY <1>1, <1>2, <1>5, <2>1, <2>2, AddCallAnswer
<1> QED BY <1>2, <1>3, <1>4, <1>5, KeepsOn

LEMMA ArgumentsResponse ==
  ASSUME RInv, NEW c \in Calls, NEW id, Arguments(c, id)
  PROVE  RInv'
<1> DEFINE os == Late \cup Oddity("mixed", c # item)
                   \cup Oddity("misnamed", \A k \in DOMAIN sent : Announces(k, c) => sent[k].id # id)
<1>1. /\ IInv /\ output \in Seq(OutputItems) /\ Separate(output)
      /\ item \in Calls \cup {NoItem}
  BY DEF RInv, IInv, TypeOK
<1>2. Read(item, os) /\ Late \subseteq os /\ state' = state
  BY DEF Arguments, ToolDelta, SendArguments
<1> HIDE DEF os
<1>3. /\ phase = "reading" /\ format' = format /\ events' > 0
      /\ Regular' => Regular /\ ~state.finished
      /\ state'.finished = state.finished
  BY <1>1, <1>2, ReadLate
<1>4. IInv'
  BY <1>1, ToolDeltaStep DEF Arguments
<1>5. Continues(output, output') /\ UNCHANGED status
  BY <1>1, ArgumentsKept
<1>6. ASSUME phase' # "broken", Regular', ~Refused'
      PROVE  Answer(format', sent', state', output')
  <2>1. Answer(format, sent, state, output) /\ ~Complete
    BY <1>1, <1>3, <1>5, <1>6, RefusedKept, Answering
  <2>2. odd' \cap {"misnamed", "repeated"} = {}
    BY <1>6 DEF Regular
  <2> QED BY <1>1, <1>3, <1>6, <2>1, <2>2, ArgumentsAnswer
<1> QED BY <1>3, <1>4, <1>5, <1>6, KeepsOn

\* An event without a write, or one that only opens the answer.
LEMMA QuietResponse ==
  ASSUME RInv, IInv', NEW os, Read(item, os), UNCHANGED <<output, status>>,
         SameWrites(sent, sent') \/ phase' = "broken",
         state.finished => sent' = sent,
         state'.finished = state.finished, state'.openBlock = state.openBlock,
         state'.blockKind = state.blockKind, state'.nextBlock = state.nextBlock,
         state'.hadTool = state.hadTool, state'.toolIndexes = state.toolIndexes
  PROVE  RInv'
<1> DEFINE items == Shown(format, output)
<1>1. IInv /\ output \in Seq(OutputItems) /\ item \in Calls \cup {NoItem}
  BY DEF RInv, IInv, TypeOK
<1>2. /\ phase = "reading" /\ format' = format /\ events' > 0 /\ (Regular' => Regular)
  BY <1>1, ReadLate
<1>3. (Complete' <=> Complete) /\ (Refused' <=> Refused) /\ output' = output
  BY DEF Complete, Refused
<1>4. items \in Seq(OutputItems) /\ SameShape(items, items)
  BY <1>1, ShownType DEF SameShape
<1>5. ASSUME phase' # "broken", Regular', ~Refused'
      PROVE  /\ Mirrored' /\ (~state'.finished => Linked(format', state', items))
             /\ Complete' => Reasoned(sent', output', status')
  <2>1. /\ Mirrors(sent, items) /\ Tallies(sent, output)
        /\ ~state.finished => Linked(format, state, items)
        /\ Complete => Reasoned(sent, output, status) /\ state.finished
    BY <1>2, <1>3, <1>5 DEF RInv, Mirrored
  <2> HIDE DEF items
  <2>2. Mirrors(sent', items) /\ Tallies(sent', output)
    BY <1>4, <1>5, <2>1, SameWritesKept
  <2>3. ~state'.finished => Linked(format, state', items)
    BY <1>4, <2>1, LinkedKept
  <2>4. Complete' => Reasoned(sent', output', status')
    BY <1>3, <2>1
  <2> QED BY <1>2, <1>3, <2>2, <2>3, <2>4 DEF Mirrored, items
<1>6. (phase' = "reading" /\ state'.finished => Complete') /\ Separate(output')
  BY <1>2, <1>3 DEF RInv
<1> QED BY <1>1, <1>2, <1>3, <1>5, <1>6 DEF RInv

\* A refusal leaves nothing to show, unless the response is complete.
LEMMA RefusalResponse == ASSUME RInv, RefusalDelta PROVE RInv'
<1>1. /\ IInv /\ output \in Seq(OutputItems) /\ Separate(output)
      /\ item \in Calls \cup {NoItem}
  BY DEF RInv, IInv, TypeOK
<1>2. Ignored /\ Extend("message", "refusal") /\ Read(item, {})
  BY DEF RefusalDelta, Ignored
<1>3. UNCHANGED <<state, sent, phase>>
  BY <1>2 DEF Ignored
<1>4. /\ Continues(output, output') /\ UNCHANGED status
      /\ Complete => output' = output
      /\ Refused' \/ output' = output
  <2>1. "refusal" \in PartNames("message") /\ "message" \in {"message", "reasoning"}
    BY DEF PartNames
  <2> QED BY <1>1, <1>2, <2>1, ExtendDone
<1>5. IInv'
  BY <1>1, <1>2, IgnoredStep
<1>6. CASE output' = output
  BY <1>2, <1>3, <1>4, <1>5, <1>6, QuietResponse, SameWritesSelf
<1>7. CASE Refused'
  <2>1. events' > 0 /\ phase = "reading"
    BY <1>1, <1>2, ReadLate
  <2>2. Complete' <=> Complete
    BY <1>4 DEF Complete
  <2>3. output' \in Seq(OutputItems) /\ Separate(output')
    BY <1>4 DEF Continues
  <2> QED BY <1>3, <1>4, <1>5, <1>7, <2>1, <2>2, <2>3 DEF RInv
<1> QED BY <1>4, <1>6, <1>7

LEMMA CreatedResponse ==
  ASSUME RInv, Created \/ Ignored, UNCHANGED <<output, status>>
  PROVE  RInv'
<1>1. /\ IInv /\ sent \in Seq(Sendable) /\ Read(item, {}) /\ state \in StateType
      /\ item \in Calls \cup {NoItem}
  BY DEF RInv, IInv, Created, Ignored, TypeOK
<1>2. IInv'
  BY <1>1, CreatedStep, IgnoredStep
<1>3. /\ state'.finished = state.finished /\ state'.toolIndexes = state.toolIndexes
      /\ state'.openBlock = state.openBlock /\ state'.blockKind = state.blockKind
      /\ state'.nextBlock = state.nextBlock /\ state'.hadTool = state.hadTool
  BY <1>1 DEF Created, Ignored, StateType
<1>4. sent' = sent \/ sent' = sent \o EnsureChatStart \/ phase' = "broken"
  <2>1. CASE Ignored
    BY <2>1 DEF Ignored
  <2>2. CASE Created
    <3> DEFINE w == IF format = "chat" THEN EnsureChatStart ELSE <<>>
    <3>1. Write(w, "reading")
      BY <2>2 DEF Created
    <3> HIDE DEF w
    <3>2. phase' # "broken" => sent' = sent \o w
      BY <3>1, WriteDone
    <3>3. sent \o <<>> = sent
      BY <1>1
    <3> QED BY <3>2, <3>3 DEF w
  <2> QED BY <2>1, <2>2
<1>5. SameWrites(sent, sent') \/ phase' = "broken"
  BY <1>1, <1>4, SameWritesSelf, SameWritesStart
<1>6. state.finished => sent' = sent
  <2> SUFFICES ASSUME state.finished PROVE sent' = sent
    OBVIOUS
  <2>1. state.started
    <3>1. Tracks(format, sent, state, odd)
      BY <1>1, ReadLate
    <3> QED BY <3>1 DEF Tracks, FinishTracked
  <2>2. CASE Ignored
    BY <2>2 DEF Ignored
  <2>3. CASE Created
    <3>1. Write(<<>>, "reading")
      BY <2>1, <2>3 DEF Created, EnsureChatStart
    <3>2. sent \o <<>> = sent /\ Len(<<>>) = 0 /\ 0 .. 0 - 1 = {}
      BY <1>1
    <3> QED BY <3>1, <3>2 DEF Write
  <2> QED BY <2>2, <2>3
<1> QED BY <1>1, <1>2, <1>3, <1>5, <1>6, QuietResponse

LEMMA EndResponse ==
  ASSUME RInv, NEW as \in {"completed", "incomplete", "failed"}, End(as)
  PROVE  RInv'
<1> DEFINE items == Shown(format, output)
<1>1. /\ IInv /\ output \in Seq(OutputItems) /\ sent \in Seq(Sendable) /\ state \in StateType
      /\ Read(NoItem, {}) /\ Finish(as = "incomplete", "reading")
      /\ output' = output /\ status' = (IF Complete THEN status ELSE as)
      /\ NoItem \in Calls \cup {NoItem}
  BY DEF RInv, IInv, End, Terminal
<1>2. /\ phase = "reading" /\ format' = format /\ events' > 0 /\ (Regular' => Regular)
      /\ Tracks(format, sent, state, odd)
  BY <1>1, ReadLate
<1>3. IInv'
  BY <1>1, StepInv DEF Next, End
<1>4. Refused' <=> Refused
  BY <1>1 DEF Refused
<1>5. /\ state'.finished /\ Complete'
      /\ status' \in {"in_progress", "completed", "incomplete", "failed"}
  BY <1>1 DEF Finish, StateType, RInv, Complete
<1>6. ASSUME phase' # "broken", Regular', ~Refused'
      PROVE  Mirrored' /\ Reasoned(sent', output', status')
  <2>1. CASE state.finished
    <3>1. Complete /\ sent' = sent
      BY <1>1, <1>2, <2>1 DEF RInv, Finish
    <3>2. status' = status
      BY <1>1, <3>1
    <3> QED BY <1>1, <1>2, <1>4, <1>6, <3>1, <3>2 DEF RInv, Mirrored
  <2>2. CASE ~state.finished
    <3>1. Answer(format, sent, state, output) /\ ~Complete
      BY <1>2, <1>4, <1>6, <2>2, Answering
    <3>2. /\ SameWrites(sent, sent')
          /\ \E i \in DOMAIN sent' : sent'[i].name = "finish"
          /\ \A i \in DOMAIN sent' : sent'[i].name = "finish" =>
               sent'[i].kind = Reason(as = "incomplete")
      BY <1>1, <1>2, <1>6, <2>2, FinishAnswer
    <3>3. items \in Seq(OutputItems)
      BY <1>1, ShownType
    <3>4. Mirrors(sent, items) /\ Tallies(sent, output) /\ Linked(format, state, items)
      BY <3>1 DEF Answer
    <3>5. state.hadTool <=> CallIn(output)
      BY <1>1, <3>4, HadTool
    <3> HIDE DEF items
    <3>6. Mirrors(sent', items) /\ Tallies(sent', output)
      BY <3>2, <3>3, <3>4, SameWritesKept
    <3>7. Reason(as = "incomplete") = IF CallIn(output) THEN "tool"
                                      ELSE IF as = "incomplete" THEN "length" ELSE "stop"
      BY <3>5 DEF Reason
    <3>8. Reasoned(sent', output, as)
      BY <3>2, <3>7 DEF Reasoned
    <3> QED BY <1>1, <1>2, <3>1, <3>6, <3>8 DEF items, Mirrored
  <2> QED BY <2>1, <2>2
<1> QED BY <1>1, <1>2, <1>3, <1>5, <1>6 DEF RInv

LEMMA EndOfFileResponse ==
  ASSUME RInv, EndOfFile, UNCHANGED <<output, status>>
  PROVE  RInv'
<1> DEFINE items == Shown(format, output)
<1>1. /\ IInv /\ output \in Seq(OutputItems) /\ sent \in Seq(Sendable) /\ state \in StateType
      /\ UNCHANGED <<format, events, odd, output, status>>
      /\ phase = "reading" /\ Finish(FALSE, "ended") /\ phase' # "reading"
  BY DEF RInv, IInv, EndOfFile, Finish, Write
<1>2. IInv'
  BY <1>1, StepInv DEF Next
<1>3. /\ state'.finished /\ (Refused' <=> Refused) /\ (Complete' <=> Complete)
      /\ (Regular' <=> Regular)
  BY <1>1 DEF Finish, StateType, Refused, Complete, Regular
<1>4. ASSUME phase' # "broken", Regular', ~Refused'
      PROVE  Mirrored' /\ (Complete' => Reasoned(sent', output', status'))
  <2>1. CASE state.finished
    <3>1. sent' = sent
      BY <1>1, <2>1 DEF Finish
    <3> QED BY <1>1, <1>3, <1>4, <3>1 DEF RInv, Mirrored
  <2>2. CASE ~state.finished
    <3>1. SameWrites(sent, sent')
      BY <1>1, <1>4, <2>2, FinishAnswer
    <3>2. items \in Seq(OutputItems)
      BY <1>1, ShownType
    <3>3. Mirrors(sent, items) /\ Tallies(sent, output) /\ ~Complete
      BY <1>1, <1>3, <1>4, <2>2, Answering DEF Answer
    <3> HIDE DEF items
    <3>4. Mirrors(sent', items) /\ Tallies(sent', output)
      BY <3>1, <3>2, <3>3, SameWritesKept
    <3> QED BY <1>1, <1>3, <3>3, <3>4 DEF items, Mirrored
  <2> QED BY <2>1, <2>2
<1> QED BY <1>1, <1>2, <1>3, <1>4 DEF RInv

LEMMA ResponseStep == RInv /\ [ResponseNext]_allVars => RInv'
<1> SUFFICES ASSUME RInv, [ResponseNext]_allVars PROVE RInv'
  OBVIOUS
<1>1. /\ "output_text" \in PartNames("message") /\ "refusal" \in PartNames("message")
      /\ {"summary_start", "summary_text", "reasoning_text"} = PartNames("reasoning")
  BY DEF PartNames
<1>2. CASE TextDelta
  <2>1. KindOf("message") = "text" /\ "message" \in {"message", "reasoning"}
    BY DEF KindOf
  <2>2. /\ ChatDelta(KindOf("message")) \/ AnthropicDelta(KindOf("message"))
        /\ Extend("message", "output_text")
    BY <1>2, <2>1 DEF TextDelta
  <2> QED BY <1>1, <2>1, <2>2, DeltaResponse
<1>3. ASSUME NEW part \in PartNames("reasoning"), ThinkingDelta(part)
      PROVE  RInv'
  <2>1. KindOf("reasoning") = "thinking" /\ "reasoning" \in {"message", "reasoning"}
    BY DEF KindOf
  <2>2. /\ ChatDelta(KindOf("reasoning")) \/ AnthropicDelta(KindOf("reasoning"))
        /\ Extend("reasoning", part)
    BY <1>3, <2>1 DEF ThinkingDelta
  <2> QED BY <1>3, <2>1, <2>2, DeltaResponse
<1>4. CASE RefusalDelta
  BY <1>4, RefusalResponse
<1>5. ASSUME NEW c \in Calls, AddCall(c) \/ \E id : Arguments(c, id)
      PROVE  RInv'
  BY <1>5, AddCallResponse, ArgumentsResponse
<1>6. ASSUME NEW as \in {"completed", "incomplete", "failed"}, End(as)
      PROVE  RInv'
  BY <1>6, EndResponse
<1>7. CASE (Created \/ Ignored \/ EndOfFile) /\ UNCHANGED <<output, status>>
  BY <1>7, CreatedResponse, EndOfFileResponse
<1>8. CASE ReadError /\ UNCHANGED <<output, status>>
  <2>1. ReadError
    BY <1>8
  <2>2. IInv'
    BY <2>1, StepInv DEF Next, RInv
  <2>3. /\ phase' = "broken" /\ state' = state /\ events' = events
        /\ output' = output /\ status' = status
    BY <1>8 DEF ReadError
  <2> QED BY <2>2, <2>3 DEF RInv, Complete
<1>9. CASE UNCHANGED allVars
  <2>1. UNCHANGED <<format, state, sent, phase, item, events, odd, output, status>>
    BY <1>9 DEF allVars, vars
  <2>2. IInv'
    BY <1>9, StepInv DEF RInv, allVars
  <2> QED BY <2>1, <2>2 DEF RInv, Complete, Regular, Refused, Mirrored
<1> QED BY <1>1, <1>2, <1>3, <1>4, <1>5, <1>6, <1>7, <1>8, <1>9 DEF ResponseNext

LEMMA ResponseStart == ResponseInit => RInv
<1> SUFFICES ASSUME ResponseInit PROVE RInv
  OBVIOUS
<1>1. Init /\ output = <<>> /\ status = "in_progress" /\ IInv
  BY InitInv DEF ResponseInit
<1>2. /\ <<>> \in Seq(OutputItems) /\ Len(<<>>) = 0 /\ DOMAIN <<>> = {}
      /\ 1 .. 0 = {} /\ 1 .. 0 - 1 = {}
  OBVIOUS
<1>3. Separate(output) /\ ~Complete /\ phase = "reading"
  BY <1>1, <1>2 DEF Separate, Complete, Init
<1>4. /\ state.nextBlock = 0 /\ state.openBlock = None /\ state.hadTool = FALSE
      /\ DOMAIN state.toolIndexes = {} /\ state.finished = FALSE
  <2>1. state = [started |-> format = "anthropic", finished |-> FALSE,
                 hadTool |-> FALSE, openBlock |-> None, blockKind |-> "",
                 nextBlock |-> 0, toolIndexes |-> <<>>]
    BY <1>1 DEF Init
  <2>2. DOMAIN state.toolIndexes = {}
    BY <2>1, <1>2
  <2> QED BY <2>1, <2>2
<1>5. Shown(format, output) = <<>>
  BY <1>1, OnlyEmpty DEF Shown
<1>6. Linked(format, state, <<>>)
  BY <1>2, <1>4, FS_EmptySet DEF Linked, Limit, Distinct, CallIn
<1>7. \A type : SizeOf(output, type) = 0
  <2>1. \A type : PartsOf(output, type) = {}
    BY <1>1, <1>2 DEF PartsOf
  <2> QED BY <2>1, FS_EmptySet DEF SizeOf
<1>8. Only(<<>>, Starts) = <<>> /\ \A S : Count(<<>>, S) = 0
  <2>1. \A S : Places(<<>>, S) = {}
    BY <1>2 DEF Places
  <2> QED BY <2>1, OnlyEmpty, FS_EmptySet DEF Count
<1>9. Mirrors(<<>>, <<>>) /\ Tallies(<<>>, output)
  BY <1>2, <1>7, <1>8 DEF Mirrors, Tallies
<1>10. Mirrors(sent, <<>>) /\ Tallies(sent, output)
  <2>1. CASE sent = <<>>
    BY <1>9, <2>1
  <2>2. CASE sent # <<>>
    <3> DEFINE e == Event("message_start", None, "", NoItem)
    <3>1. sent = <<e>>
      BY <1>1, <2>2 DEF Init
    <3>2. e \in Sendable /\ e.name = "message_start"
      BY EventTypes DEF Event, Names
    <3> HIDE DEF e
    <3>3. <<e>> = Append(<<>>, e) /\ <<>> \in Seq(Sendable)
      OBVIOUS
    <3>4. SameWrites(<<>>, sent)
      BY <3>1, <3>2, <3>3, SameWritesAppend
    <3> QED BY <1>2, <1>9, <3>4, SameWritesKept
  <2> QED BY <2>1, <2>2
<1> QED BY <1>1, <1>2, <1>3, <1>4, <1>5, <1>6, <1>10 DEF RInv, Mirrored

LEMMA AlwaysResponse == ResponseSpec => []RInv
BY ResponseStart, ResponseStep, PTL DEF ResponseSpec
-----------------------------------------------------------------------------
(***************************************************************************)
(* From the invariant to the properties: both answers are read off the     *)
(* items of the response.                                                  *)
(***************************************************************************)
AnswerIds == SendableIds \cup {<<"call_missing">>}

Blocks == [kind : {"text", "thinking", "tool"}, call : Calls \cup {NoItem},
           id : AnswerIds, size : Nat]

Tools == {b \in Blocks : b.kind = "tool"}

\* The block that the response object makes of an item.
BlockOf(x) ==
  [kind |-> KindOf(x.type), call |-> x.call,
   id |-> IF x.type = "function_call" THEN WholeId(x.call) ELSE NoId, size |-> Len(x.parts)]

BlocksOf(items) == [j \in 1 .. Len(items) |-> BlockOf(items[j])]

\* A block for an item, under the id of its call if that has only one.
BlockFor(b, x) ==
  /\ b.kind = KindOf(x.type) /\ b.call = x.call /\ b.size = Len(x.parts)
  /\ x.type = "function_call" /\ OneId(x.call) => b.id = WholeId(x.call)

BlocksFor(blocks, items) ==
  /\ blocks \in Seq(Blocks) /\ Len(blocks) = Len(items)
  /\ \A j \in 1 .. Len(items) : BlockFor(blocks[j], items[j])

LEMMA BlockTypes ==
  /\ \A x \in OutputItems : /\ BlockOf(x) \in Blocks
                            /\ x \in CallItems <=> BlockOf(x) \in Tools
  /\ \A items \in Seq(OutputItems) :
       /\ BlocksOf(items) \in Seq(Blocks) /\ Len(BlocksOf(items)) = Len(items)
       /\ \A j \in 1 .. Len(items) : BlocksOf(items)[j] = BlockOf(items[j])
<1>1. ASSUME NEW x \in OutputItems
      PROVE  BlockOf(x) \in Blocks /\ (x \in CallItems <=> BlockOf(x) \in Tools)
  <2>1. /\ x.type \in {"message", "reasoning", "function_call"}
        /\ x.call \in Calls \cup {NoItem} /\ Len(x.parts) \in Nat
        /\ x.type = "function_call" => x.call \in Calls
    <3>1. x.parts \in Seq(Parts)
      BY DEF OutputItems
    <3> QED BY <3>1 DEF OutputItems
  <2>2. /\ KindOf(x.type) \in {"text", "thinking", "tool"}
        /\ KindOf(x.type) = "tool" <=> x.type = "function_call"
    BY <2>1 DEF KindOf
  <2>3. \A c \in Calls : WholeId(c) \in AnswerIds
    BY DEF WholeId, First, AnswerIds, SendableIds
  <2>4. NoId \in AnswerIds
    BY DEF AnswerIds, SendableIds
  <2>5. (IF x.type = "function_call" THEN WholeId(x.call) ELSE NoId) \in AnswerIds
    BY <2>1, <2>3, <2>4
  <2>6. BlockOf(x) \in Blocks
    BY <2>1, <2>2, <2>5 DEF BlockOf, Blocks
  <2>7. BlockOf(x).kind = KindOf(x.type)
    BY DEF BlockOf
  <2> QED BY <2>2, <2>6, <2>7 DEF CallItems, Tools
<1>2. ASSUME NEW items \in Seq(OutputItems)
      PROVE  /\ BlocksOf(items) \in Seq(Blocks) /\ Len(BlocksOf(items)) = Len(items)
             /\ \A j \in 1 .. Len(items) : BlocksOf(items)[j] = BlockOf(items[j])
  <2>1. \A j \in 1 .. Len(items) : BlockOf(items[j]) \in Blocks
    BY <1>1
  <2>2. BlocksOf(items) \in [1 .. Len(items) -> Blocks]
    BY <2>1 DEF BlocksOf
  <2>3. Len(items) \in Nat
    OBVIOUS
  <2>4. BlocksOf(items) \in Seq(Blocks) /\ DOMAIN BlocksOf(items) = 1 .. Len(items)
    BY <2>2, <2>3
  <2> QED BY <2>3, <2>4 DEF BlocksOf
<1> QED BY <1>1, <1>2

\* Blocks streamed for the items, and the object's blocks of the same items.
LEMMA BlocksAlike ==
  ASSUME NEW items \in Seq(OutputItems), NEW streamed, BlocksFor(streamed, items),
         NEW whole, Len(whole) = Len(items),
         \A j \in 1 .. Len(items) :
           /\ whole[j].kind = KindOf(items[j].type) /\ whole[j].call = items[j].call
           /\ (IF whole[j].size = Braces THEN 0 ELSE whole[j].size) = Len(items[j].parts)
           /\ items[j].type = "function_call" => whole[j].id = WholeId(items[j].call)
  PROVE  Alike(streamed, whole)
<1>1. DOMAIN streamed = 1 .. Len(items) /\ Len(streamed) = Len(items)
  BY DEF BlocksFor
<1>2. ASSUME NEW j \in 1 .. Len(items)
      PROVE  KindOf(items[j].type) = "tool" => items[j].type = "function_call"
  BY DEF OutputItems, KindOf
<1>3. \A j \in 1 .. Len(items) : BlockFor(streamed[j], items[j])
  BY DEF BlocksFor
<1> QED BY <1>1, <1>2, <1>3 DEF Alike, BlockFor

LEMMA WholeBlocks ==
  ASSUME NEW items \in Seq(OutputItems), NEW streamed, BlocksFor(streamed, items)
  PROVE  Alike(streamed, BlocksOf(items))
<1> DEFINE whole == BlocksOf(items)
<1>1. Len(whole) = Len(items) /\ \A j \in 1 .. Len(items) : whole[j] = BlockOf(items[j])
  BY BlockTypes
<1> HIDE DEF whole
<1>2. ASSUME NEW j \in 1 .. Len(items)
      PROVE  /\ whole[j].kind = KindOf(items[j].type) /\ whole[j].call = items[j].call
             /\ (IF whole[j].size = Braces THEN 0 ELSE whole[j].size) = Len(items[j].parts)
             /\ items[j].type = "function_call" => whole[j].id = WholeId(items[j].call)
  <2>1. items[j] \in OutputItems
    OBVIOUS
  <2>2. BlockOf(items[j]) \in Blocks
    BY <2>1, BlockTypes
  <2>3. Len(items[j].parts) \in Nat
    BY <2>2 DEF BlockOf, Blocks
  <2>4. Len(items[j].parts) # Braces
    BY <2>3 DEF Braces
  <2>5. /\ BlockOf(items[j]).kind = KindOf(items[j].type)
        /\ BlockOf(items[j]).call = items[j].call
        /\ BlockOf(items[j]).size = Len(items[j].parts)
        /\ items[j].type = "function_call" => BlockOf(items[j]).id = WholeId(items[j].call)
    BY DEF BlockOf
  <2>6. whole[j] = BlockOf(items[j])
    BY <1>1
  <2> QED BY <2>4, <2>5, <2>6
<1>3. Alike(streamed, whole)
  BY <1>1, <1>2, BlocksAlike
<1> QED BY <1>3 DEF whole

\* The tool blocks are those of the calls.
LEMMA ToolBlocks ==
  ASSUME NEW items \in Seq(OutputItems), NEW blocks, BlocksFor(blocks, items)
  PROVE  BlocksFor(Only(blocks, Tools), Only(items, CallItems))
<1> DEFINE R == [x \in OutputItems |-> {b \in Blocks : BlockFor(b, x)}]
           u == Only(items, CallItems)
           v == Only(blocks, Tools)
<1>1. \A x \in OutputItems : R[x] = {b \in Blocks : BlockFor(b, x)}
  OBVIOUS
<1> HIDE DEF R
<1>2. /\ blocks \in Seq(Blocks) /\ Len(blocks) = Len(items)
      /\ \A j \in 1 .. Len(items) : BlockFor(blocks[j], items[j])
  BY DEF BlocksFor
<1>3. ASSUME NEW i \in 1 .. Len(items)
      PROVE  /\ items[i] \in CallItems <=> blocks[i] \in Tools
             /\ items[i] \in CallItems => blocks[i] \in R[items[i]]
  <2>1. items[i] \in OutputItems /\ blocks[i] \in Blocks /\ BlockFor(blocks[i], items[i])
    BY <1>2
  <2>2. KindOf(items[i].type) = "tool" <=> items[i].type = "function_call"
    BY <2>1 DEF OutputItems, KindOf
  <2>3. blocks[i].kind = KindOf(items[i].type)
    BY <2>1 DEF BlockFor
  <2> QED BY <1>1, <2>1, <2>2, <2>3 DEF CallItems, Tools
<1>4. Len(v) = Len(u) /\ \A i \in 1 .. Len(u) : v[i] \in R[u[i]]
  BY <1>2, <1>3, OnlyPaired
<1>5. u \in Seq(OutputItems) /\ v \in Seq(Blocks)
  BY <1>2, OnlyType
<1> HIDE DEF u, v
<1>6. ASSUME NEW i \in 1 .. Len(u) PROVE BlockFor(v[i], u[i])
  <2>1. u[i] \in OutputItems
    BY <1>5
  <2> QED BY <1>1, <1>4, <2>1
<1>7. BlocksFor(v, u)
  BY <1>4, <1>5, <1>6 DEF BlocksFor
<1> QED BY <1>7 DEF u, v

LEMMA InOwnSet ==
  ASSUME NEW T, NEW s \in Seq(T)
  PROVE  s \in Seq(ToSet(s)) /\ \A x \in ToSet(s) : x \in T
<1>1. s \in [1 .. Len(s) -> T] /\ Len(s) \in Nat /\ DOMAIN s = 1 .. Len(s)
  OBVIOUS
<1>2. \A i \in 1 .. Len(s) : s[i] \in ToSet(s) /\ s[i] \in T
  BY <1>1 DEF ToSet
<1>3. s \in [1 .. Len(s) -> ToSet(s)]
  BY <1>1, <1>2
<1>4. s \in Seq(ToSet(s))
  BY <1>1, <1>3
<1>5. \A x \in ToSet(s) : x \in T
  BY <1>1, <1>2 DEF ToSet
<1> QED BY <1>4, <1>5

LEMMA ToolsAmong == ASSUME NEW blocks \in Seq(Blocks) PROVE ToolsOf(blocks) = Only(blocks, Tools)
<1>1. blocks \in Seq(ToSet(blocks)) /\ \A x \in ToSet(blocks) : x \in Blocks
  BY InOwnSet
<1>2. \A x \in ToSet(blocks) : x \in {b \in ToSet(blocks) : b.kind = "tool"} <=> x \in Tools
  BY <1>1 DEF Tools
<1> QED BY <1>1, <1>2, OnlySame DEF ToolsOf

LEMMA StartedBlocks ==
  ASSUME sent \in Seq(Sendable), NEW items \in Seq(OutputItems), Mirrors(sent, items)
  PROVE  BlocksFor(Started, items)
<1> DEFINE starts == Only(sent, {w \in ToSet(sent) : w.name \in {"tool_start", "block_start"}})
           size(n) == Cardinality({i \in DOMAIN sent :
                        Wrote(i, {"tool_delta", "block_delta"}) /\ sent[i].index = n})
<1>1. starts = Only(sent, Starts)
  <2>1. sent \in Seq(ToSet(sent)) /\ \A x \in ToSet(sent) : x \in Sendable
    BY InOwnSet
  <2>2. \A x \in ToSet(sent) :
          x \in {w \in ToSet(sent) : w.name \in {"tool_start", "block_start"}} <=> x \in Starts
    BY <2>1 DEF Starts, StartNames
  <2> QED BY <2>1, <2>2, OnlySame
<1>2. \A n : size(n) = Count(sent, DeltasAt(n))
  <2>1. \A i \in DOMAIN sent : sent[i] \in Sendable
    OBVIOUS
  <2>2. \A n : {i \in DOMAIN sent : Wrote(i, {"tool_delta", "block_delta"})
                                    /\ sent[i].index = n} = Places(sent, DeltasAt(n))
    BY <2>1 DEF Wrote, Places, DeltasAt
  <2> QED BY <2>2 DEF Count
<1>3. Started = [i \in DOMAIN starts |-> [kind |-> starts[i].kind, call |-> starts[i].call,
                                          id |-> starts[i].id, size |-> size(starts[i].index)]]
  BY DEF Started
<1> HIDE DEF starts, size
<1>4. starts \in Seq(Sendable) /\ DOMAIN starts = 1 .. Len(items)
  <2>1. starts \in Seq(Sendable)
    BY <1>1, OnlyType
  <2> QED BY <1>1, <2>1 DEF Mirrors
<1>5. ASSUME NEW j \in 1 .. Len(items)
      PROVE  Started[j] \in Blocks /\ BlockFor(Started[j], items[j])
  <2>1. /\ starts[j].index = j - 1 /\ starts[j].call = items[j].call
        /\ starts[j].kind = KindOf(items[j].type)
        /\ items[j].type = "function_call" /\ OneId(items[j].call) =>
             starts[j].id = WholeId(items[j].call)
        /\ size(j - 1) = Len(items[j].parts)
    BY <1>1, <1>2 DEF Mirrors
  <2>2. Started[j] = [kind |-> starts[j].kind, call |-> starts[j].call, id |-> starts[j].id,
                      size |-> Len(items[j].parts)]
    BY <1>3, <1>4, <2>1
  <2>3. starts[j].id \in AnswerIds
    <3>1. starts[j] \in Sendable
      BY <1>4
    <3> QED BY <3>1 DEF Sendable, AnswerIds
  <2>4. items[j] \in OutputItems
    OBVIOUS
  <2>5. BlockOf(items[j]) \in Blocks
    BY <2>4, BlockTypes
  <2>6. /\ KindOf(items[j].type) \in {"text", "thinking", "tool"}
        /\ items[j].call \in Calls \cup {NoItem} /\ Len(items[j].parts) \in Nat
    BY <2>5 DEF BlockOf, Blocks
  <2>7. Started[j] \in Blocks
    BY <2>1, <2>2, <2>3, <2>6 DEF Blocks
  <2> QED BY <2>1, <2>2, <2>7 DEF BlockFor
<1>6. Started \in Seq(Blocks) /\ Len(Started) = Len(items)
  <2>1. DOMAIN Started = 1 .. Len(items) /\ Len(items) \in Nat
    BY <1>3, <1>4
  <2>2. Started \in [1 .. Len(items) -> Blocks]
    BY <1>3, <1>5, <2>1
  <2> QED BY <2>1, <2>2
<1> QED BY <1>5, <1>6 DEF BlocksFor

\* What parseOutput and anthropicResponse make of the calls.
LEMMA ToolCallsBlocks ==
  ASSUME output \in Seq(OutputItems), NEW calls, calls = Only(output, CallItems)
  PROVE  /\ calls \in Seq(OutputItems)
         /\ Len(ToolCalls) = Len(calls) /\ DOMAIN ToolCalls = 1 .. Len(calls)
         /\ \A j \in 1 .. Len(calls) :
              /\ calls[j].type = "function_call"
              /\ ToolCalls[j] = [kind |-> "tool", call |-> calls[j].call,
                                 id |-> WholeId(calls[j].call),
                                 size |-> IF calls[j].parts = <<>> THEN Braces
                                          ELSE Len(calls[j].parts)]
         /\ Inputs(ToolCalls) = BlocksOf(calls)
         /\ Inputs(ToolCalls) \in Seq(Blocks)
         /\ Only(Inputs(ToolCalls), Tools) = Inputs(ToolCalls)
         /\ ToolCalls # <<>> <=> CallIn(output)
<1> DEFINE mine == Only(output, {i \in ToSet(output) : i.type = "function_call"})
<1>1. mine = calls
  <2>1. output \in Seq(ToSet(output)) /\ \A x \in ToSet(output) : x \in OutputItems
    BY InOwnSet
  <2>2. \A x \in ToSet(output) :
          x \in {i \in ToSet(output) : i.type = "function_call"} <=> x \in CallItems
    BY <2>1 DEF CallItems
  <2> QED BY <2>1, <2>2, OnlySame
<1>2. ToolCalls = [i \in DOMAIN mine |->
                     [kind |-> "tool", call |-> mine[i].call, id |-> WholeId(mine[i].call),
                      size |-> IF mine[i].parts = <<>> THEN Braces ELSE Len(mine[i].parts)]]
  BY DEF ToolCalls, WholeId
<1> HIDE DEF mine
<1>3. /\ calls \in Seq(OutputItems) /\ DOMAIN calls = 1 .. Len(calls) /\ Len(calls) \in Nat
      /\ \A i \in 1 .. Len(calls) : calls[i] \in CallItems
  <2>1. calls \in Seq(OutputItems) /\ \A i \in 1 .. Len(calls) : calls[i] \in CallItems
    BY OnlyType
  <2> QED BY <2>1
<1>4. ASSUME NEW i \in 1 .. Len(calls)
      PROVE  /\ calls[i].type = "function_call" /\ KindOf(calls[i].type) = "tool"
             /\ calls[i].parts \in Seq(Parts)
  BY <1>3 DEF CallItems, OutputItems, KindOf
<1>5. /\ DOMAIN ToolCalls = 1 .. Len(calls)
      /\ \A j \in 1 .. Len(calls) :
           ToolCalls[j] = [kind |-> "tool", call |-> calls[j].call,
                           id |-> WholeId(calls[j].call),
                           size |-> IF calls[j].parts = <<>> THEN Braces ELSE Len(calls[j].parts)]
  BY <1>1, <1>2, <1>3
<1>6. Len(ToolCalls) = Len(calls)
  <2>1. ToolCalls \in [1 .. Len(calls) -> {ToolCalls[j] : j \in 1 .. Len(calls)}]
    BY <1>2, <1>5
  <2> QED BY <1>3, <2>1
<1>7. ASSUME NEW j \in 1 .. Len(calls)
      PROVE  [ToolCalls[j] EXCEPT !.size = IF @ = Braces THEN 0 ELSE @] = BlockOf(calls[j])
  <2> DEFINE p == calls[j].parts
  <2>1. p \in Seq(Parts) /\ Len(p) \in Nat /\ (p = <<>> => Len(p) = 0)
    BY <1>4
  <2>2. BlockOf(calls[j]) = [kind |-> "tool", call |-> calls[j].call,
                             id |-> WholeId(calls[j].call), size |-> Len(p)]
    BY <1>4 DEF BlockOf
  <2>3. ToolCalls[j] = [kind |-> "tool", call |-> calls[j].call, id |-> WholeId(calls[j].call),
                        size |-> IF p = <<>> THEN Braces ELSE Len(p)]
    BY <1>5
  <2> HIDE DEF p
  <2>4. CASE p = <<>>
    BY <2>1, <2>2, <2>3, <2>4
  <2>5. CASE p # <<>>
    <3>1. Len(p) # Braces
      BY <2>1 DEF Braces
    <3> QED BY <2>2, <2>3, <2>5, <3>1
  <2> QED BY <2>4, <2>5
<1>8. Inputs(ToolCalls) = BlocksOf(calls)
  BY <1>5, <1>7 DEF Inputs, BlocksOf
<1>9. Inputs(ToolCalls) \in Seq(Blocks) /\ Len(Inputs(ToolCalls)) = Len(calls)
  BY <1>3, <1>8, BlockTypes
<1>10. Only(Inputs(ToolCalls), Tools) = Inputs(ToolCalls)
  <2>1. ASSUME NEW j \in 1 .. Len(calls) PROVE Inputs(ToolCalls)[j] \in Tools
    <3>1. calls[j] \in CallItems /\ calls[j] \in OutputItems
      BY <1>3
    <3>2. Inputs(ToolCalls)[j] = BlockOf(calls[j])
      BY <1>3, <1>8, BlockTypes
    <3> QED BY <3>1, <3>2, BlockTypes
  <2> QED BY <1>9, <2>1, OnlyAll
<1>11. ToolCalls # <<>> <=> CallIn(output)
  <2>1. PICK g : SelectedFrom(g, calls, output, CallItems)
    BY OnlyPlaces
  <2>2. \A k \in 1 .. Len(output) : output[k] \in CallItems <=> output[k].type = "function_call"
    BY DEF CallItems
  <2>3. /\ \A i \in 1 .. Len(calls) : calls[i] = output[g[i]] /\ g[i] \in 1 .. Len(output)
        /\ \A k \in 1 .. Len(output) : output[k] \in CallItems =>
             \E i \in 1 .. Len(calls) : g[i] = k
    BY <2>1 DEF SelectedFrom
  <2>4. ToolCalls # <<>> <=> \E i : i \in 1 .. Len(calls)
    <3>1. CASE Len(calls) = 0
      <4>1. DOMAIN ToolCalls = {} /\ 1 .. Len(calls) = {}
        BY <1>5, <3>1
      <4>2. ToolCalls = <<>>
        BY <1>2, <4>1
      <4> QED BY <4>1, <4>2
    <3>2. CASE Len(calls) # 0
      <4>1. 1 \in 1 .. Len(calls)
        BY <1>3, <3>2
      <4>2. ToolCalls # <<>>
        BY <1>6, <3>2
      <4> QED BY <4>1, <4>2
    <3> QED BY <3>1, <3>2
  <2> QED BY <1>3, <2>2, <2>3, <2>4 DEF CallIn
<1> QED BY <1>3, <1>4, <1>5, <1>6, <1>8, <1>9, <1>10, <1>11

\* A block of text or thinking is no tool block.
LEMMA PlainBlock ==
  ASSUME NEW kind \in {"text", "thinking"}, NEW size \in Nat
  PROVE  /\ Block(kind, size) \in Seq(Blocks)
         /\ Only(Block(kind, size), Tools) = <<>>
<1> DEFINE b == [kind |-> kind, call |-> NoItem, id |-> NoId, size |-> size]
<1>1. b \in Blocks /\ b \notin Tools
  <2>1. NoId \in AnswerIds
    BY DEF AnswerIds, SendableIds
  <2> QED BY <2>1 DEF Blocks, Tools
<1>2. Block(kind, size) = <<>> \/ Block(kind, size) = <<b>>
  BY DEF Block
<1> HIDE DEF b
<1>3. <<b>> \in Seq(Blocks) /\ <<>> \in Seq(Blocks)
  BY <1>1
<1>4. Only(<<b>>, Tools) = <<>> /\ Only(<<>>, Tools) = <<>>
  BY <1>1, OnlyOne, OnlyEmpty
<1> QED BY <1>2, <1>3, <1>4

\* The tool blocks of an Anthropic message are the calls, with their inputs.
LEMMA MessageTools ==
  ASSUME output \in Seq(OutputItems),
         NEW parsed, parsed.calls = ToolCalls, parsed.text \in Nat, parsed.thinking \in Nat
  PROVE  ToolsOf(anthropicResponse(parsed).content) = Inputs(ToolCalls)
<1> DEFINE a == Block("thinking", parsed.thinking)
           b == Block("text", parsed.text)
           tools == Inputs(ToolCalls)
           e == <<[kind |-> "text", call |-> NoItem, id |-> NoId, size |-> 0]>>
           content == IF Content(parsed) = <<>> THEN e ELSE Content(parsed)
<1>1. /\ a \in Seq(Blocks) /\ Only(a, Tools) = <<>>
      /\ b \in Seq(Blocks) /\ Only(b, Tools) = <<>>
  BY PlainBlock
<1>2. tools \in Seq(Blocks) /\ Only(tools, Tools) = tools
  BY ToolCallsBlocks
<1>3. Content(parsed) = a \o b \o tools /\ anthropicResponse(parsed).content = content
  BY DEF Content, anthropicResponse
<1> HIDE DEF a, b, tools
<1>4. Content(parsed) \in Seq(Blocks) /\ Only(Content(parsed), Tools) = tools
  <2>1. a \o b \in Seq(Blocks)
    BY <1>1
  <2>2. Only(a \o b, Tools) = <<>> \o <<>>
    BY <1>1, OnlyConcat
  <2>3. Only((a \o b) \o tools, Tools) = Only(a \o b, Tools) \o Only(tools, Tools)
    <3> DEFINE ab == a \o b
    <3>1. ab \in Seq(Blocks)
      BY <2>1
    <3> HIDE DEF ab
    <3>2. Only(ab \o tools, Tools) = Only(ab, Tools) \o Only(tools, Tools)
      <4>1. \A t \in Seq(Blocks) : Only(ab \o t, Tools) = Only(ab, Tools) \o Only(t, Tools)
        BY <3>1, OnlyConcat
      <4> QED BY <1>2, <4>1
    <3> QED BY <3>2 DEF ab
  <2>4. <<>> \o <<>> = <<>> /\ <<>> \o tools = tools
    BY <1>2
  <2>5. (a \o b) \o tools \in Seq(Blocks)
    BY <1>2, <2>1
  <2> QED BY <1>2, <1>3, <2>2, <2>3, <2>4, <2>5
<1>5. e \in Seq(Blocks) /\ Only(e, Tools) = <<>>
  <2> DEFINE x == [kind |-> "text", call |-> NoItem, id |-> NoId, size |-> 0]
  <2>1. x \in Blocks /\ x \notin Tools
    <3>1. NoId \in AnswerIds
      BY DEF AnswerIds, SendableIds
    <3> QED BY <3>1 DEF Blocks, Tools
  <2>2. e = <<x>>
    OBVIOUS
  <2> HIDE DEF x, e
  <2> QED BY <2>1, <2>2, OnlyOne
<1>6. content \in Seq(Blocks) /\ Only(content, Tools) = tools
  <2>1. CASE Content(parsed) = <<>>
    <3>1. tools = <<>>
      BY <1>4, <2>1, OnlyEmpty
    <3> QED BY <1>5, <2>1, <3>1
  <2>2. CASE Content(parsed) # <<>>
    BY <1>4, <2>2
  <2> QED BY <2>1, <2>2
<1> HIDE DEF content
<1> QED BY <1>3, <1>6, ToolsAmong DEF tools
-----------------------------------------------------------------------------
LEMMA SizeMember ==
  ASSUME NEW P, NEW p
  PROVE  p \in UNION {{i} \X {j \in DOMAIN output[i].parts : output[i].parts[j] \in P} :
                        i \in DOMAIN output} <=>
           \E i \in DOMAIN output : \E k \in DOMAIN output[i].parts :
             output[i].parts[k] \in P /\ p = <<i, k>>
OBVIOUS

\* The parts of these names are the items of the type, if these have no other.
LEMMA SizeOfParts ==
  ASSUME output \in Seq(OutputItems), NEW type \in {"message", "reasoning"},
         NEW P \in SUBSET PartNames(type),
         \A i \in DOMAIN output : output[i].type = type =>
           \A k \in DOMAIN output[i].parts : output[i].parts[k] \in P
  PROVE  Size(P) = SizeOf(output, type)
<1> DEFINE all == UNION {{i} \X {j \in DOMAIN output[i].parts : output[i].parts[j] \in P} :
                           i \in DOMAIN output}
<1>1. \A i \in DOMAIN output : \A k \in DOMAIN output[i].parts :
        output[i].parts[k] \in P <=> output[i].type = type
  <2> SUFFICES ASSUME NEW i \in DOMAIN output, NEW k \in DOMAIN output[i].parts,
                      output[i].parts[k] \in P
               PROVE  output[i].type = type
    OBVIOUS
  <2>1. output[i] \in OutputItems
    OBVIOUS
  <2>2. output[i].parts[k] \in PartNames(output[i].type) /\ output[i].parts[k] \in PartNames(type)
        /\ output[i].type \in {"message", "reasoning", "function_call"}
    BY <2>1 DEF OutputItems
  <2> QED BY <2>2 DEF PartNames
<1>2. ASSUME NEW p
      PROVE  p \in all <=> p \in PartsOf(output, type)
  BY <1>1, SizeMember, PartsMember
<1>3. all = PartsOf(output, type)
  <2> HIDE DEF all
  <2>1. \A p \in all : p \in PartsOf(output, type)
    BY <1>2
  <2>2. \A p \in PartsOf(output, type) : p \in all
    BY <1>2
  <2> QED BY <2>1, <2>2
<1> QED BY <1>3 DEF Size, SizeOf

LEMMA SizeFinite == ASSUME output \in Seq(OutputItems), NEW P PROVE Size(P) \in Nat
<1> DEFINE all == UNION {{i} \X {j \in DOMAIN output[i].parts : output[i].parts[j] \in P} :
                           i \in DOMAIN output}
           most == PartsOf(output, "message") \cup
                     (PartsOf(output, "reasoning") \cup PartsOf(output, "function_call"))
<1>1. IsFiniteSet(most)
  BY PartsFinite, FS_Union
<1>2. ASSUME NEW p \in all PROVE p \in most
  <2>1. PICK i \in DOMAIN output : \E k \in DOMAIN output[i].parts : p = <<i, k>>
    BY SizeMember
  <2>2. output[i].type \in {"message", "reasoning", "function_call"}
    <3>1. output[i] \in OutputItems
      OBVIOUS
    <3> QED BY <3>1 DEF OutputItems
  <2> QED BY <2>1, <2>2, PartsMember
<1>3. all \subseteq most
  BY <1>2
<1> HIDE DEF all, most
<1>4. Cardinality(all) \in Nat
  BY <1>1, <1>3, FS_Subset, FS_CardinalityType
<1> QED BY <1>4 DEF all, Size

\* What the invariant says of a response that was relayed to its end.
LEMMA RelayedAnswer ==
  ASSUME RInv, Relayed, Regular, ~OneSided
  PROVE  /\ sent \in Seq(Sendable) /\ output \in Seq(OutputItems) /\ Separate(output)
         /\ Shown(format, output) \in Seq(OutputItems)
         /\ Mirrors(sent, Shown(format, output)) /\ Reasoned(sent, output, status)
         /\ Size({"output_text", "refusal"}) = SizeOf(output, "message")
         /\ Size({"summary_start", "summary_text"}) = SizeOf(output, "reasoning")
         /\ Deltas("text") = SizeOf(output, "message")
         /\ Deltas("thinking") = SizeOf(output, "reasoning")
         /\ SizeOf(output, "message") \in Nat /\ SizeOf(output, "reasoning") \in Nat
         /\ Newlines \in Nat
<1>1. /\ sent \in Seq(Sendable) /\ output \in Seq(OutputItems) /\ Separate(output)
  BY DEF RInv, IInv
<1>2. ASSUME NEW i \in DOMAIN output, NEW k \in DOMAIN output[i].parts
      PROVE  /\ output[i].parts[k] # "refusal" /\ output[i].parts[k] # "reasoning_text"
             /\ output[i].parts[k] \in PartNames(output[i].type)
  <2>1. output[i] \in OutputItems /\ output[i].parts[k] \in ToSet(output[i].parts)
    BY <1>1 DEF ToSet
  <2> QED BY <2>1 DEF OneSided, OutputItems
<1>3. ~Refused
  <2>1. DOMAIN output = 1 .. Len(output)
    BY <1>1
  <2> QED BY <1>2, <2>1 DEF Refused, Refuses
<1>4. /\ Mirrors(sent, Shown(format, output)) /\ Reasoned(sent, output, status)
      /\ Tallies(sent, output)
  BY <1>3 DEF RInv, Relayed, Mirrored, Complete
<1>5. Shown(format, output) \in Seq(OutputItems)
  BY <1>1, ShownType
<1>6. Size({"output_text", "refusal"}) = SizeOf(output, "message")
  <2>1. {"output_text", "refusal"} = PartNames("message")
    BY DEF PartNames
  <2> QED BY <1>1, <1>2, <2>1, SizeOfParts
<1>7. Size({"summary_start", "summary_text"}) = SizeOf(output, "reasoning")
  <2> DEFINE P == {"summary_start", "summary_text"}
  <2>1. /\ P \in SUBSET PartNames("reasoning")
        /\ \A x \in PartNames("reasoning") : x # "reasoning_text" => x \in P
    BY DEF PartNames
  <2> HIDE DEF P
  <2>2. \A i \in DOMAIN output : output[i].type = "reasoning" =>
          \A k \in DOMAIN output[i].parts : output[i].parts[k] \in P
    BY <1>2, <2>1
  <2>3. Size(P) = SizeOf(output, "reasoning")
    BY <1>1, <2>1, <2>2, SizeOfParts
  <2> QED BY <2>3 DEF P
<1>8. \A kind : Deltas(kind) = Count(sent, DeltasOf(kind))
  <2>1. \A i \in DOMAIN sent : sent[i] \in Sendable
    BY <1>1
  <2>2. \A kind : {i \in DOMAIN sent : Wrote(i, {"delta", "block_delta"})
                                       /\ sent[i].kind = kind} = Places(sent, DeltasOf(kind))
    BY <2>1 DEF Wrote, Places, DeltasOf
  <2> QED BY <2>2 DEF Deltas, Count
<1>9. \A type : SizeOf(output, type) \in Nat
  BY <1>1, PartsFinite, FS_CardinalityType DEF SizeOf
<1>10. Newlines \in Nat
  <2>1. Size({"summary_start"}) \in Nat
    BY <1>1, SizeFinite
  <2> QED BY <2>1 DEF Newlines
<1> QED BY <1>1, <1>4, <1>5, <1>6, <1>7, <1>8, <1>9, <1>10 DEF Tallies

LEMMA StreamedCalls ==
  ASSUME RInv, Relayed, Regular, ~OneSided
  PROVE  BlocksFor(ToolsOf(Started), Only(output, CallItems))
<1> DEFINE items == Shown(format, output)
<1>1. /\ sent \in Seq(Sendable) /\ output \in Seq(OutputItems)
      /\ items \in Seq(OutputItems) /\ Mirrors(sent, items)
  BY RelayedAnswer
<1>2. Only(items, CallItems) = Only(output, CallItems)
  <2>1. CASE format = "chat"
    <3>1. items = Only(output, CallItems)
      BY <2>1 DEF Shown
    <3>2. \A i \in 1 .. Len(items) : items[i] \in CallItems
      BY <1>1, <3>1, OnlyType
    <3> HIDE DEF items
    <3>3. Only(items, CallItems) = items
      BY <1>1, <3>2, OnlyAll
    <3> QED BY <3>1, <3>3
  <2>2. CASE format # "chat"
    BY <2>2 DEF Shown
  <2> QED BY <2>1, <2>2
<1> HIDE DEF items
<1>3. BlocksFor(Started, items) /\ Started \in Seq(Blocks)
  BY <1>1, StartedBlocks DEF BlocksFor
<1>4. ToolsOf(Started) = Only(Started, Tools)
  BY <1>3, ToolsAmong
<1>5. BlocksFor(Only(Started, Tools), Only(items, CallItems))
  BY <1>1, <1>3, ToolBlocks
<1> QED BY <1>2, <1>4, <1>5

LEMMA StreamedReason ==
  ASSUME RInv, Relayed, Regular, ~OneSided
  PROVE  Streamed.reason = FinishReason(parseOutput)
<1> DEFINE f == CHOOSE i \in DOMAIN sent : Wrote(i, {"finish"})
<1>1. Reasoned(sent, output, status) /\ output \in Seq(OutputItems)
  BY RelayedAnswer
<1>2. \E i \in DOMAIN sent : Wrote(i, {"finish"})
  BY <1>1 DEF Reasoned, Wrote
<1>3. f \in DOMAIN sent /\ sent[f].name = "finish"
  <2>1. f \in DOMAIN sent /\ Wrote(f, {"finish"})
    BY <1>2
  <2> QED BY <2>1 DEF Wrote
<1>4. Streamed.reason = sent[f].kind
  BY DEF Streamed
<1> HIDE DEF f
<1>5. sent[f].kind = IF CallIn(output) THEN "tool"
                     ELSE IF status = "incomplete" THEN "length" ELSE "stop"
  BY <1>1, <1>3 DEF Reasoned
<1>6. parseOutput.calls = ToolCalls /\ parseOutput.status = status
  BY DEF parseOutput
<1>7. ToolCalls # <<>> <=> CallIn(output)
  BY <1>1, ToolCallsBlocks
<1> QED BY <1>4, <1>5, <1>6, <1>7 DEF FinishReason
-----------------------------------------------------------------------------
\* parseOutput and consume: the items of a response, of which the function calls,
\* and only they, are calls of the upstream; a response is not finished before
\* an event has said so.
THEOREM ResponseTypesCorrect == ResponseSpec => []ResponseTypeOK
<1>1. RInv => ResponseTypeOK
  <2> SUFFICES ASSUME RInv PROVE ResponseTypeOK
    OBVIOUS
  <2>1. /\ TypeOK /\ output \in Seq(OutputItems)
        /\ status = "in_progress" \/ events > 0
    BY DEF RInv, IInv, Complete
  <2>2. DOMAIN output = 1 .. Len(output)
    BY <2>1
  <2>3. ASSUME NEW i \in 1 .. Len(output)
        PROVE  /\ output[i].type \in {"message", "reasoning", "function_call"}
               /\ output[i].type = "function_call" <=> output[i].call \in Calls
    <3>1. output[i] \in OutputItems
      BY <2>1
    <3> QED BY <3>1, StreamAssumption DEF OutputItems
  <2> QED BY <2>1, <2>2, <2>3 DEF ResponseTypeOK
<1> QED BY <1>1, AlwaysResponse, PTL

\* consume and writeNonStream: of a regular response without a refusal or loose
\* reasoning, both clients have the same text, the same thinking but for the
\* newlines between summaries, the same calls, under the same id where they have
\* only one, and the same reason to stop, however the arguments were mixed.
THEOREM SameAnswerCorrect == ResponseSpec => []SameAnswer
<1>1. RInv => SameAnswer
  <2> SUFFICES ASSUME RInv, Relayed, Regular, ~OneSided
               PROVE  /\ Streamed.text = parseOutput.text
                      /\ Streamed.thinking + Newlines = parseOutput.thinking
                      /\ Alike(Streamed.calls, WholeCalls)
                      /\ Streamed.reason = Whole.reason
    BY DEF SameAnswer
  <2> DEFINE parsed == parseOutput
             message == anthropicResponse(parsed)
             chat == chatResponse(parsed)
             calls == Only(output, CallItems)
  <2>1. /\ output \in Seq(OutputItems)
        /\ Deltas("text") = Size({"output_text", "refusal"})
        /\ Deltas("thinking") = Size({"summary_start", "summary_text"})
        /\ Deltas("text") \in Nat /\ Deltas("thinking") \in Nat /\ Newlines \in Nat
    BY RelayedAnswer
  <2>2. /\ parsed.text = Deltas("text") /\ parsed.thinking = Deltas("thinking") + Newlines
        /\ parsed.calls = ToolCalls /\ parsed.text \in Nat /\ parsed.thinking \in Nat
    BY <2>1 DEF parseOutput
  <2>3. /\ Streamed.text = Deltas("text") /\ Streamed.thinking = Deltas("thinking")
        /\ Streamed.calls = ToolsOf(Started)
    BY DEF Streamed
  <2>4. Streamed.reason = FinishReason(parsed)
    BY StreamedReason
  <2> HIDE DEF parsed
  <2>5. /\ message.reason = FinishReason(parsed) /\ chat.reason = FinishReason(parsed)
        /\ chat.calls = ToolCalls
    BY <2>2 DEF anthropicResponse, chatResponse
  <2>6. ToolsOf(message.content) = Inputs(ToolCalls)
    BY <2>1, <2>2, MessageTools
  <2> HIDE DEF message, chat
  <2>7. Whole = IF format = "chat" THEN chat ELSE message
    BY DEF Whole, chat, message, parsed
  <2>8. WholeCalls = IF format = "chat" THEN ToolCalls ELSE Inputs(ToolCalls)
    BY <2>5, <2>6, <2>7 DEF WholeCalls
  <2>9. BlocksFor(ToolsOf(Started), calls)
    BY StreamedCalls
  <2>10. /\ calls \in Seq(OutputItems) /\ Len(ToolCalls) = Len(calls)
         /\ \A j \in 1 .. Len(calls) :
              /\ calls[j].type = "function_call"
              /\ ToolCalls[j] = [kind |-> "tool", call |-> calls[j].call,
                                 id |-> WholeId(calls[j].call),
                                 size |-> IF calls[j].parts = <<>> THEN Braces
                                          ELSE Len(calls[j].parts)]
         /\ Inputs(ToolCalls) = BlocksOf(calls)
    BY <2>1, ToolCallsBlocks
  <2> HIDE DEF calls
  <2>11. ASSUME NEW j \in 1 .. Len(calls)
         PROVE  /\ KindOf(calls[j].type) = "tool" /\ Len(calls[j].parts) \in Nat
                /\ Len(calls[j].parts) # Braces /\ Len(<<>>) = 0
    <3>0. calls[j] \in OutputItems
      BY <2>10
    <3>1. calls[j].parts \in Seq(Parts) /\ calls[j].type = "function_call"
      BY <2>10, <3>0 DEF OutputItems
    <3>2. Len(calls[j].parts) \in Nat
      BY <3>1
    <3>3. KindOf(calls[j].type) = "tool"
      BY <3>1 DEF KindOf
    <3> QED BY <3>2, <3>3 DEF Braces
  <2>12. Alike(ToolsOf(Started), ToolCalls)
    <3>1. ASSUME NEW j \in 1 .. Len(calls)
          PROVE  /\ ToolCalls[j].kind = KindOf(calls[j].type)
                 /\ ToolCalls[j].call = calls[j].call
                 /\ (IF ToolCalls[j].size = Braces THEN 0 ELSE ToolCalls[j].size)
                      = Len(calls[j].parts)
                 /\ ToolCalls[j].id = WholeId(calls[j].call)
      <4>1. ToolCalls[j] = [kind |-> "tool", call |-> calls[j].call,
                            id |-> WholeId(calls[j].call),
                            size |-> IF calls[j].parts = <<>> THEN Braces ELSE Len(calls[j].parts)]
        BY <2>10
      <4>2. /\ ToolCalls[j].kind = "tool" /\ ToolCalls[j].call = calls[j].call
            /\ ToolCalls[j].id = WholeId(calls[j].call)
            /\ ToolCalls[j].size = IF calls[j].parts = <<>> THEN Braces ELSE Len(calls[j].parts)
        BY <4>1
      <4>3. CASE calls[j].parts = <<>>
        <5>1. Len(calls[j].parts) = 0
          BY <2>11, <4>3
        <5> QED BY <2>11, <4>2, <4>3, <5>1
      <4>4. CASE calls[j].parts # <<>>
        BY <2>11, <4>2, <4>4
      <4> QED BY <4>3, <4>4
    <3> QED BY <2>9, <2>10, <3>1, BlocksAlike
  <2>13. Alike(ToolsOf(Started), Inputs(ToolCalls))
    BY <2>9, <2>10, BlockTypes, WholeBlocks
  <2> QED BY <2>1, <2>2, <2>3, <2>4, <2>5, <2>7, <2>8, <2>12, <2>13 DEF parsed
<1> QED BY <1>1, AlwaysResponse, PTL
-----------------------------------------------------------------------------
LEMMA SizeNone ==
  ASSUME NEW out \in Seq(OutputItems), NEW type,
         \A i \in 1 .. Len(out) : out[i].type # type
  PROVE  SizeOf(out, type) = 0
<1>1. DOMAIN out = 1 .. Len(out)
  OBVIOUS
<1>2. PartsOf(out, type) = {}
  BY <1>1 DEF PartsOf
<1> QED BY <1>2, FS_EmptySet DEF SizeOf

LEMMA SizeOne ==
  ASSUME NEW out \in Seq(OutputItems), NEW type, NEW j \in 1 .. Len(out),
         out[j].type = type, \A i \in 1 .. Len(out) : i # j => out[i].type # type
  PROVE  SizeOf(out, type) = Len(out[j].parts) /\ Len(out[j].parts) \in Nat
<1> DEFINE q == out[j].parts
<1>1. DOMAIN out = 1 .. Len(out) /\ q \in Seq(Parts)
  <2>1. out[j] \in OutputItems
    OBVIOUS
  <2> QED BY <2>1 DEF OutputItems
<1>2. Len(q) \in Nat /\ DOMAIN q = 1 .. Len(q)
  BY <1>1
<1>3. ASSUME NEW p
      PROVE  p \in PartsOf(out, type) <=> p \in {j} \X DOMAIN q
  BY <1>1, PartsMember
<1>4. PartsOf(out, type) = {j} \X DOMAIN q
  BY <1>3, PartsMember
<1> HIDE DEF q
<1> DEFINE S == {j}
           D == 1 .. Len(q)
<1>5. IsFiniteSet(S) /\ Cardinality(S) = 1
  BY FS_Singleton
<1>6. IsFiniteSet(D) /\ Cardinality(D) = Len(q)
  <2> DEFINE n == Len(q)
  <2>1. 1 \in Int /\ n \in Int /\ n \in Nat
    BY <1>2
  <2> HIDE DEF n
  <2>2. IsFiniteSet(1 .. n) /\ Cardinality(1 .. n) = IF 1 > n THEN 0 ELSE n - 1 + 1
    BY <2>1, FS_Interval
  <2>3. Cardinality(1 .. n) = n
    BY <2>1, <2>2
  <2> QED BY <2>2, <2>3 DEF n
<1> HIDE DEF S, D
<1>7. Cardinality(S \X D) = Cardinality(S) * Cardinality(D)
  BY <1>5, <1>6, FS_Product
<1>8. Cardinality(S \X D) = Len(q)
  <2>1. \A n \in Nat : 1 * n = n
    OBVIOUS
  <2> QED BY <1>2, <1>5, <1>6, <1>7, <2>1
<1> QED BY <1>2, <1>4, <1>8 DEF SizeOf, q, S, D

\* Calls that follow the other items are the rest of them.
LEMMA CallsLast ==
  ASSUME NEW out \in Seq(OutputItems), NEW k \in 0 .. Len(out),
         \A i \in 1 .. Len(out) : out[i].type = "function_call" <=> i > k
  PROVE  /\ Len(Only(out, CallItems)) = Len(out) - k
         /\ \A i \in 1 .. Len(out) - k : Only(out, CallItems)[i] = out[k + i]
<1> DEFINE m == Len(out)
           pre == SubSeq(out, 1, k)
           rest == SubSeq(out, k + 1, m)
<1>1. m \in Nat /\ k \in Nat /\ k <= m
  OBVIOUS
<1>2. /\ pre \in Seq(OutputItems) /\ Len(pre) = k
      /\ \A i \in 1 .. k : pre[i] = out[i]
  BY <1>1
<1>3. /\ rest \in Seq(OutputItems) /\ Len(rest) = m - k
      /\ \A i \in 1 .. m - k : rest[i] = out[k + i]
  BY <1>1
<1>4. out = pre \o rest
  <2> HIDE DEF pre, rest
  <2>1. /\ pre \o rest \in Seq(OutputItems) /\ Len(pre \o rest) = m
        /\ \A i \in 1 .. m : (pre \o rest)[i] = IF i <= k THEN pre[i] ELSE rest[i - k]
    BY <1>1, <1>2, <1>3
  <2>2. ASSUME NEW i \in 1 .. m PROVE (pre \o rest)[i] = out[i]
    <3>1. CASE i <= k
      BY <1>1, <1>2, <2>1, <3>1
    <3>2. CASE ~(i <= k)
      <4>1. i - k \in 1 .. m - k /\ k + (i - k) = i
        BY <1>1, <3>2
      <4> QED BY <1>3, <2>1, <3>2, <4>1
    <3> QED BY <3>1, <3>2
  <2> QED BY <1>1, <2>1, <2>2, SeqEqual
<1> HIDE DEF pre, rest
<1>5. Only(pre, CallItems) = <<>>
  <2>1. \A i \in 1 .. Len(pre) : pre[i] \notin CallItems
    BY <1>1, <1>2 DEF CallItems
  <2> QED BY <1>2, <2>1, OnlyNone
<1>6. Only(rest, CallItems) = rest
  <2>1. ASSUME NEW i \in 1 .. Len(rest) PROVE rest[i] \in CallItems
    <3>1. k + i \in 1 .. m /\ k + i > k /\ rest[i] = out[k + i] /\ rest[i] \in OutputItems
      BY <1>1, <1>3
    <3> QED BY <3>1 DEF CallItems
  <2> QED BY <1>3, <2>1, OnlyAll
<1>7. Only(out, CallItems) = rest
  <2>1. Only(pre \o rest, CallItems) = Only(pre, CallItems) \o Only(rest, CallItems)
    <3>1. \A t \in Seq(OutputItems) :
            Only(pre \o t, CallItems) = Only(pre, CallItems) \o Only(t, CallItems)
      BY <1>2, OnlyConcat
    <3> QED BY <1>3, <3>1
  <2>2. <<>> \o rest = rest
    BY <1>3
  <2> QED BY <1>4, <1>5, <1>6, <2>1, <2>2
<1> QED BY <1>3, <1>7

\* Of items that are thought, then said, then called, at most one is reasoning
\* and at most one is a message.
LEMMA InThreeParts ==
  ASSUME NEW out \in Seq(OutputItems), Separate(out), Len(out) > 0,
         \A i, j \in 1 .. Len(out) : i < j =>
           /\ out[j].type = "reasoning" => out[i].type = "reasoning"
           /\ out[j].type = "message" => out[i].type # "function_call"
  PROVE  \E k \in 0 .. Len(out) :
           /\ \A i \in 1 .. Len(out) : out[i].type = "function_call" <=> i > k
           /\ \A i \in 1 .. k : Len(out[i].parts) > 0
           /\ \/ k = 0
              \/ k = 1 /\ out[1].type = "reasoning"
              \/ k = 1 /\ out[1].type = "message"
              \/ k = 2 /\ out[1].type = "reasoning" /\ out[2].type = "message"
<1> DEFINE m == Len(out)
<1>1. /\ m \in Nat /\ 1 \in 1 .. m
      /\ \A i \in 1 .. m : out[i].type \in {"message", "reasoning", "function_call"}
  BY DEF OutputItems
<1>2. ASSUME NEW i \in 1 .. m, i # 1
      PROVE  i - 1 \in 1 .. m - 1 /\ i - 1 \in 1 .. m /\ i - 1 < i /\ (i - 1) + 1 = i
  BY <1>1, <1>2
<1>3. \A i \in 1 .. m : out[i].type = "reasoning" => i = 1
  <2> SUFFICES ASSUME NEW i \in 1 .. m, out[i].type = "reasoning", i # 1
               PROVE  FALSE
    OBVIOUS
  <2>1. out[i - 1].type = "reasoning"
    BY <1>2
  <2>2. out[i - 1].type = "function_call"
    BY <1>2, <2>1 DEF Separate
  <2> QED BY <2>1, <2>2
<1>4. \A i \in 1 .. m : out[i].type = "message" => i = 1 \/ (i = 2 /\ out[1].type = "reasoning")
  <2> SUFFICES ASSUME NEW i \in 1 .. m, out[i].type = "message", i # 1
               PROVE  i = 2 /\ out[1].type = "reasoning"
    OBVIOUS
  <2>1. out[i - 1].type # "function_call"
    BY <1>2
  <2>2. out[i - 1].type # "message"
    <3>1. CASE out[i - 1].type = "message"
      <4>1. out[i - 1].type = "function_call"
        BY <1>2, <3>1 DEF Separate
      <4> QED BY <2>1, <4>1
    <3> QED BY <3>1
  <2>3. out[i - 1].type = "reasoning"
    BY <1>1, <1>2, <2>1, <2>2
  <2>4. i - 1 = 1
    BY <1>2, <1>3, <2>3
  <2> QED BY <2>3, <2>4
<1> HIDE DEF m
<1>5. \A i \in 1 .. m : out[i].type # "function_call" => Len(out[i].parts) > 0
  BY DEF Separate, m
<1>6. CASE out[1].type = "function_call"
  <2>1. \A i \in 1 .. m : out[i].type = "function_call" <=> i > 0
    BY <1>1, <1>3, <1>4, <1>6
  <2>2. 0 \in 0 .. m /\ 1 .. 0 = {}
    BY <1>1
  <2> QED BY <2>1, <2>2 DEF m
<1>7. CASE out[1].type = "message"
  <2>1. \A i \in 1 .. m : out[i].type = "function_call" <=> i > 1
    BY <1>1, <1>3, <1>4, <1>7
  <2>2. 1 \in 0 .. m /\ \A i \in 1 .. 1 : Len(out[i].parts) > 0
    BY <1>1, <1>5, <1>7
  <2> QED BY <1>7, <2>1, <2>2 DEF m
<1>8. CASE out[1].type = "reasoning" /\ ~(2 \in 1 .. m /\ out[2].type = "message")
  <2>1. \A i \in 1 .. m : out[i].type = "function_call" <=> i > 1
    BY <1>1, <1>3, <1>4, <1>8
  <2>2. 1 \in 0 .. m /\ \A i \in 1 .. 1 : Len(out[i].parts) > 0
    BY <1>1, <1>5, <1>8
  <2> QED BY <1>8, <2>1, <2>2 DEF m
<1>9. CASE out[1].type = "reasoning" /\ 2 \in 1 .. m /\ out[2].type = "message"
  <2>1. \A i \in 1 .. m : out[i].type = "function_call" <=> i > 2
    BY <1>1, <1>3, <1>4, <1>9
  <2>2. 2 \in 0 .. m /\ \A i \in 1 .. 2 : Len(out[i].parts) > 0
    <3>1. \A i \in 1 .. 2 : i = 1 \/ i = 2
      OBVIOUS
    <3> QED BY <1>1, <1>5, <1>9, <3>1
  <2> QED BY <1>9, <2>1, <2>2 DEF m
<1> QED BY <1>1, <1>6, <1>7, <1>8, <1>9

LEMMA FewBlocks ==
  ASSUME NEW x \in Blocks, NEW y \in Blocks
  PROVE  /\ <<x>> \o <<>> = <<x>> /\ <<>> \o <<x>> = <<x>>
         /\ <<x>> \o <<y>> = <<x, y>>
         /\ <<x>> \in Seq(Blocks) /\ Len(<<x>>) = 1 /\ <<x>>[1] = x
         /\ <<x, y>> \in Seq(Blocks) /\ Len(<<x, y>>) = 2
         /\ <<x, y>>[1] = x /\ <<x, y>>[2] = y
<1>1. /\ <<x>> \in Seq(Blocks) /\ Len(<<x>>) = 1 /\ <<x>>[1] = x
      /\ <<y>> \in Seq(Blocks) /\ Len(<<y>>) = 1 /\ <<y>>[1] = y
  OBVIOUS
<1>2. <<x, y>> \in Seq(Blocks)
  OBVIOUS
<1>3. Len(<<x, y>>) = 2 /\ <<x, y>>[1] = x /\ <<x, y>>[2] = y
  OBVIOUS
<1>4. <<x>> \o <<>> = <<x>> /\ <<>> \o <<x>> = <<x>>
  BY <1>1, ConcatEmptySeq
<1>5. <<x>> \o <<y>> = <<x, y>>
  <2> DEFINE t == <<x>> \o <<y>>
             u == <<x, y>>
  <2>1. t \in Seq(Blocks) /\ Len(t) = 2 /\ t[1] = x /\ t[2] = y
    BY <1>1
  <2> HIDE DEF t
  <2>2. \A i \in 1 .. 2 : i = 1 \/ i = 2
    OBVIOUS
  <2>3. u \in Seq(Blocks) /\ Len(u) = 2 /\ u[1] = x /\ u[2] = y
    BY <1>2, <1>3
  <2> HIDE DEF u
  <2>4. t = u
    BY <2>1, <2>2, <2>3, SeqEqual
  <2> QED BY <2>4 DEF t, u
<1> QED BY <1>1, <1>2, <1>3, <1>4, <1>5

\* The text and thinking blocks of the message are the items before the calls.
LEMMA FirstBlocks ==
  ASSUME output \in Seq(OutputItems), NEW k \in 0 .. Len(output),
         \A i \in 1 .. Len(output) : output[i].type = "function_call" <=> i > k,
         \A i \in 1 .. k : Len(output[i].parts) > 0,
         \/ k = 0
         \/ k = 1 /\ output[1].type = "reasoning"
         \/ k = 1 /\ output[1].type = "message"
         \/ k = 2 /\ output[1].type = "reasoning" /\ output[2].type = "message",
         NEW head,
         head = Block("thinking", SizeOf(output, "reasoning"))
                  \o Block("text", SizeOf(output, "message"))
  PROVE  /\ head \in Seq(Blocks) /\ Len(head) = k
         /\ \A i \in 1 .. k : head[i] = BlockOf(output[i])
<1> DEFINE m == Len(output)
           c == BlockOf(output[1])
           d == BlockOf(output[2])
           a == Block("thinking", SizeOf(output, "reasoning"))
           b == Block("text", SizeOf(output, "message"))
<1>1. m \in Nat /\ k <= m /\ \A i \in 1 .. k : i \in 1 .. m
  OBVIOUS
<1>2. ASSUME NEW i \in 1 .. k
      PROVE  /\ BlockOf(output[i]) \in Blocks
             /\ output[i].type = "reasoning" =>
                  Block("thinking", Len(output[i].parts)) = <<BlockOf(output[i])>>
             /\ output[i].type = "message" =>
                  Block("text", Len(output[i].parts)) = <<BlockOf(output[i])>>
  <2>1. output[i] \in OutputItems /\ output[i].type # "function_call"
    BY <1>1
  <2>2. output[i].call = NoItem /\ Len(output[i].parts) # 0
    BY <2>1 DEF OutputItems
  <2>3. /\ output[i].type = "reasoning" => KindOf(output[i].type) = "thinking"
        /\ output[i].type = "message" => KindOf(output[i].type) = "text"
    BY DEF KindOf
  <2> QED BY <2>1, <2>2, <2>3, BlockTypes DEF Block, BlockOf
<1>3. \A kind : Block(kind, 0) = <<>>
  BY DEF Block
<1>4. \A i \in 1 .. m : i > k => output[i].type = "function_call"
  OBVIOUS
<1>5. head = a \o b
  OBVIOUS
<1>6. CASE k = 0
  <2>1. SizeOf(output, "reasoning") = 0 /\ SizeOf(output, "message") = 0
    BY <1>1, <1>4, <1>6, SizeNone
  <2>2. a = <<>> /\ b = <<>>
    BY <1>3, <2>1
  <2> HIDE DEF a, b
  <2>3. <<>> \o <<>> = <<>> /\ <<>> \in Seq(Blocks) /\ Len(<<>>) = 0
    OBVIOUS
  <2>4. head = <<>>
    BY <1>5, <2>2, <2>3
  <2>5. 1 .. 0 = {}
    OBVIOUS
  <2> QED BY <1>6, <2>3, <2>4, <2>5
<1>7. CASE k = 1 /\ output[1].type = "reasoning"
  <2>1. \A i \in 1 .. m : i # 1 => output[i].type = "function_call"
    BY <1>1, <1>4, <1>7
  <2>2. SizeOf(output, "reasoning") = Len(output[1].parts) /\ SizeOf(output, "message") = 0
    <3>1. 1 \in 1 .. m /\ \A i \in 1 .. m : i # 1 => output[i].type # "reasoning"
      BY <1>1, <1>7, <2>1
    <3>2. \A i \in 1 .. m : output[i].type # "message"
      BY <1>7, <2>1
    <3>3. SizeOf(output, "reasoning") = Len(output[1].parts)
      BY <1>7, <3>1, SizeOne
    <3>4. SizeOf(output, "message") = 0
      BY <3>2, SizeNone
    <3> QED BY <3>3, <3>4
  <2>3. a = <<c>> /\ b = <<>> /\ c \in Blocks
    BY <1>2, <1>3, <1>7, <2>2
  <2> HIDE DEF a, b, c
  <2>4. head = <<c>>
    BY <1>5, <2>3, FewBlocks
  <2>5. head \in Seq(Blocks) /\ Len(head) = 1 /\ head[1] = c
    BY <2>3, <2>4, FewBlocks
  <2> QED BY <1>7, <2>5 DEF c
<1>8. CASE k = 1 /\ output[1].type = "message"
  <2>1. \A i \in 1 .. m : i # 1 => output[i].type = "function_call"
    BY <1>1, <1>4, <1>8
  <2>2. SizeOf(output, "message") = Len(output[1].parts) /\ SizeOf(output, "reasoning") = 0
    <3>1. 1 \in 1 .. m /\ \A i \in 1 .. m : i # 1 => output[i].type # "message"
      BY <1>1, <1>8, <2>1
    <3>2. \A i \in 1 .. m : output[i].type # "reasoning"
      BY <1>8, <2>1
    <3>3. SizeOf(output, "message") = Len(output[1].parts)
      BY <1>8, <3>1, SizeOne
    <3>4. SizeOf(output, "reasoning") = 0
      BY <3>2, SizeNone
    <3> QED BY <3>3, <3>4
  <2>3. a = <<>> /\ b = <<c>> /\ c \in Blocks
    BY <1>2, <1>3, <1>8, <2>2
  <2> HIDE DEF a, b, c
  <2>4. head = <<c>>
    BY <1>5, <2>3, FewBlocks
  <2>5. head \in Seq(Blocks) /\ Len(head) = 1 /\ head[1] = c
    BY <2>3, <2>4, FewBlocks
  <2> QED BY <1>8, <2>5 DEF c
<1>9. CASE k = 2 /\ output[1].type = "reasoning" /\ output[2].type = "message"
  <2>1. \A i \in 1 .. m : i # 1 /\ i # 2 => output[i].type = "function_call"
    BY <1>1, <1>4, <1>9
  <2>2. 1 \in 1 .. k /\ 2 \in 1 .. k /\ 1 \in 1 .. m /\ 2 \in 1 .. m
    BY <1>1, <1>9
  <2>3. SizeOf(output, "reasoning") = Len(output[1].parts)
    <3>1. \A i \in 1 .. m : i # 1 => output[i].type # "reasoning"
      BY <1>9, <2>1
    <3> QED BY <1>9, <2>2, <3>1, SizeOne
  <2>4. SizeOf(output, "message") = Len(output[2].parts)
    <3>1. \A i \in 1 .. m : i # 2 => output[i].type # "message"
      BY <1>9, <2>1
    <3> QED BY <1>9, <2>2, <3>1, SizeOne
  <2>5. a = <<c>> /\ b = <<d>> /\ c \in Blocks /\ d \in Blocks
    BY <1>2, <1>9, <2>2, <2>3, <2>4
  <2> HIDE DEF a, b, c, d
  <2>6. head = <<c, d>>
    BY <1>5, <2>5, FewBlocks
  <2>7. \A i \in 1 .. 2 : i = 1 \/ i = 2
    OBVIOUS
  <2>8. head \in Seq(Blocks) /\ Len(head) = 2 /\ head[1] = c /\ head[2] = d
    <3>1. /\ <<c, d>> \in Seq(Blocks) /\ Len(<<c, d>>) = 2
          /\ <<c, d>>[1] = c /\ <<c, d>>[2] = d
      BY <2>5, FewBlocks
    <3> QED BY <2>6, <3>1
  <2> QED BY <1>9, <2>7, <2>8 DEF c, d
<1> QED BY <1>6, <1>7, <1>8, <1>9

\* consume and anthropicResponse: of a regular response in which the upstream
\* thinks, in one summary, then talks, then calls, an Anthropic client gets the
\* same blocks either way, none of them empty or split.
THEOREM SameBlocksCorrect == ResponseSpec => []SameBlocks
<1>1. RInv => SameBlocks
  <2> DEFINE rank == [reasoning |-> 1, message |-> 2, function_call |-> 3]
             m == Len(output)
             parsed == parseOutput
  <2> SUFFICES ASSUME RInv, Relayed, Regular, ~OneSided, format = "anthropic",
                      Newlines = 0, output # <<>>,
                      \A i, j \in DOMAIN output :
                        i < j => rank[output[i].type] <= rank[output[j].type]
               PROVE  Alike(Started, anthropicResponse(parsed).content)
    BY DEF SameBlocks, Whole
  <2>1. /\ sent \in Seq(Sendable) /\ output \in Seq(OutputItems) /\ Separate(output)
        /\ Mirrors(sent, Shown(format, output)) /\ Shown(format, output) = output
    BY RelayedAnswer DEF Shown
  <2>2. m \in Nat /\ m > 0 /\ DOMAIN output = 1 .. m
    BY <2>1
  <2>3. BlocksFor(Started, output)
    BY <2>1, StartedBlocks
  <2>4. ASSUME NEW i \in 1 .. m, NEW j \in 1 .. m, i < j
        PROVE  /\ output[j].type = "reasoning" => output[i].type = "reasoning"
               /\ output[j].type = "message" => output[i].type # "function_call"
    <3>1. rank["reasoning"] = 1 /\ rank["message"] = 2 /\ rank["function_call"] = 3
      OBVIOUS
    <3>2. rank[output[i].type] <= rank[output[j].type]
      BY <2>2, <2>4
    <3> HIDE DEF rank
    <3>3. output[i].type \in {"message", "reasoning", "function_call"}
      <4>1. output[i] \in OutputItems
        BY <2>1
      <4> QED BY <4>1 DEF OutputItems
    <3> QED BY <3>1, <3>2, <3>3
  <2>5. PICK k \in 0 .. m :
          /\ \A i \in 1 .. m : output[i].type = "function_call" <=> i > k
          /\ \A i \in 1 .. k : Len(output[i].parts) > 0
          /\ \/ k = 0
             \/ k = 1 /\ output[1].type = "reasoning"
             \/ k = 1 /\ output[1].type = "message"
             \/ k = 2 /\ output[1].type = "reasoning" /\ output[2].type = "message"
    BY <2>1, <2>2, <2>4, InThreeParts
  <2> DEFINE head == Block("thinking", SizeOf(output, "reasoning"))
                       \o Block("text", SizeOf(output, "message"))
             calls == Only(output, CallItems)
             tools == Inputs(ToolCalls)
  <2>6. /\ head \in Seq(Blocks) /\ Len(head) = k
        /\ \A i \in 1 .. k : head[i] = BlockOf(output[i])
    BY <2>1, <2>5, FirstBlocks
  <2>7. Content(parsed) = head \o tools
    <3>1. /\ Size({"output_text", "refusal"}) = SizeOf(output, "message")
          /\ Size({"summary_start", "summary_text"}) = SizeOf(output, "reasoning")
          /\ SizeOf(output, "reasoning") \in Nat
      BY RelayedAnswer
    <3>2. /\ parsed.thinking = SizeOf(output, "reasoning")
          /\ parsed.text = SizeOf(output, "message") /\ parsed.calls = ToolCalls
      BY <3>1 DEF parseOutput
    <3> QED BY <3>2 DEF Content
  <2> HIDE DEF head, parsed, m, tools
  <2>8. /\ calls \in Seq(OutputItems) /\ Len(calls) = m - k
        /\ \A i \in 1 .. m - k : calls[i] = output[k + i]
    BY <2>1, <2>5, CallsLast, OnlyType DEF m
  <2>9. tools = BlocksOf(calls)
    BY <2>1, ToolCallsBlocks DEF tools
  <2> HIDE DEF calls
  <2>10. /\ tools \in Seq(Blocks) /\ Len(tools) = m - k
         /\ \A i \in 1 .. m - k : tools[i] = BlockOf(output[k + i])
    BY <2>8, <2>9, BlockTypes
  <2>11. /\ BlocksOf(output) \in Seq(Blocks) /\ Len(BlocksOf(output)) = m
         /\ \A i \in 1 .. m : BlocksOf(output)[i] = BlockOf(output[i])
    BY <2>1, BlockTypes DEF m
  <2>12. k \in Nat /\ k <= m
    BY <2>2, <2>5
  <2>13. head \o tools = BlocksOf(output)
    <3> DEFINE t == head \o tools
    <3>1. /\ t \in Seq(Blocks) /\ Len(t) = m
          /\ \A i \in 1 .. m : t[i] = IF i <= k THEN head[i] ELSE tools[i - k]
      BY <2>2, <2>6, <2>10, <2>12
    <3> HIDE DEF t
    <3>2. ASSUME NEW i \in 1 .. m PROVE t[i] = BlocksOf(output)[i]
      <4>1. CASE i <= k
        <5>1. i \in 1 .. k
          BY <2>12, <4>1
        <5> QED BY <2>6, <2>11, <3>1, <4>1, <5>1
      <4>2. CASE ~(i <= k)
        <5>1. i - k \in 1 .. m - k /\ k + (i - k) = i
          BY <2>2, <2>12, <4>2
        <5> QED BY <2>10, <2>11, <3>1, <4>2, <5>1
      <4> QED BY <4>1, <4>2
    <3>3. t = BlocksOf(output)
      BY <2>11, <3>1, <3>2, SeqEqual
    <3> QED BY <3>3 DEF t
  <2>14. Content(parsed) = BlocksOf(output) /\ Content(parsed) # <<>>
    <3>1. Len(BlocksOf(output)) # 0
      BY <2>2, <2>11
    <3> QED BY <2>7, <2>13, <3>1
  <2>15. Alike(Started, BlocksOf(output))
    BY <2>1, <2>3, WholeBlocks
  <2> QED BY <2>14, <2>15 DEF anthropicResponse
<1> QED BY <1>1, AlwaysResponse, PTL
=============================================================================
