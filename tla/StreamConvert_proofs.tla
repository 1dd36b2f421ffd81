------------------------ MODULE StreamConvert_proofs ------------------------
(***************************************************************************)
(* What a client receives is well formed for any calls with any ids and    *)
(* any number of events.  The writes are followed one at a time: Good says *)
(* that the writes s are right so far, but for what the oddities o of the  *)
(* upstream excuse, Tracks that streamState describes them; each kind of   *)
(* write keeps both, before the finish and after it, and a prefix of good  *)
(* writes, which is what a client has when a write fails, is good.         *)
(***************************************************************************)
EXTENDS ResponseConvert, FiniteSetTheorems, TLAPS

NumberedIds == {<<"call", n>> : n \in Nat}

SendableIds ==
  {NoId} \cup {Ids[c].id : c \in Calls} \cup {Ids[c].call_id : c \in Calls}
         \cup NumberedIds

Sendable == [name : Names, index : Int,
             kind : {"", "text", "thinking", "tool", "length", "stop"},
             call : Calls \cup {NoItem}, id : SendableIds]

StartNames == {"tool_start", "block_start"}

\* The parts of the properties, of any sequence of writes.
Bounds(s, i) == {k \in 1 .. i - 1 : s[k].name \in {"block_start", "block_stop"}}

LastBound(s, i) == CHOOSE k \in Bounds(s, i) : \A m \in Bounds(s, i) : m <= k

OpenIn(s, i) ==
  IF Bounds(s, i) = {} THEN None
  ELSE IF s[LastBound(s, i)].name \in {"block_start"} THEN LastBound(s, i) ELSE None

Opened(s, i) == {k \in 1 .. i - 1 : s[k].name \in {"block_start"}}

\* One conjunct of BlocksFormed.
BlockGood(s, i, b) ==
  /\ s[i].name \in {"block_delta", "block_stop"} => b # None /\ s[b].index = s[i].index
  /\ s[i].name \in {"block_delta"} => s[b].kind = s[i].kind
  /\ s[i].name \in {"block_start", "finish", "end"} => b = None
  /\ s[i].name \in {"block_start"} => s[i].index = Cardinality(Opened(s, i))

BlocksGood(s) == \A i \in DOMAIN s : BlockGood(s, i, OpenIn(s, i))

CallsGood(s) ==
  \A i \in DOMAIN s :
    s[i].name \in {"tool_delta", "block_delta"} /\ s[i].call # NoItem =>
      \E k \in 1 .. i - 1 :
        /\ s[k].name \in StartNames
        /\ s[k].call = s[i].call /\ s[k].index = s[i].index
        /\ \A m \in DOMAIN s : s[m].name \in StartNames /\ s[m].index = s[i].index
             => m = k

OnceGood(s, o) ==
  /\ \A i, j \in DOMAIN s : s[i].name = "finish" /\ s[j].name = "finish" => i = j
  /\ \A i \in DOMAIN s : s[i].name = "end" => i > 1 /\ s[i - 1].name = "finish"
  /\ \A i \in DOMAIN s : s[i].name = "finish" =>
       /\ i < Len(s) => s[i + 1].name = "end"
       /\ s[i].kind = "tool" <=>
            \E k \in 1 .. i - 1 : s[k].name \in StartNames /\ s[k].kind = "tool"
  /\ "misnamed" \notin o =>
       \A i \in DOMAIN s : s[i].name \in {"role", "message_start"} <=> i = 1
  /\ "late" \notin o => \A i \in DOMAIN s : s[i].name = "end" => i = Len(s)

\* Among the bounds before a write there is a last one.
Scanned(s) ==
  \A i \in 1 .. Len(s) + 1 : Bounds(s, i) # {} =>
    \E k \in Bounds(s, i) : \A m \in Bounds(s, i) : m <= k

Good(s, o) ==
  /\ Scanned(s) /\ OnceGood(s, o)
  /\ o \cap {"misnamed", "repeated"} = {} => CallsGood(s)
  /\ o \cap {"mixed", "misnamed"} = {} => BlocksGood(s)
-----------------------------------------------------------------------------
\* The first index that no start has announced.
Limit(fmt, st) ==
  IF fmt = "chat" THEN Cardinality(DOMAIN st.toolIndexes) ELSE st.nextBlock

OpenTracked(s, st) ==
  LET b == OpenIn(s, Len(s) + 1)
  IN  IF b = None THEN st.openBlock = None
      ELSE /\ b \in 1 .. Len(s) /\ s[b].index \in Nat
           /\ st.openBlock = s[b].index /\ st.blockKind = s[b].kind

\* The ids that were announced lead to the indexes that were announced, if no
\* two calls have one id.
IndexesTracked(fmt, s, st) ==
  \A k \in DOMAIN s : s[k].name \in StartNames =>
    /\ s[k].index \in 0 .. Limit(fmt, st) - 1
    /\ \A m \in DOMAIN s : s[m].name \in StartNames /\ s[m].index = s[k].index => m = k
    /\ s[k].kind = "tool" =>
         s[k].id \in DOMAIN st.toolIndexes /\ st.toolIndexes[s[k].id] = s[k].index

StartsTracked(fmt, s, st, o) ==
  /\ "repeated" \notin o => IndexesTracked(fmt, s, st)
  /\ \A k \in DOMAIN s : s[k].name \in StartNames /\ s[k].call # NoItem => s[k].kind = "tool"
  /\ IsFiniteSet(DOMAIN st.toolIndexes)
  /\ st.hadTool <=> \E k \in DOMAIN s : s[k].name \in StartNames /\ s[k].kind = "tool"

\* Before the finish there is none, and after it an end.
FinishTracked(s, st) ==
  /\ ~st.finished => \A k \in DOMAIN s : s[k].name \notin {"finish", "end"}
  /\ st.finished => st.started /\ \E k \in DOMAIN s : s[k].name = "end"
  /\ \A k \in DOMAIN s : k = Len(s) => s[k].name # "finish"

Tracks(fmt, s, st, o) ==
  /\ st.started => Len(s) > 0
  /\ "misnamed" \notin o /\ Len(s) > 0 => st.started
  /\ OpenTracked(s, st)
  /\ fmt = "chat" => \A k \in DOMAIN s : s[k].name \notin {"block_start", "block_stop"}
  /\ st.nextBlock \in Nat /\ st.nextBlock = Cardinality(Opened(s, Len(s) + 1))
  /\ StartsTracked(fmt, s, st, o)
  /\ FinishTracked(s, st)
-----------------------------------------------------------------------------
LEMMA AppendFacts ==
  ASSUME NEW s \in Seq(Sendable), NEW e \in Sendable
  PROVE  /\ Append(s, e) \in Seq(Sendable)
         /\ Len(Append(s, e)) = Len(s) + 1
         /\ DOMAIN Append(s, e) = 1 .. Len(s) + 1
         /\ DOMAIN s = 1 .. Len(s)
         /\ Len(s) \in Nat
         /\ Append(s, e)[Len(s) + 1] = e
         /\ \A i \in 1 .. Len(s) : Append(s, e)[i] = s[i]
OBVIOUS

\* A write adds at most itself to the bounds, and to the opened blocks.
LEMMA AppendBounds ==
  ASSUME NEW s \in Seq(Sendable), NEW e \in Sendable
  PROVE  /\ \A i \in 1 .. Len(s) + 1 : /\ Bounds(Append(s, e), i) = Bounds(s, i)
                                       /\ Opened(Append(s, e), i) = Opened(s, i)
         /\ e.name \in {"block_start", "block_stop"} =>
              Bounds(Append(s, e), Len(s) + 2) = Bounds(s, Len(s) + 1) \cup {Len(s) + 1}
         /\ e.name \notin {"block_start", "block_stop"} =>
              Bounds(Append(s, e), Len(s) + 2) = Bounds(s, Len(s) + 1)
         /\ e.name = "block_start" =>
              Opened(Append(s, e), Len(s) + 2) = Opened(s, Len(s) + 1) \cup {Len(s) + 1}
         /\ e.name # "block_start" =>
              Opened(Append(s, e), Len(s) + 2) = Opened(s, Len(s) + 1)
<1> DEFINE t == Append(s, e)
<1>1. /\ Len(s) \in Nat /\ t[Len(s) + 1] = e
      /\ \A i \in 1 .. Len(s) : t[i] = s[i]
  BY AppendFacts
<1> HIDE DEF t
<1>2. \A i \in 1 .. Len(s) + 1 : Bounds(t, i) = Bounds(s, i) /\ Opened(t, i) = Opened(s, i)
  BY <1>1 DEF Bounds, Opened
<1>3. 1 .. (Len(s) + 2) - 1 = (1 .. (Len(s) + 1) - 1) \cup {Len(s) + 1}
  BY <1>1
<1>4. /\ e.name \in {"block_start", "block_stop"} =>
           Bounds(t, Len(s) + 2) = Bounds(s, Len(s) + 1) \cup {Len(s) + 1}
      /\ e.name \notin {"block_start", "block_stop"} =>
           Bounds(t, Len(s) + 2) = Bounds(s, Len(s) + 1)
  BY <1>1, <1>3 DEF Bounds
<1>5. /\ e.name = "block_start" =>
           Opened(t, Len(s) + 2) = Opened(s, Len(s) + 1) \cup {Len(s) + 1}
      /\ e.name # "block_start" => Opened(t, Len(s) + 2) = Opened(s, Len(s) + 1)
  BY <1>1, <1>3 DEF Opened
<1>6. QED
  BY <1>2, <1>4, <1>5 DEF t

LEMMA AppendOpened ==
  ASSUME NEW s \in Seq(Sendable), NEW e \in Sendable
  PROVE  /\ Cardinality(Opened(s, Len(s) + 1)) \in Nat
         /\ Cardinality(Opened(Append(s, e), Len(s) + 2)) =
              IF e.name = "block_start" THEN Cardinality(Opened(s, Len(s) + 1)) + 1
              ELSE Cardinality(Opened(s, Len(s) + 1))
<1>1. Len(s) \in Nat
  OBVIOUS
<1>2. IsFiniteSet(1 .. (Len(s) + 1) - 1)
  BY <1>1, FS_Interval
<1>3. Opened(s, Len(s) + 1) \subseteq 1 .. (Len(s) + 1) - 1
  BY DEF Opened
<1>4. IsFiniteSet(Opened(s, Len(s) + 1))
  BY <1>2, <1>3, FS_Subset
<1>5. Len(s) + 1 \notin Opened(s, Len(s) + 1)
  BY <1>1, <1>3
<1>6. Cardinality(Opened(s, Len(s) + 1)) \in Nat
  BY <1>4, FS_CardinalityType
<1>7. Cardinality(Opened(s, Len(s) + 1) \cup {Len(s) + 1}) =
        Cardinality(Opened(s, Len(s) + 1)) + 1
  BY <1>4, <1>5, FS_AddElement
<1>8. QED
  BY <1>6, <1>7, AppendBounds

LEMMA AppendOpen ==
  ASSUME NEW s \in Seq(Sendable), NEW e \in Sendable, Scanned(s)
  PROVE  /\ Scanned(Append(s, e))
         /\ \A i \in 1 .. Len(s) : OpenIn(s, i) = None \/ OpenIn(s, i) \in 1 .. Len(s)
         /\ \A i \in 1 .. Len(s) + 1 : OpenIn(Append(s, e), i) = OpenIn(s, i)
         /\ OpenIn(Append(s, e), Len(s) + 2) =
              IF e.name = "block_start" THEN Len(s) + 1
              ELSE IF e.name = "block_stop" THEN None ELSE OpenIn(s, Len(s) + 1)
<1> DEFINE t == Append(s, e)
           n == Len(s) + 1
<1>1. /\ Len(s) \in Nat /\ n \in Nat /\ t[n] = e
      /\ Len(t) = n
      /\ \A i \in 1 .. Len(s) : t[i] = s[i]
  BY AppendFacts
<1>2. /\ \A i \in 1 .. n : Bounds(t, i) = Bounds(s, i)
      /\ e.name \in {"block_start", "block_stop"} => Bounds(t, n + 1) = Bounds(s, n) \cup {n}
      /\ e.name \notin {"block_start", "block_stop"} => Bounds(t, n + 1) = Bounds(s, n)
  BY AppendBounds, <1>1
<1>3. n = Len(s) + 1 /\ n + 1 = Len(s) + 2
  BY <1>1
<1> HIDE DEF t, n
<1>4. /\ n \in 1 .. n
      /\ \A i \in 1 .. n : Bounds(s, i) \subseteq 1 .. i - 1
  BY <1>1, <1>3 DEF Bounds
<1>5. \A i \in 1 .. n : Bounds(s, i) # {} => LastBound(s, i) \in Bounds(s, i)
  BY <1>3 DEF Scanned, LastBound
<1>6. \A i \in 1 .. n : LastBound(t, i) = LastBound(s, i)
  BY <1>2 DEF LastBound
<1>7. \A i \in 1 .. n : OpenIn(t, i) = OpenIn(s, i)
  <2> SUFFICES ASSUME NEW i \in 1 .. n
               PROVE  OpenIn(t, i) = OpenIn(s, i)
    OBVIOUS
  <2>1. CASE Bounds(s, i) = {}
    BY <2>1, <1>2 DEF OpenIn
  <2>2. CASE Bounds(s, i) # {}
    <3>1. LastBound(s, i) \in 1 .. Len(s)
      BY <2>2, <1>1, <1>3, <1>4, <1>5
    <3>2. QED
      BY <2>2, <3>1, <1>1, <1>2, <1>6 DEF OpenIn
  <2>3. QED
    BY <2>1, <2>2
<1>8. ASSUME e.name \in {"block_start", "block_stop"}
      PROVE  OpenIn(t, n + 1) = IF e.name = "block_start" THEN n ELSE None
  <2>1. n \in Bounds(t, n + 1) /\ \A m \in Bounds(t, n + 1) : m <= n
    BY <1>1, <1>2, <1>4, <1>8
  <2>2. LastBound(t, n + 1) = n
    <3>1. \A k \in Bounds(t, n + 1) : (\A m \in Bounds(t, n + 1) : m <= k) => k = n
      BY <2>1, <1>1, <1>2, <1>4
    <3>2. QED
      BY <2>1, <3>1 DEF LastBound
  <2>3. QED
    BY <2>1, <2>2, <1>1, <1>8 DEF OpenIn
<1>9. ASSUME e.name \notin {"block_start", "block_stop"}
      PROVE  OpenIn(t, n + 1) = OpenIn(s, n)
  <2>1. Bounds(t, n + 1) = Bounds(s, n)
    BY <1>2, <1>9
  <2>2. LastBound(t, n + 1) = LastBound(s, n)
    BY <2>1 DEF LastBound
  <2>3. Bounds(s, n) # {} => LastBound(s, n) \in 1 .. Len(s)
    BY <1>1, <1>3, <1>4, <1>5
  <2>4. QED
    BY <2>1, <2>2, <2>3, <1>1 DEF OpenIn
<1>10. Scanned(t)
  <2> SUFFICES ASSUME NEW i \in 1 .. Len(t) + 1, Bounds(t, i) # {}
               PROVE  \E k \in Bounds(t, i) : \A m \in Bounds(t, i) : m <= k
    BY DEF Scanned
  <2>1. i \in 1 .. n \/ i = n + 1
    BY <1>1
  <2>2. CASE i \in 1 .. n
    BY <2>2, <1>2, <1>3 DEF Scanned
  <2>3. CASE i = n + 1 /\ e.name \in {"block_start", "block_stop"}
    <3>1. n \in Bounds(t, i)
      BY <2>3, <1>2
    <3>2. \A m \in Bounds(t, i) : m <= n
      BY <2>3, <1>1, <1>2, <1>4
    <3>3. QED
      BY <3>1, <3>2
  <2>4. CASE i = n + 1 /\ e.name \notin {"block_start", "block_stop"}
    <3>1. Bounds(t, i) = Bounds(s, n) /\ n \in 1 .. Len(s) + 1
      BY <2>4, <1>1, <1>2, <1>3
    <3>2. QED
      BY <3>1 DEF Scanned
  <2>5. QED
    BY <2>1, <2>2, <2>3, <2>4
<1>11. \A i \in 1 .. Len(s) : OpenIn(s, i) = None \/ OpenIn(s, i) \in 1 .. Len(s)
  BY <1>1, <1>3, <1>4, <1>5 DEF OpenIn
<1>12. OpenIn(t, n + 1) = IF e.name = "block_start" THEN n
         ELSE IF e.name = "block_stop" THEN None ELSE OpenIn(s, n)
  BY <1>8, <1>9
<1>13. QED
  BY <1>3, <1>7, <1>10, <1>11, <1>12 DEF t
-----------------------------------------------------------------------------
\* A write is well placed if its own conjunct holds.
LEMMA AppendBlocks ==
  ASSUME NEW s \in Seq(Sendable), NEW e \in Sendable, Scanned(s), BlocksGood(s),
         BlockGood(Append(s, e), Len(s) + 1, OpenIn(s, Len(s) + 1))
  PROVE  BlocksGood(Append(s, e))
<1> DEFINE t == Append(s, e)
<1>1. /\ Len(s) \in Nat /\ DOMAIN t = 1 .. Len(s) + 1 /\ DOMAIN s = 1 .. Len(s)
      /\ \A i \in 1 .. Len(s) : t[i] = s[i]
  BY AppendFacts
<1>2. /\ \A i \in 1 .. Len(s) : OpenIn(s, i) = None \/ OpenIn(s, i) \in 1 .. Len(s)
      /\ \A i \in 1 .. Len(s) + 1 : OpenIn(t, i) = OpenIn(s, i)
  BY AppendOpen
<1>3. \A i \in 1 .. Len(s) + 1 : Opened(t, i) = Opened(s, i)
  BY AppendBounds
<1>4. BlockGood(t, Len(s) + 1, OpenIn(s, Len(s) + 1))
  OBVIOUS
<1> HIDE DEF t
<1>5. ASSUME NEW i \in 1 .. Len(s)
      PROVE  BlockGood(t, i, OpenIn(t, i))
  <2>1. BlockGood(s, i, OpenIn(s, i))
    BY <1>1 DEF BlocksGood
  <2>2. i \in 1 .. Len(s) + 1
    BY <1>1
  <2>3. OpenIn(s, i) # None => t[OpenIn(s, i)] = s[OpenIn(s, i)]
    BY <1>1, <1>2
  <2>4. CASE s[i].name \in {"block_delta"}
    BY <2>1, <2>2, <2>3, <2>4, <1>1, <1>2 DEF BlockGood
  <2>5. CASE s[i].name \notin {"block_delta"}
    BY <2>1, <2>2, <2>3, <2>5, <1>1, <1>2, <1>3 DEF BlockGood
  <2>6. QED
    BY <2>4, <2>5
<1>6. BlocksGood(t)
  BY <1>1, <1>2, <1>4, <1>5 DEF BlocksGood
<1>7. QED
  BY <1>6 DEF t

\* A delta goes to a call that was started; a start takes a new index.
LEMMA AppendCalls ==
  ASSUME NEW s \in Seq(Sendable), NEW e \in Sendable, CallsGood(s),
         e.name \in StartNames =>
           \A k \in DOMAIN s : s[k].name \in StartNames => s[k].index # e.index,
         e.name \in {"tool_delta", "block_delta"} /\ e.call # NoItem =>
           \E k \in DOMAIN s :
             /\ s[k].name \in StartNames /\ s[k].call = e.call /\ s[k].index = e.index
             /\ \A m \in DOMAIN s : s[m].name \in StartNames /\ s[m].index = e.index
                  => m = k
  PROVE  CallsGood(Append(s, e))
<1> DEFINE t == Append(s, e)
           n == Len(s) + 1
<1>1. /\ Len(s) \in Nat /\ n \in Nat /\ DOMAIN t = 1 .. n /\ DOMAIN s = 1 .. Len(s)
      /\ t[n] = e /\ \A i \in 1 .. Len(s) : t[i] = s[i]
  BY AppendFacts
<1>2. /\ \A i \in 1 .. n : i \in 1 .. Len(s) \/ i = n
      /\ \A i \in 1 .. Len(s) : i \in 1 .. n
      /\ n - 1 = Len(s)
  OBVIOUS
<1> HIDE DEF t, n
<1>3. ASSUME NEW i \in 1 .. n, t[i].name \in {"tool_delta", "block_delta"},
             t[i].call # NoItem
      PROVE  \E k \in 1 .. i - 1 :
               /\ t[k].name \in StartNames
               /\ t[k].call = t[i].call /\ t[k].index = t[i].index
               /\ \A m \in 1 .. n : t[m].name \in StartNames /\ t[m].index = t[i].index
                    => m = k
  <2>1. CASE i = n
    <3>1. e.name \notin StartNames
      BY <2>1, <1>1, <1>3 DEF StartNames
    <3>2. PICK k \in 1 .. Len(s) :
             /\ s[k].name \in StartNames /\ s[k].call = e.call /\ s[k].index = e.index
             /\ \A m \in 1 .. Len(s) : s[m].name \in StartNames /\ s[m].index = e.index
                  => m = k
      BY <2>1, <1>1, <1>3
    <3>3. k \in 1 .. i - 1 /\ t[k] = s[k] /\ t[i] = e
      BY <2>1, <1>1, <1>2
    <3>4. \A m \in 1 .. n : t[m].name \in StartNames /\ t[m].index = e.index => m = k
      BY <3>1, <3>2, <1>1, <1>2
    <3>5. QED
      BY <3>2, <3>3, <3>4
  <2>2. CASE i \in 1 .. Len(s)
    <3>1. t[i] = s[i]
      BY <2>2, <1>1
    <3>2. PICK k \in 1 .. i - 1 :
             /\ s[k].name \in StartNames /\ s[k].call = s[i].call /\ s[k].index = s[i].index
             /\ \A m \in 1 .. Len(s) : s[m].name \in StartNames /\ s[m].index = s[i].index
                  => m = k
      BY <2>2, <3>1, <1>1, <1>3 DEF CallsGood
    <3>3. k \in 1 .. Len(s) /\ t[k] = s[k]
      BY <2>2, <1>1
    <3>4. \A m \in 1 .. n : t[m].name \in StartNames /\ t[m].index = s[i].index => m = k
      <4>1. e.name \in StartNames => s[i].index # e.index
        BY <3>2, <3>3, <1>1
      <4>2. QED
        BY <4>1, <3>2, <1>1, <1>2
    <3>5. QED
      BY <3>1, <3>2, <3>3, <3>4
  <2>3. QED
    BY <2>1, <2>2, <1>2
<1>4. CallsGood(t)
  BY <1>1, <1>3 DEF CallsGood
<1>5. QED
  BY <1>4 DEF t

\* A write that is neither the finish nor the end, and opens the answer if it is
\* the first; the end stays last if none has been written.
LEMMA AppendOnce ==
  ASSUME NEW s \in Seq(Sendable), NEW e \in Sendable, NEW o, OnceGood(s, o),
         \A k \in DOMAIN s : k = Len(s) => s[k].name # "finish",
         e.name \notin {"finish", "end"},
         "misnamed" \notin o => (e.name \in {"role", "message_start"} <=> Len(s) = 0),
         "late" \notin o => \A k \in DOMAIN s : s[k].name # "end"
  PROVE  OnceGood(Append(s, e), o)
<1> DEFINE t == Append(s, e)
           n == Len(s) + 1
<1>1. /\ Len(s) \in Nat /\ Len(t) = n /\ DOMAIN t = 1 .. n /\ DOMAIN s = 1 .. Len(s)
      /\ t[n] = e /\ \A i \in 1 .. Len(s) : t[i] = s[i]
  BY AppendFacts
<1>2. /\ n \in Nat /\ n = Len(s) + 1
      /\ \A i \in 1 .. n : i \in 1 .. Len(s) \/ i = n
      /\ \A i \in 1 .. Len(s) : i \in 1 .. n
  BY <1>1
<1> HIDE DEF t, n
<1>3. \A i \in 1 .. n : t[i].name \in {"finish", "end"} => i \in 1 .. Len(s) /\ t[i] = s[i]
  BY <1>1, <1>2
<1>4. \A i, j \in DOMAIN t : t[i].name = "finish" /\ t[j].name = "finish" => i = j
  BY <1>1, <1>3 DEF OnceGood
<1>5. ASSUME NEW i \in DOMAIN t, t[i].name = "end"
      PROVE  i > 1 /\ t[i - 1].name = "finish"
  <2>1. i \in 1 .. Len(s) /\ s[i].name = "end"
    BY <1>1, <1>3, <1>5
  <2>2. i > 1 /\ s[i - 1].name = "finish"
    BY <2>1, <1>1 DEF OnceGood
  <2>3. i - 1 \in 1 .. Len(s)
    BY <2>1, <2>2, <1>1
  <2>4. QED
    BY <2>2, <2>3, <1>1
<1>6. ASSUME NEW i \in DOMAIN t, t[i].name = "finish"
      PROVE  /\ i < Len(t) => t[i + 1].name = "end"
             /\ t[i].kind = "tool" <=>
                  \E k \in 1 .. i - 1 : t[k].name \in StartNames /\ t[k].kind = "tool"
  <2>1. i \in 1 .. Len(s) /\ s[i].name = "finish" /\ t[i] = s[i]
    BY <1>1, <1>3, <1>6
  <2>2. i < Len(s)
    BY <2>1, <1>1
  <2>3. s[i + 1].name = "end"
    BY <2>1, <2>2, <1>1 DEF OnceGood
  <2>4. i + 1 \in 1 .. Len(s)
    BY <2>1, <2>2, <1>1
  <2>5. s[i].kind = "tool" <=>
          \E k \in 1 .. i - 1 : s[k].name \in StartNames /\ s[k].kind = "tool"
    BY <2>1, <1>1 DEF OnceGood
  <2>6. \A k \in 1 .. i - 1 : t[k] = s[k]
    <3>1. \A k \in 1 .. i - 1 : k \in 1 .. Len(s)
      BY <2>1, <1>1
    <3>2. QED
      BY <3>1, <1>1
  <2>7. QED
    BY <2>1, <2>3, <2>4, <2>5, <2>6, <1>1
<1>7. ASSUME "misnamed" \notin o
      PROVE  \A i \in DOMAIN t : t[i].name \in {"role", "message_start"} <=> i = 1
  BY <1>1, <1>2, <1>7 DEF OnceGood
<1>8. ASSUME "late" \notin o
      PROVE  \A i \in DOMAIN t : t[i].name # "end"
  BY <1>1, <1>3, <1>8
<1>9. OnceGood(t, o)
  BY <1>4, <1>5, <1>6, <1>7, <1>8 DEF OnceGood
<1>10. QED
  BY <1>9 DEF t

\* The part of a good answer that was written before a write failed is good.
LEMMA PrefixGood ==
  ASSUME NEW s \in Seq(Sendable), NEW t \in Seq(Sendable), NEW o, Good(s, o),
         Len(t) <= Len(s), \A i \in 1 .. Len(t) : t[i] = s[i]
  PROVE  Good(t, o)
<1>1. /\ Len(s) \in Nat /\ Len(t) \in Nat
      /\ DOMAIN s = 1 .. Len(s) /\ DOMAIN t = 1 .. Len(t)
      /\ \A i \in 1 .. Len(t) : i \in 1 .. Len(s)
      /\ \A i \in 1 .. Len(t) + 1 : i \in 1 .. Len(s) + 1
  OBVIOUS
<1>2. \A i \in 1 .. Len(t) + 1 : Bounds(t, i) = Bounds(s, i) /\ Opened(t, i) = Opened(s, i)
  BY <1>1 DEF Bounds, Opened
<1>3. Scanned(t)
  BY <1>1, <1>2 DEF Scanned, Good
<1>4. ASSUME o \cap {"misnamed", "repeated"} = {}
      PROVE  CallsGood(t)
  <2> SUFFICES ASSUME NEW i \in 1 .. Len(t), t[i].name \in {"tool_delta", "block_delta"},
                      t[i].call # NoItem
               PROVE  \E k \in 1 .. i - 1 :
                        /\ t[k].name \in StartNames
                        /\ t[k].call = t[i].call /\ t[k].index = t[i].index
                        /\ \A m \in 1 .. Len(t) :
                             t[m].name \in StartNames /\ t[m].index = t[i].index => m = k
    BY <1>1 DEF CallsGood
  <2>1. PICK k \in 1 .. i - 1 :
          /\ s[k].name \in StartNames /\ s[k].call = s[i].call /\ s[k].index = s[i].index
          /\ \A m \in 1 .. Len(s) : s[m].name \in StartNames /\ s[m].index = s[i].index
               => m = k
    BY <1>1, <1>4 DEF Good, CallsGood
  <2>2. k \in 1 .. Len(t)
    BY <1>1
  <2>3. QED
    BY <2>1, <2>2, <1>1
<1>5. OnceGood(t, o)
  <2>1. OnceGood(s, o)
    BY DEF Good
  <2>2. \A i, j \in DOMAIN t : t[i].name = "finish" /\ t[j].name = "finish" => i = j
    BY <2>1, <1>1 DEF OnceGood
  <2>3. \A i \in DOMAIN t : t[i].name = "end" => i > 1 /\ t[i - 1].name = "finish"
    <3>1. ASSUME NEW i \in DOMAIN t, t[i].name = "end"
          PROVE  i > 1 /\ t[i - 1].name = "finish"
      <4>1. i > 1 /\ s[i - 1].name = "finish"
        BY <3>1, <2>1, <1>1 DEF OnceGood
      <4>2. i - 1 \in 1 .. Len(t)
        BY <4>1, <1>1
      <4>3. QED
        BY <4>1, <4>2
    <3>2. QED
      BY <3>1
  <2>4. ASSUME NEW i \in DOMAIN t, t[i].name = "finish"
        PROVE  /\ i < Len(t) => t[i + 1].name = "end"
               /\ t[i].kind = "tool" <=>
                    \E k \in 1 .. i - 1 : t[k].name \in StartNames /\ t[k].kind = "tool"
    <3>1. /\ i < Len(s) => s[i + 1].name = "end"
          /\ s[i].kind = "tool" <=>
               \E k \in 1 .. i - 1 : s[k].name \in StartNames /\ s[k].kind = "tool"
      BY <2>1, <2>4, <1>1 DEF OnceGood
    <3>2. /\ i < Len(t) => i < Len(s) /\ i + 1 \in 1 .. Len(t)
          /\ \A k \in 1 .. i - 1 : k \in 1 .. Len(t)
      BY <1>1
    <3>3. QED
      BY <3>1, <3>2, <1>1
  <2>5. "misnamed" \notin o =>
          \A i \in DOMAIN t : t[i].name \in {"role", "message_start"} <=> i = 1
    BY <2>1, <1>1 DEF OnceGood
  <2>6. "late" \notin o => \A i \in DOMAIN t : t[i].name = "end" => i = Len(t)
    BY <2>1, <1>1 DEF OnceGood
  <2>7. QED
    BY <2>2, <2>3, <2>4, <2>5, <2>6 DEF OnceGood
<1>6. ASSUME o \cap {"mixed", "misnamed"} = {}
      PROVE  BlocksGood(t)
  <2>1. \A i \in 1 .. Len(t) : Bounds(s, i) # {} => LastBound(s, i) \in Bounds(s, i)
    BY <1>1 DEF Good, Scanned, LastBound
  <2>2. \A i \in 1 .. Len(t) : LastBound(t, i) = LastBound(s, i)
    BY <1>1, <1>2 DEF LastBound
  <2>3. \A i \in 1 .. Len(t) : Bounds(s, i) # {} => LastBound(s, i) \in 1 .. Len(t)
    BY <2>1, <1>1 DEF Bounds
  <2>4. \A i \in 1 .. Len(t) : OpenIn(t, i) = OpenIn(s, i)
    BY <2>2, <2>3, <1>1, <1>2 DEF OpenIn
  <2>5. \A i \in 1 .. Len(t) : OpenIn(s, i) = None \/ OpenIn(s, i) \in 1 .. Len(t)
    BY <2>3 DEF OpenIn
  <2>6. ASSUME NEW i \in 1 .. Len(t)
        PROVE  BlockGood(t, i, OpenIn(t, i))
    <3>1. BlockGood(s, i, OpenIn(s, i))
      BY <1>1, <1>6 DEF Good, BlocksGood
    <3>2. /\ OpenIn(t, i) = OpenIn(s, i) /\ t[i] = s[i]
          /\ Opened(t, i) = Opened(s, i)
          /\ OpenIn(s, i) # None => t[OpenIn(s, i)] = s[OpenIn(s, i)]
      BY <1>1, <1>2, <2>4, <2>5
    <3>3. CASE s[i].name \in {"block_delta"}
      BY <3>1, <3>2, <3>3 DEF BlockGood
    <3>4. CASE s[i].name \notin {"block_delta"}
      BY <3>1, <3>2, <3>4 DEF BlockGood
    <3>5. QED
      BY <3>3, <3>4
  <2>7. QED
    BY <2>6, <1>1 DEF BlocksGood
<1>7. QED
  BY <1>3, <1>4, <1>5, <1>6 DEF Good
-----------------------------------------------------------------------------
\* What is no start changes nothing of the starts.
LEMMA StartsKept ==
  ASSUME NEW fmt, NEW st, NEW st2, NEW s \in Seq(Sendable), NEW e \in Sendable, NEW o,
         StartsTracked(fmt, s, st, o), e.name \notin StartNames,
         st2.nextBlock = st.nextBlock, st2.hadTool = st.hadTool,
         st2.toolIndexes = st.toolIndexes
  PROVE  StartsTracked(fmt, Append(s, e), st2, o)
<1> DEFINE t == Append(s, e)
<1>1. /\ DOMAIN t = 1 .. Len(s) + 1 /\ DOMAIN s = 1 .. Len(s) /\ Len(s) \in Nat
      /\ t[Len(s) + 1] = e /\ \A i \in 1 .. Len(s) : t[i] = s[i]
  BY AppendFacts
<1> HIDE DEF t
<1>2. Limit(fmt, st2) = Limit(fmt, st)
  BY DEF Limit
<1>3. \A k \in DOMAIN t : t[k].name \in StartNames => k \in DOMAIN s /\ t[k] = s[k]
  BY <1>1
<1>4. \A k \in DOMAIN s : k \in DOMAIN t /\ t[k] = s[k]
  BY <1>1
<1>5. "repeated" \notin o => IndexesTracked(fmt, t, st2)
  BY <1>2, <1>3, <1>4 DEF StartsTracked, IndexesTracked
<1>6. StartsTracked(fmt, t, st2, o)
  BY <1>3, <1>4, <1>5 DEF StartsTracked
<1>7. QED
  BY <1>6 DEF t

\* The first write, and the deltas.
LEMMA TrackPlain ==
  ASSUME NEW fmt, NEW st, NEW st2, NEW s \in Seq(Sendable), NEW e \in Sendable, NEW o,
         Good(s, o), Tracks(fmt, s, st, o),
         e.name \in {"role", "message_start", "delta", "tool_delta", "block_delta"},
         "misnamed" \notin o => (e.name \in {"role", "message_start"} <=> Len(s) = 0),
         "late" \notin o => ~st.finished,
         e.name \in {"tool_delta", "block_delta"} /\ e.call # NoItem
             /\ o \cap {"misnamed", "repeated"} = {} =>
           \E k \in DOMAIN s : /\ s[k].name \in StartNames /\ s[k].kind = "tool"
                              /\ s[k].call = e.call /\ s[k].index = e.index,
         e.name = "block_delta" /\ o \cap {"mixed", "misnamed"} = {} =>
           st.openBlock = e.index /\ st.openBlock # None /\ st.blockKind = e.kind,
         "misnamed" \notin o => st2.started,
         st2.finished = st.finished, st.finished => st2.started,
         st2.openBlock = st.openBlock, st2.blockKind = st.blockKind,
         st2.nextBlock = st.nextBlock, st2.hadTool = st.hadTool,
         st2.toolIndexes = st.toolIndexes
  PROVE  Good(Append(s, e), o) /\ Tracks(fmt, Append(s, e), st2, o)
<1> DEFINE t == Append(s, e)
           b == OpenIn(s, Len(s) + 1)
<1>1. /\ Len(s) \in Nat /\ Len(t) = Len(s) + 1
      /\ DOMAIN t = 1 .. Len(s) + 1 /\ DOMAIN s = 1 .. Len(s)
      /\ t[Len(s) + 1] = e /\ \A i \in 1 .. Len(s) : t[i] = s[i]
  BY AppendFacts
<1>2. /\ Scanned(t) /\ OpenIn(t, Len(s) + 2) = b
  BY AppendOpen DEF Good
<1>3. Cardinality(Opened(t, Len(s) + 2)) = Cardinality(Opened(s, Len(s) + 1))
  BY AppendOpened
<1>4. ASSUME o \cap {"misnamed", "repeated"} = {}
      PROVE  CallsGood(t)
  <2>1. e.name \notin StartNames /\ "repeated" \notin o
    BY <1>4 DEF StartNames
  <2>2. e.name \in {"tool_delta", "block_delta"} /\ e.call # NoItem =>
          \E k \in DOMAIN s :
             /\ s[k].name \in StartNames /\ s[k].call = e.call /\ s[k].index = e.index
             /\ \A m \in DOMAIN s : s[m].name \in StartNames /\ s[m].index = e.index
                  => m = k
    <3>1. SUFFICES ASSUME e.name \in {"tool_delta", "block_delta"} /\ e.call # NoItem
                   PROVE  \E k \in DOMAIN s :
             /\ s[k].name \in StartNames /\ s[k].call = e.call /\ s[k].index = e.index
             /\ \A m \in DOMAIN s : s[m].name \in StartNames /\ s[m].index = e.index
                  => m = k
      OBVIOUS
    <3>2. PICK k \in DOMAIN s : /\ s[k].name \in StartNames /\ s[k].kind = "tool"
                                /\ s[k].call = e.call /\ s[k].index = e.index
      BY <3>1, <1>4
    <3>3. \A m \in DOMAIN s : s[m].name \in StartNames /\ s[m].index = s[k].index => m = k
      BY <3>2, <2>1 DEF Tracks, StartsTracked, IndexesTracked
    <3>4. QED
      BY <3>2, <3>3
  <2>3. CallsGood(s)
    BY <1>4 DEF Good
  <2>4. QED
    BY <2>1, <2>2, <2>3, AppendCalls
<1>5. FinishTracked(s, st) /\ OpenTracked(s, st)
  BY DEF Tracks
<1>6. OnceGood(t, o)
  <2>1. "late" \notin o => \A k \in DOMAIN s : s[k].name # "end"
    BY <1>5 DEF FinishTracked
  <2>2. OnceGood(s, o) /\ \A k \in DOMAIN s : k = Len(s) => s[k].name # "finish"
    BY <1>5 DEF FinishTracked, Good
  <2>3. e.name \notin {"finish", "end"}
    OBVIOUS
  <2>4. QED
    BY <2>1, <2>2, <2>3, AppendOnce
<1> HIDE DEF t, b
<1>7. ASSUME o \cap {"mixed", "misnamed"} = {}
      PROVE  BlocksGood(t)
  <2>1. e.name = "block_delta" => b # None /\ t[b].index = e.index /\ t[b].kind = e.kind
    BY <1>1, <1>5, <1>7 DEF OpenTracked, b
  <2>2. BlockGood(t, Len(s) + 1, b)
    BY <2>1, <1>1 DEF BlockGood
  <2>3. QED
    BY <2>2, <1>7, AppendBlocks DEF Good, t, b
<1>8. Good(t, o)
  BY <1>2, <1>4, <1>6, <1>7 DEF Good
<1>9. OpenTracked(t, st2)
  <2>1. Len(t) + 1 = Len(s) + 2
    BY <1>1
  <2>2. b # None => b \in 1 .. Len(t) /\ t[b] = s[b]
    BY <1>1, <1>5 DEF OpenTracked, b
  <2>3. QED
    BY <2>1, <2>2, <1>2, <1>5 DEF OpenTracked, b
<1>10. e.name \notin StartNames /\ e.name \notin {"finish", "end"}
  BY DEF StartNames
<1>11. StartsTracked(fmt, t, st2, o)
  BY <1>1, <1>10, StartsKept DEF Tracks, t
<1>12. FinishTracked(t, st2)
  BY <1>1, <1>5, <1>10 DEF FinishTracked
<1>13. Tracks(fmt, t, st2, o)
  <2>1. Len(t) + 1 = Len(s) + 2 /\ Len(t) > 0
    BY <1>1
  <2>2. fmt = "chat" => \A k \in DOMAIN t : t[k].name \notin {"block_start", "block_stop"}
    BY <1>1 DEF Tracks
  <2>3. QED
    BY <2>1, <2>2, <1>3, <1>9, <1>11, <1>12 DEF Tracks
<1>14. QED
  BY <1>8, <1>13 DEF t

\* The end of the open block.
LEMMA TrackStop ==
  ASSUME NEW fmt, NEW st, NEW st2, NEW s \in Seq(Sendable), NEW e \in Sendable, NEW o,
         Good(s, o), Tracks(fmt, s, st, o), fmt # "chat",
         "late" \notin o => ~st.finished,
         st.openBlock # None, e.name = "block_stop", e.index = st.openBlock,
         st2.started, st2.finished = st.finished, st2.openBlock = None,
         st2.nextBlock = st.nextBlock, st2.hadTool = st.hadTool,
         st2.toolIndexes = st.toolIndexes
  PROVE  Good(Append(s, e), o) /\ Tracks(fmt, Append(s, e), st2, o)
<1> DEFINE t == Append(s, e)
           b == OpenIn(s, Len(s) + 1)
<1>1. /\ Len(s) \in Nat /\ Len(t) = Len(s) + 1
      /\ DOMAIN t = 1 .. Len(s) + 1 /\ DOMAIN s = 1 .. Len(s)
      /\ t[Len(s) + 1] = e /\ \A i \in 1 .. Len(s) : t[i] = s[i]
  BY AppendFacts
<1>2. /\ Scanned(t) /\ OpenIn(t, Len(s) + 2) = None
  BY AppendOpen DEF Good
<1>3. Cardinality(Opened(t, Len(s) + 2)) = Cardinality(Opened(s, Len(s) + 1))
  BY AppendOpened
<1>4. e.name \notin StartNames /\ e.name \notin {"finish", "end"}
  BY DEF StartNames
<1>5. o \cap {"misnamed", "repeated"} = {} => CallsGood(t)
  BY <1>4, AppendCalls DEF Good
<1>6. OpenTracked(s, st) /\ FinishTracked(s, st)
  BY DEF Tracks
<1>7. b \in 1 .. Len(s) /\ s[b].index = e.index /\ b # None
  BY <1>1, <1>6 DEF OpenTracked, None
<1>8. OnceGood(t, o)
  <2>1. "late" \notin o => \A k \in DOMAIN s : s[k].name # "end"
    BY <1>6 DEF FinishTracked
  <2>2. OnceGood(s, o) /\ \A k \in DOMAIN s : k = Len(s) => s[k].name # "finish"
    BY <1>6 DEF FinishTracked, Good
  <2>3. e.name \notin {"role", "message_start"} /\ Len(s) # 0
    BY <1>1, <1>7
  <2>4. QED
    BY <2>1, <2>2, <2>3, <1>4, AppendOnce
<1> HIDE DEF t, b
<1>9. ASSUME o \cap {"mixed", "misnamed"} = {}
      PROVE  BlocksGood(t)
  <2>1. BlockGood(t, Len(s) + 1, b)
    BY <1>1, <1>7 DEF BlockGood
  <2>2. QED
    BY <2>1, <1>9, AppendBlocks DEF Good, t, b
<1>10. Good(t, o)
  BY <1>2, <1>5, <1>8, <1>9 DEF Good
<1>11. Len(t) + 1 = Len(s) + 2 /\ Len(t) > 0
  BY <1>1
<1>12. OpenTracked(t, st2)
  BY <1>2, <1>11 DEF OpenTracked
<1>13. StartsTracked(fmt, t, st2, o)
  BY <1>4, StartsKept DEF Tracks, t
<1>14. FinishTracked(t, st2)
  BY <1>1, <1>4, <1>6 DEF FinishTracked
<1>15. Tracks(fmt, t, st2, o)
  BY <1>3, <1>11, <1>12, <1>13, <1>14 DEF Tracks
<1>16. QED
  BY <1>10, <1>15 DEF t

\* The start of a block, or of a call of a chat.
LEMMA TrackStart ==
  ASSUME NEW fmt, NEW st, NEW st2, NEW s \in Seq(Sendable), NEW e \in Sendable, NEW o,
         Good(s, o), Tracks(fmt, s, st, o), Len(s) > 0,
         "late" \notin o => ~st.finished,
         e.name = IF fmt = "chat" THEN "tool_start" ELSE "block_start",
         e.index = Limit(fmt, st),
         st.openBlock = None, st2.started, st2.finished = st.finished,
         fmt = "chat" => st2.openBlock = None /\ st2.nextBlock = st.nextBlock,
         fmt # "chat" => /\ st2.openBlock = e.index /\ st2.blockKind = e.kind
                         /\ st2.nextBlock = e.index + 1,
         \/ /\ fmt # "chat" /\ e.kind # "tool" /\ e.call = NoItem
            /\ st2.hadTool = st.hadTool /\ st2.toolIndexes = st.toolIndexes
         \/ /\ e.kind = "tool" /\ ("repeated" \notin o => e.id \notin DOMAIN st.toolIndexes)
            /\ st2.hadTool
            /\ DOMAIN st2.toolIndexes = DOMAIN st.toolIndexes \cup {e.id}
            /\ st2.toolIndexes[e.id] = e.index
            /\ \A d \in DOMAIN st.toolIndexes :
                 d # e.id => st2.toolIndexes[d] = st.toolIndexes[d]
  PROVE  Good(Append(s, e), o) /\ Tracks(fmt, Append(s, e), st2, o)
<1> DEFINE t == Append(s, e)
           n == Len(s) + 1
<1>1. /\ Len(s) \in Nat /\ n \in Nat /\ Len(t) = n /\ Len(t) + 1 = Len(s) + 2
      /\ DOMAIN t = 1 .. n /\ DOMAIN s = 1 .. Len(s)
      /\ t[n] = e /\ \A i \in 1 .. Len(s) : t[i] = s[i]
  BY AppendFacts
<1>2. OpenTracked(s, st) /\ StartsTracked(fmt, s, st, o) /\ FinishTracked(s, st)
  BY DEF Tracks
<1>3. OpenIn(s, n) = None
  BY <1>1, <1>2 DEF OpenTracked, None
<1>4. /\ Scanned(t)
      /\ OpenIn(t, Len(s) + 2) = IF fmt = "chat" THEN None ELSE n
  BY <1>3, AppendOpen DEF Good
<1>5. Limit(fmt, st) \in Nat
  BY <1>2, FS_CardinalityType DEF Limit, StartsTracked, Tracks
<1>6. ASSUME "repeated" \notin o
      PROVE  Limit(fmt, st2) \in Nat /\ Limit(fmt, st2) >= Limit(fmt, st)
             /\ (e.name \in StartNames => Limit(fmt, st2) = e.index + 1)
  <2>1. CASE fmt = "chat"
    <3>1. IsFiniteSet(DOMAIN st.toolIndexes)
      BY <1>2 DEF StartsTracked
    <3>2. Cardinality(DOMAIN st2.toolIndexes) = Cardinality(DOMAIN st.toolIndexes) + 1
      BY <2>1, <3>1, <1>6, FS_AddElement
    <3>3. QED
      BY <2>1, <3>2, <1>5 DEF Limit
  <2>2. CASE fmt # "chat"
    BY <2>2, <1>5 DEF Limit
  <2>3. QED
    BY <2>1, <2>2
<1>7. e.name \in StartNames /\ e.name \notin {"role", "message_start", "finish", "end"}
  BY DEF StartNames
<1>8. "repeated" \notin o =>
        \A k \in DOMAIN s : s[k].name \in StartNames => s[k].index # e.index
  BY <1>2, <1>5 DEF StartsTracked, IndexesTracked
<1>9. ASSUME o \cap {"misnamed", "repeated"} = {}
      PROVE  CallsGood(t)
  <2>1. e.name \notin {"tool_delta", "block_delta"} /\ "repeated" \notin o
    BY <1>9
  <2>2. CallsGood(s)
    BY <1>9 DEF Good
  <2>3. QED
    BY <1>8, <2>1, <2>2, AppendCalls
<1>10. OnceGood(t, o)
  <2>1. "late" \notin o => \A k \in DOMAIN s : s[k].name # "end"
    BY <1>2 DEF FinishTracked
  <2>2. OnceGood(s, o) /\ \A k \in DOMAIN s : k = Len(s) => s[k].name # "finish"
    BY <1>2 DEF FinishTracked, Good
  <2>3. Len(s) # 0
    BY <1>1
  <2>4. QED
    BY <2>1, <2>2, <2>3, <1>7, AppendOnce
<1>11. /\ Cardinality(Opened(s, n)) = st.nextBlock /\ st.nextBlock \in Nat
       /\ Cardinality(Opened(t, Len(s) + 2)) =
            IF fmt = "chat" THEN st.nextBlock ELSE st.nextBlock + 1
  BY AppendOpened DEF Tracks
<1>12. Opened(t, n) = Opened(s, n)
  BY <1>1, AppendBounds
<1> HIDE DEF t, n
<1>13. ASSUME o \cap {"mixed", "misnamed"} = {}
       PROVE  BlocksGood(t)
  <2>1. BlockGood(t, n, None)
    BY <1>1, <1>11, <1>12 DEF BlockGood, Limit
  <2>2. QED
    BY <2>1, <1>3, <1>13, AppendBlocks DEF Good, t, n
<1>14. Good(t, o)
  BY <1>4, <1>9, <1>10, <1>13 DEF Good
<1>15. OpenTracked(t, st2)
  BY <1>1, <1>4, <1>5 DEF OpenTracked, None
<1>16. /\ \A k \in DOMAIN t : (k \in DOMAIN s /\ t[k] = s[k]) \/ (k = n /\ t[k] = e)
       /\ \A k \in DOMAIN s : k \in DOMAIN t /\ t[k] = s[k]
  BY <1>1 DEF n
<1>17. StartsTracked(fmt, t, st2, o)
  <2>1. ASSUME "repeated" \notin o, NEW k \in DOMAIN t, t[k].name \in StartNames
        PROVE  /\ t[k].index \in 0 .. Limit(fmt, st2) - 1
               /\ \A m \in DOMAIN t :
                    t[m].name \in StartNames /\ t[m].index = t[k].index => m = k
               /\ t[k].kind = "tool" => /\ t[k].id \in DOMAIN st2.toolIndexes
                                        /\ st2.toolIndexes[t[k].id] = t[k].index
    <3>1. IndexesTracked(fmt, s, st)
      BY <2>1, <1>2 DEF StartsTracked
    <3>2. t[k].index \in 0 .. Limit(fmt, st2) - 1
      <4>1. CASE k \in DOMAIN s /\ t[k] = s[k]
        <5>1. t[k].index \in 0 .. Limit(fmt, st) - 1
          BY <2>1, <3>1, <4>1 DEF IndexesTracked
        <5>2. QED
          BY <5>1, <2>1, <1>5, <1>6
      <4>2. CASE t[k] = e
        BY <4>2, <2>1, <1>5, <1>6, <1>7
      <4>3. QED
        BY <4>1, <4>2, <1>16
    <3>3. \A m \in DOMAIN t :
            t[m].name \in StartNames /\ t[m].index = t[k].index => m = k
      BY <2>1, <3>1, <1>8, <1>16 DEF IndexesTracked
    <3>4. ASSUME t[k].kind = "tool"
          PROVE  /\ t[k].id \in DOMAIN st2.toolIndexes
                 /\ st2.toolIndexes[t[k].id] = t[k].index
      <4>1. CASE k \in DOMAIN s /\ t[k] = s[k]
        <5>1. t[k].id \in DOMAIN st.toolIndexes /\ st.toolIndexes[t[k].id] = t[k].index
          BY <2>1, <3>1, <3>4, <4>1 DEF IndexesTracked
        <5>2. QED
          BY <5>1, <2>1
      <4>2. CASE t[k] = e
        BY <3>4, <4>2
      <4>3. QED
        BY <4>1, <4>2, <1>16
    <3>5. QED
      BY <3>2, <3>3, <3>4
  <2>2. "repeated" \notin o => IndexesTracked(fmt, t, st2)
    BY <2>1 DEF IndexesTracked
  <2>3. IsFiniteSet(DOMAIN st2.toolIndexes)
    <3>1. IsFiniteSet(DOMAIN st.toolIndexes)
      BY <1>2 DEF StartsTracked
    <3>2. IsFiniteSet(DOMAIN st.toolIndexes \cup {e.id})
      BY <3>1, FS_AddElement
    <3>3. QED
      BY <3>1, <3>2
  <2>4. \A k \in DOMAIN t : t[k].name \in StartNames /\ t[k].call # NoItem => t[k].kind = "tool"
    BY <1>2, <1>16 DEF StartsTracked
  <2>5. st2.hadTool <=> \E k \in DOMAIN t : t[k].name \in StartNames /\ t[k].kind = "tool"
    <3>1. CASE e.kind = "tool"
      BY <3>1, <1>1, <1>7, <1>16
    <3>2. CASE e.kind # "tool"
      BY <3>2, <1>2, <1>16 DEF StartsTracked
    <3>3. QED
      BY <3>1, <3>2
  <2>6. QED
    BY <2>2, <2>3, <2>4, <2>5 DEF StartsTracked
<1>18. fmt = "chat" => \A k \in DOMAIN t : t[k].name \notin {"block_start", "block_stop"}
  BY <1>7, <1>16 DEF Tracks
<1>19. FinishTracked(t, st2)
  BY <1>1, <1>2, <1>7, <1>16 DEF FinishTracked
<1>20. st2.nextBlock \in Nat /\ st2.nextBlock = Cardinality(Opened(t, Len(t) + 1))
  BY <1>1, <1>11 DEF Limit
<1>21. Tracks(fmt, t, st2, o)
  BY <1>1, <1>15, <1>17, <1>18, <1>19, <1>20 DEF Tracks
<1>22. QED
  BY <1>14, <1>21 DEF t

\* The two writes that end an answer whose blocks are closed.
LEMMA FinishGood ==
  ASSUME NEW fmt, NEW st, NEW st2, NEW s \in Seq(Sendable), NEW f \in Sendable,
         NEW g \in Sendable, NEW o,
         Good(s, o), Tracks(fmt, s, st, o), Len(s) > 0, st.openBlock = None, ~st.finished,
         f.name = "finish", f.kind = "tool" <=> st.hadTool, g.name = "end",
         st2.started, st2.finished, st2.openBlock = None,
         st2.nextBlock = st.nextBlock, st2.hadTool = st.hadTool,
         st2.toolIndexes = st.toolIndexes
  PROVE  /\ Append(Append(s, f), g) \in Seq(Sendable)
         /\ Good(Append(Append(s, f), g), o)
         /\ Tracks(fmt, Append(Append(s, f), g), st2, o)
<1> DEFINE t == Append(s, f)
           u == Append(t, g)
           n == Len(s)
<1>1. /\ n \in Nat /\ Len(t) = n + 1 /\ t \in Seq(Sendable)
      /\ DOMAIN t = 1 .. n + 1 /\ DOMAIN s = 1 .. n
      /\ t[n + 1] = f /\ \A i \in 1 .. n : t[i] = s[i]
  BY AppendFacts
<1> HIDE DEF t
<1>2. /\ Len(u) = n + 2 /\ u \in Seq(Sendable)
      /\ DOMAIN u = 1 .. n + 2
      /\ u[n + 2] = g /\ \A i \in 1 .. n + 1 : u[i] = t[i]
  BY <1>1, AppendFacts
<1>3. u[n + 1] = f /\ \A i \in 1 .. n : u[i] = s[i]
  BY <1>1, <1>2
<1>4. OpenIn(s, n + 1) = None
  BY <1>1 DEF Tracks, OpenTracked, None
<1>5. Scanned(t) /\ OpenIn(t, n + 2) = None
  BY <1>1, <1>4, AppendOpen DEF Good, t
<1>6. Scanned(u) /\ OpenIn(u, n + 3) = None
  BY <1>1, <1>5, AppendOpen
<1>7. f.name \notin StartNames /\ g.name \notin StartNames
  BY DEF StartNames
<1>8. ASSUME o \cap {"misnamed", "repeated"} = {}
      PROVE  CallsGood(u)
  <2>1. CallsGood(s)
    BY <1>8 DEF Good
  <2>2. CallsGood(t)
    BY <2>1, <1>7, AppendCalls DEF t
  <2>3. QED
    BY <2>2, <1>1, <1>7, AppendCalls
<1>9. ASSUME o \cap {"mixed", "misnamed"} = {}
      PROVE  BlocksGood(u)
  <2>1. BlockGood(t, n + 1, None)
    BY <1>1 DEF BlockGood
  <2>2. BlocksGood(t)
    BY <2>1, <1>1, <1>4, <1>9, AppendBlocks DEF Good, t
  <2>3. BlockGood(u, Len(t) + 1, OpenIn(t, Len(t) + 1))
    BY <1>1, <1>2, <1>5 DEF BlockGood
  <2>4. QED
    BY <2>2, <2>3, <1>1, <1>5, AppendBlocks
<1>10. Cardinality(Opened(u, n + 3)) = Cardinality(Opened(s, n + 1))
  <2>1. Cardinality(Opened(t, n + 2)) = Cardinality(Opened(s, n + 1))
    BY AppendOpened DEF t
  <2>2. Cardinality(Opened(u, Len(t) + 2)) = Cardinality(Opened(t, Len(t) + 1))
    BY <1>1, AppendOpened
  <2>3. Len(t) + 2 = n + 3 /\ Len(t) + 1 = n + 2
    BY <1>1
  <2>4. QED
    BY <2>1, <2>2, <2>3
<1>11. StartsTracked(fmt, u, st2, o)
  <2>1. StartsTracked(fmt, t, st2, o)
    BY <1>7, StartsKept DEF Tracks, t
  <2>2. QED
    BY <2>1, <1>1, <1>7, StartsKept
<1> HIDE DEF u, n
<1>12. \A k \in 1 .. n : s[k].name \notin {"finish", "end"}
  BY <1>1 DEF Tracks, FinishTracked
<1>13. /\ \A i \in 1 .. n + 2 : i \in 1 .. n \/ i = n + 1 \/ i = n + 2
       /\ \A i \in 1 .. n : i \in 1 .. n + 2 /\ n > 0
       /\ (n + 2) - 1 = n + 1 /\ n + 1 # n + 2 /\ 1 \in 1 .. n /\ n + 2 > 1
       /\ (n + 1) + 1 = n + 2 /\ n + 1 \in 1 .. n + 2 /\ n + 2 \in 1 .. n + 2
  BY <1>1 DEF n
<1>14. OnceGood(u, o)
  <2>1. OnceGood(s, o)
    BY DEF Good
  <2>2. "misnamed" \notin o =>
          \A i \in DOMAIN u : u[i].name \in {"role", "message_start"} <=> i = 1
    <3>1. "misnamed" \notin o =>
            \A i \in 1 .. n : s[i].name \in {"role", "message_start"} <=> i = 1
      BY <2>1, <1>1 DEF OnceGood
    <3>2. n + 1 # 1 /\ n + 2 # 1
      BY <1>1, <1>13
    <3>3. QED
      BY <3>1, <3>2, <1>2, <1>3, <1>13
  <2>3. \A i \in DOMAIN u : u[i].name = "end" =>
          i = Len(u) /\ i > 1 /\ u[i - 1].name = "finish"
    BY <1>2, <1>3, <1>12, <1>13
  <2>4. f.kind = "tool" <=> \E k \in 1 .. (n + 1) - 1 :
                              u[k].name \in StartNames /\ u[k].kind = "tool"
    BY <1>1, <1>3, <1>13 DEF Tracks, StartsTracked
  <2>5. \A i \in DOMAIN u : u[i].name = "finish" => i = n + 1
    BY <1>2, <1>3, <1>12, <1>13
  <2>6. u[(n + 1) + 1].name = "end"
    BY <1>2, <1>13
  <2>7. QED
    BY <2>2, <2>3, <2>4, <2>5, <2>6, <1>3 DEF OnceGood
<1>15. Good(u, o)
  BY <1>6, <1>8, <1>9, <1>14 DEF Good
<1>16. Tracks(fmt, u, st2, o)
  <2>1. Len(u) + 1 = n + 3 /\ Len(u) > 0
    BY <1>1, <1>2
  <2>2. OpenTracked(u, st2)
    BY <2>1, <1>6 DEF OpenTracked
  <2>3. fmt = "chat" => \A k \in DOMAIN u : u[k].name \notin {"block_start", "block_stop"}
    BY <1>1, <1>2, <1>3, <1>13 DEF Tracks
  <2>4. FinishTracked(u, st2)
    BY <1>2, <1>13 DEF FinishTracked
  <2>5. st2.nextBlock \in Nat /\ st2.nextBlock = Cardinality(Opened(u, Len(u) + 1))
    BY <2>1, <1>10 DEF Tracks, n
  <2>6. QED
    BY <2>1, <2>2, <2>3, <2>4, <2>5, <1>11 DEF Tracks
<1>17. QED
  BY <1>2, <1>15, <1>16 DEF u, t
-----------------------------------------------------------------------------
StateType ==
  [started : BOOLEAN, finished : BOOLEAN, hadTool : BOOLEAN, openBlock : Int,
   blockKind : {"", "text", "thinking", "tool"}, nextBlock : Nat,
   toolIndexes : UNION {[called -> Nat] : called \in SUBSET SendableIds}]

\* The call whose item is current has the open block, under the id that its
\* start announced.
ItemOpen ==
  format = "anthropic" /\ item # NoItem =>
    \A k \in DOMAIN sent : Announces(k, item) =>
      /\ sent[k].id \in DOMAIN state.toolIndexes
      /\ state.openBlock = state.toolIndexes[sent[k].id] /\ state.blockKind = "tool"

IInv ==
  /\ TypeOK
  /\ state \in StateType
  /\ sent \in Seq(Sendable)
  /\ format = "anthropic" => state.started
  /\ Good(sent, odd)
  /\ phase = "reading" => Tracks(format, sent, state, odd) /\ ItemOpen
  /\ phase = "ended" => \E k \in DOMAIN sent : sent[k].name = "end"

LEMMA Elements ==
  ASSUME NEW s \in Seq(Sendable), NEW i \in DOMAIN s
  PROVE  s[i] \in Sendable
OBVIOUS

LEMMA Joins ==
  ASSUME NEW s \in Seq(Sendable), NEW w \in Seq(Sendable),
         NEW a \in Sendable, NEW b \in Sendable
  PROVE  /\ s \o w \in Seq(Sendable)
         /\ <<a>> \in Seq(Sendable) /\ s \o <<a>> = Append(s, a)
         /\ s \o <<>> = s /\ <<>> \in Seq(Sendable)
         /\ Append(w, a) \in Seq(Sendable) /\ s \o Append(w, a) = Append(s \o w, a)
         /\ w \o <<a, b>> \in Seq(Sendable)
         /\ s \o (w \o <<a, b>>) = Append(Append(s \o w, a), b)
OBVIOUS

LEMMA PrefixFacts ==
  ASSUME NEW s \in Seq(Sendable), NEW w \in Seq(Sendable), NEW n \in 0 .. Len(w) - 1
  PROVE  /\ s \o SubSeq(w, 1, n) \in Seq(Sendable)
         /\ Len(s \o SubSeq(w, 1, n)) <= Len(s \o w)
         /\ \A i \in 1 .. Len(s \o SubSeq(w, 1, n)) :
              (s \o SubSeq(w, 1, n))[i] = (s \o w)[i]
OBVIOUS

\* What is good and tracked stays so when the upstream gets odder.
LEMMA OddGrows ==
  ASSUME NEW fmt, NEW s, NEW st, NEW o, NEW o2, o \subseteq o2,
         Good(s, o)
  PROVE  Good(s, o2) /\ (Tracks(fmt, s, st, o) => Tracks(fmt, s, st, o2))
<1>1. /\ o2 \cap {"misnamed", "repeated"} = {} => o \cap {"misnamed", "repeated"} = {}
      /\ o2 \cap {"mixed", "misnamed"} = {} => o \cap {"mixed", "misnamed"} = {}
      /\ \A x : x \notin o2 => x \notin o
  OBVIOUS
<1>2. OnceGood(s, o2)
  BY <1>1 DEF Good, OnceGood
<1>3. Good(s, o2)
  BY <1>1, <1>2 DEF Good
<1>4. ASSUME Tracks(fmt, s, st, o)
      PROVE  Tracks(fmt, s, st, o2)
  BY <1>1, <1>4 DEF Tracks, StartsTracked
<1>5. QED
  BY <1>3, <1>4

\* However far the writes get, what was written is good.
LEMMA WriteGood ==
  ASSUME NEW w \in Seq(Sendable), NEW after, NEW o, sent \in Seq(Sendable),
         Good(sent \o w, o), Write(w, after)
  PROVE  /\ sent' \in Seq(Sendable) /\ Good(sent', o)
         /\ \/ phase' = "broken"
            \/ phase' = after /\ sent' = sent \o w
<1>1. sent \o w \in Seq(Sendable)
  OBVIOUS
<1>2. CASE sent' = sent \o w /\ phase' = after
  BY <1>1, <1>2
<1>3. ASSUME NEW n \in 0 .. Len(w) - 1,
             sent' = sent \o SubSeq(w, 1, n) /\ phase' = "broken"
      PROVE  sent' \in Seq(Sendable) /\ Good(sent', o) /\ phase' = "broken"
  <2>1. sent' \in Seq(Sendable)
    BY <1>3, PrefixFacts
  <2>2. Len(sent') <= Len(sent \o w) /\ \A i \in 1 .. Len(sent') : sent'[i] = (sent \o w)[i]
    BY <1>3, PrefixFacts
  <2>3. QED
    BY <2>1, <2>2, <1>1, <1>3, PrefixGood
<1>4. QED
  BY <1>2, <1>3 DEF Write

LEMMA StateTypeOK ==
  ASSUME NEW st \in StateType
  PROVE  \A id \in DOMAIN st.toolIndexes : st.toolIndexes[id] \in Nat
<1>1. st.toolIndexes \in UNION {[called -> Nat] : called \in SUBSET SendableIds}
  BY DEF StateType
<1>2. PICK called \in SUBSET SendableIds : st.toolIndexes \in [called -> Nat]
  BY <1>1
<1>3. QED
  BY <1>2

\* The end of the proof that an event, or the end of the stream, keeps the
\* invariant.
LEMMA EventDone ==
  ASSUME IInv, NEW w \in Seq(Sendable), NEW after \in {"reading", "ended"}, Write(w, after),
         Good(sent \o w, odd'), Tracks(format, sent \o w, state', odd'),
         sent' = sent \o w => ItemOpen',
         after = "ended" => state'.finished,
         state' \in StateType, state'.started \/ format # "anthropic",
         state'.openBlock \in {None} \cup 0 .. state'.nextBlock - 1,
         state'.blockKind = "" <=> state'.openBlock = None,
         UNCHANGED format, item' \in Calls \cup {NoItem}, events' \in 0 .. MaxEvents,
         odd' \subseteq Oddities
  PROVE  IInv'
<1>1. /\ sent' \in Seq(Sendable) /\ Good(sent', odd')
      /\ phase' = "broken" \/ (phase' = after /\ sent' = sent \o w)
  BY WriteGood DEF IInv
<1>2. \A c \in DOMAIN state'.toolIndexes : state'.toolIndexes[c] \in Nat
  BY StateTypeOK
<1>3. \A i \in DOMAIN sent' : sent'[i].name \in Names
  <2>1. \A i \in DOMAIN sent' : sent'[i] \in Sendable
    BY <1>1, Elements
  <2>2. QED
    BY <2>1 DEF Sendable
<1>4. TypeOK'
  BY <1>1, <1>2, <1>3 DEF TypeOK, IInv, StateType
<1>5. state'.finished => \E k \in DOMAIN (sent \o w) : (sent \o w)[k].name = "end"
  BY DEF Tracks, FinishTracked
<1>6. QED
  BY <1>1, <1>4, <1>5 DEF IInv
-----------------------------------------------------------------------------
LEMMA EventTypes ==
  /\ Role \in Sendable
  /\ \A i \in Int : BlockStop(i) \in Sendable
  /\ \A name \in Names, i \in Int, c \in Calls \cup {NoItem},
        kind \in {"", "text", "thinking", "tool", "length", "stop"} :
        Event(name, i, kind, c) \in Sendable
  /\ \A name \in Names, i \in Int, c \in Calls, id \in SendableIds :
        ToolStart(name, i, c, id) \in Sendable
  /\ None \in Int
BY DEF Role, BlockStop, Event, ToolStart, Sendable, SendableIds, Names, None

\* startTool's choice of an id.
LEMMA ToolIdType ==
  ASSUME NEW c \in Calls, state.nextBlock \in Nat
  PROVE  ToolId(c) \in SendableIds
<1>1. Ids[c].id \in SendableIds /\ Ids[c].call_id \in SendableIds
  BY DEF SendableIds
<1>2. <<"call", state.nextBlock>> \in NumberedIds
  BY DEF NumberedIds
<1>3. <<"call", state.nextBlock>> \in SendableIds
  BY <1>2 DEF SendableIds
<1>4. QED
  BY <1>1, <1>3 DEF ToolId, First

LEMMA ChatClosed ==
  ASSUME NEW s \in Seq(Sendable), NEW st, NEW o, Tracks("chat", s, st, o)
  PROVE  st.openBlock = None
<1>1. Bounds(s, Len(s) + 1) = {}
  BY DEF Tracks, Bounds
<1>2. QED
  BY <1>1 DEF OpenIn, Tracks, OpenTracked

\* ensureChatStart leaves an answer that has begun.
LEMMA ChatOpened ==
  ASSUME IInv, phase = "reading", format = "chat", NEW o,
         Good(sent, o), Tracks(format, sent, state, o),
         NEW st2, st2 = [state EXCEPT !.started = TRUE]
  PROVE  /\ EnsureChatStart \in Seq(Sendable)
         /\ Good(sent \o EnsureChatStart, o) /\ Len(sent \o EnsureChatStart) > 0
         /\ Tracks(format, sent \o EnsureChatStart, st2, o)
<1>1. /\ st2.started /\ st2.finished = state.finished /\ st2.openBlock = state.openBlock
      /\ st2.blockKind = state.blockKind /\ st2.nextBlock = state.nextBlock
      /\ st2.hadTool = state.hadTool /\ st2.toolIndexes = state.toolIndexes
  BY DEF IInv, StateType
<1>2. sent \in Seq(Sendable)
  BY DEF IInv
<1>3. CASE state.started
  <2>1. st2 = state
    BY <1>3 DEF IInv, StateType
  <2>2. sent \o EnsureChatStart = sent /\ EnsureChatStart = <<>>
    BY <1>2, <1>3 DEF EnsureChatStart
  <2>3. Len(sent) > 0
    BY <1>2, <1>3 DEF Tracks
  <2>4. EnsureChatStart \in Seq(Sendable)
    BY <2>2
  <2>5. QED
    BY <2>1, <2>2, <2>3, <2>4, <1>2
<1>4. CASE ~state.started
  <2>1. ("misnamed" \notin o => Len(sent) = 0) /\ ~state.finished
    BY <1>2, <1>4 DEF Tracks, FinishTracked
  <2>2. EnsureChatStart = <<Role>> /\ Role \in Sendable
    BY <1>4, EventTypes DEF EnsureChatStart
  <2>3. sent \o EnsureChatStart = Append(sent, Role)
    BY <2>2, <1>2
  <2>4. Role.name = "role"
    BY DEF Role, Event
  <2>5. Good(Append(sent, Role), o) /\ Tracks(format, Append(sent, Role), st2, o)
    BY <2>1, <2>2, <2>4, <1>1, <1>2, TrackPlain
  <2>6. Len(Append(sent, Role)) > 0
    BY <2>2, <1>2
  <2>7. EnsureChatStart \in Seq(Sendable)
    BY <2>2
  <2>8. QED
    BY <2>3, <2>5, <2>6, <2>7
<1>5. QED
  BY <1>3, <1>4

\* closeBlock leaves no block open, and starts none.
LEMMA BlockClosed ==
  ASSUME IInv, phase = "reading", format = "anthropic", NEW o,
         Good(sent, o), Tracks(format, sent, state, o), "late" \notin o => ~state.finished,
         NEW st2, st2 = [state EXCEPT !.openBlock = None]
  PROVE  /\ CloseBlock \in Seq(Sendable)
         /\ Good(sent \o CloseBlock, o) /\ Len(sent \o CloseBlock) > 0
         /\ Tracks(format, sent \o CloseBlock, st2, o)
         /\ \A k \in DOMAIN (sent \o CloseBlock) :
              (sent \o CloseBlock)[k].name \in StartNames =>
                k \in DOMAIN sent /\ (sent \o CloseBlock)[k] = sent[k]
<1>1. /\ st2.started /\ st2.openBlock = None /\ st2.nextBlock = state.nextBlock
      /\ st2.blockKind = state.blockKind /\ st2.finished = state.finished
      /\ st2.hadTool = state.hadTool /\ st2.toolIndexes = state.toolIndexes
  BY DEF IInv, StateType
<1>2. sent \in Seq(Sendable)
  BY DEF IInv
<1>3. Len(sent) > 0
  BY <1>2 DEF IInv, Tracks
<1>4. CASE state.openBlock = None
  <2>1. st2 = state
    BY <1>4 DEF IInv, StateType
  <2>2. sent \o CloseBlock = sent /\ CloseBlock = <<>>
    BY <1>2, <1>4 DEF CloseBlock
  <2>3. QED
    BY <2>1, <2>2, <1>2, <1>3
<1>5. CASE state.openBlock # None
  <2> DEFINE e == BlockStop(state.openBlock)
  <2>1. CloseBlock = <<e>> /\ e \in Sendable
    BY <1>5, EventTypes DEF CloseBlock, IInv, StateType
  <2>2. sent \o CloseBlock = Append(sent, e)
    BY <2>1, <1>2
  <2>3. e.name = "block_stop" /\ e.index = state.openBlock
    BY DEF BlockStop, Event
  <2> HIDE DEF e
  <2>4. Good(Append(sent, e), o) /\ Tracks(format, Append(sent, e), st2, o)
    BY <2>1, <2>3, <1>1, <1>2, <1>5, TrackStop
  <2>5. Len(Append(sent, e)) > 0
    BY <2>1, <1>2, <1>3
  <2>6. CloseBlock \in Seq(Sendable)
    BY <2>1
  <2>7. \A k \in DOMAIN Append(sent, e) : Append(sent, e)[k].name \in StartNames =>
          k \in DOMAIN sent /\ Append(sent, e)[k] = sent[k]
    BY <2>1, <2>3, <1>2, AppendFacts DEF StartNames
  <2>8. QED
    BY <2>2, <2>4, <2>5, <2>6, <2>7
<1>6. QED
  BY <1>4, <1>5
-----------------------------------------------------------------------------
LEMMA ReadFacts ==
  ASSUME IInv, NEW c \in Calls \cup {NoItem}, NEW os \in SUBSET Oddities, Read(c, os)
  PROVE  /\ phase = "reading" /\ sent \in Seq(Sendable)
         /\ Good(sent, odd') /\ Tracks(format, sent, state, odd')
         /\ state \in StateType /\ ItemOpen
         /\ UNCHANGED format /\ item' = c /\ item' \in Calls \cup {NoItem}
         /\ events' \in 0 .. MaxEvents /\ odd' \subseteq Oddities /\ os \subseteq odd'
<1>1. /\ phase = "reading" /\ events < MaxEvents /\ odd' = odd \cup os
      /\ events' = events + 1 /\ item' = c /\ UNCHANGED format
  BY DEF Read
<1>2. events' \in 0 .. MaxEvents
  <2>1. MaxEvents \in Nat /\ events \in 0 .. MaxEvents
    BY StreamAssumption DEF IInv, TypeOK
  <2>2. QED
    BY <2>1, <1>1
<1>3. /\ Good(sent, odd) /\ Tracks(format, sent, state, odd) /\ sent \in Seq(Sendable)
      /\ state \in StateType /\ ItemOpen /\ odd \subseteq Oddities
  BY <1>1 DEF IInv, TypeOK
<1>4. Good(sent, odd') /\ Tracks(format, sent, state, odd')
  BY <1>1, <1>3, OddGrows
<1>5. QED
  BY <1>1, <1>2, <1>3, <1>4

\* The oddities that an event may add, and what "late" tells.
LEMMA OddityFacts ==
  /\ {} \in SUBSET Oddities /\ Late \in SUBSET Oddities
  /\ \A name \in Oddities, holds \in BOOLEAN :
       /\ Oddity(name, holds) \in SUBSET Oddities
       /\ holds <=> name \in Oddity(name, holds)
  /\ \A os : Late \subseteq os /\ "late" \notin os => ~state.finished
BY DEF Late, Oddity, Oddities

\* A write that starts no call leaves the block of the current item open.
LEMMA ItemKept ==
  ASSUME IInv, phase = "reading", UNCHANGED <<format, item>>,
         state'.openBlock = state.openBlock, state'.blockKind = state.blockKind,
         state'.toolIndexes = state.toolIndexes,
         \A k \in DOMAIN sent' : sent'[k].name \in StartNames =>
           k \in DOMAIN sent /\ sent'[k] = sent[k]
  PROVE  ItemOpen'
<1>1. ItemOpen
  BY DEF IInv
<1>2. \A k \in DOMAIN sent' : Announces(k, item)' =>
        k \in DOMAIN sent /\ Announces(k, item) /\ sent'[k] = sent[k]
  BY DEF Announces, StartNames
<1>3. QED
  BY <1>1, <1>2 DEF ItemOpen
-----------------------------------------------------------------------------
LEMMA CreatedStep == ASSUME IInv, Created PROVE IInv'
<1>1. Read(item, {}) /\ item \in Calls \cup {NoItem}
  BY DEF Created, IInv, TypeOK
<1>2. /\ phase = "reading" /\ Good(sent, odd') /\ Tracks(format, sent, state, odd')
      /\ sent \in Seq(Sendable) /\ state \in StateType
      /\ UNCHANGED <<format, item>> /\ events' \in 0 .. MaxEvents
      /\ item' \in Calls \cup {NoItem} /\ odd' \subseteq Oddities
  BY <1>1, ReadFacts, OddityFacts
<1>3. state' = [state EXCEPT !.started = TRUE] /\ state' \in StateType /\ state'.started
  BY <1>2 DEF Created, StateType
<1>4. /\ state'.openBlock = state.openBlock /\ state'.blockKind = state.blockKind
      /\ state'.nextBlock = state.nextBlock /\ state'.toolIndexes = state.toolIndexes
  BY <1>2, <1>3 DEF StateType
<1>5. /\ state'.openBlock \in {None} \cup 0 .. state'.nextBlock - 1
      /\ state'.blockKind = "" <=> state'.openBlock = None
  BY <1>4 DEF IInv, TypeOK
<1>6. CASE format = "chat"
  <2>1. Write(EnsureChatStart, "reading")
    BY <1>6 DEF Created
  <2>2. /\ EnsureChatStart \in Seq(Sendable) /\ Good(sent \o EnsureChatStart, odd')
        /\ Tracks(format, sent \o EnsureChatStart, state', odd')
    BY <1>2, <1>3, <1>6, ChatOpened
  <2>3. ItemOpen'
    BY <1>2, <1>6 DEF ItemOpen
  <2>4. QED
    BY <2>1, <2>2, <2>3, <1>2, <1>3, <1>5, EventDone
<1>7. CASE format # "chat"
  <2>1. Write(<<>>, "reading")
    BY <1>7 DEF Created
  <2>2. state' = state
    BY <1>2, <1>3, <1>7 DEF IInv, TypeOK, StateType
  <2>3. <<>> \in Seq(Sendable) /\ sent \o <<>> = sent
    BY <1>2
  <2>4. Good(sent \o <<>>, odd') /\ Tracks(format, sent \o <<>>, state', odd')
    BY <2>2, <2>3, <1>2
  <2>5. sent' = sent => ItemOpen'
    BY <1>2, <1>4, ItemKept
  <2>6. QED
    BY <2>1, <2>3, <2>4, <2>5, <1>2, <1>3, <1>5, EventDone
<1>8. QED
  BY <1>6, <1>7

LEMMA ChatDeltaStep ==
  ASSUME IInv, NEW kind \in {"text", "thinking"}, ChatDelta(kind)
  PROVE  IInv'
<1> DEFINE e == Event("delta", None, kind, NoItem)
           s == sent \o EnsureChatStart
<1>1. Read(NoItem, Late)
  BY DEF ChatDelta
<1>2. /\ phase = "reading" /\ Good(sent, odd') /\ Tracks(format, sent, state, odd')
      /\ sent \in Seq(Sendable) /\ state \in StateType
      /\ UNCHANGED format /\ item' = NoItem /\ events' \in 0 .. MaxEvents
      /\ odd' \subseteq Oddities /\ Late \subseteq odd'
  BY <1>1, ReadFacts, OddityFacts
<1>3. "late" \notin odd' => ~state.finished
  BY <1>2, OddityFacts
<1>4. /\ state' = [state EXCEPT !.started = TRUE] /\ format = "chat"
      /\ Write(Append(EnsureChatStart, e), "reading")
  BY DEF ChatDelta
<1>5. e \in Sendable /\ e.name = "delta"
  BY EventTypes DEF Event, Names
<1>6. /\ EnsureChatStart \in Seq(Sendable) /\ Good(s, odd') /\ Len(s) > 0
      /\ Tracks(format, s, state', odd')
  BY <1>2, <1>4, ChatOpened
<1>7. /\ s \in Seq(Sendable) /\ Append(EnsureChatStart, e) \in Seq(Sendable)
      /\ sent \o Append(EnsureChatStart, e) = Append(s, e)
  BY <1>2, <1>5, <1>6, Joins
<1>8. /\ state' \in StateType /\ state'.started /\ state'.finished = state.finished
      /\ state'.openBlock \in {None} \cup 0 .. state'.nextBlock - 1
      /\ state'.blockKind = "" <=> state'.openBlock = None
  BY <1>2, <1>4 DEF IInv, TypeOK, StateType
<1>9. ItemOpen'
  BY <1>2 DEF ItemOpen
<1> HIDE DEF s, e
<1>10. Good(Append(s, e), odd') /\ Tracks(format, Append(s, e), state', odd')
  <2>1. Len(s) # 0
    BY <1>6
  <2>2. QED
    BY <2>1, <1>3, <1>5, <1>6, <1>7, <1>8, TrackPlain
<1>11. QED
  BY <1>2, <1>4, <1>7, <1>8, <1>9, <1>10, EventDone DEF e

LEMMA AnthropicDeltaStep ==
  ASSUME IInv, NEW kind \in {"text", "thinking"}, AnthropicDelta(kind)
  PROVE  IInv'
<1>1. Read(NoItem, Late) /\ format = "anthropic" /\ state.started
  BY DEF AnthropicDelta, IInv
<1>2. /\ phase = "reading" /\ Good(sent, odd') /\ Tracks(format, sent, state, odd')
      /\ sent \in Seq(Sendable) /\ state \in StateType
      /\ UNCHANGED format /\ item' = NoItem /\ events' \in 0 .. MaxEvents
      /\ odd' \subseteq Oddities /\ Late \subseteq odd'
  BY <1>1, ReadFacts, OddityFacts
<1>3. "late" \notin odd' => ~state.finished
  BY <1>2, OddityFacts
<1>4. ItemOpen'
  BY <1>2 DEF ItemOpen
<1>5. /\ state.openBlock \in {None} \cup 0 .. state.nextBlock - 1
      /\ state.blockKind = "" <=> state.openBlock = None
  BY DEF IInv, TypeOK
<1>6. CASE state.openBlock # None /\ state.blockKind = kind
  <2> DEFINE e == Event("block_delta", state.openBlock, kind, NoItem)
  <2>1. Write(<<e>>, "reading") /\ state' = state
    BY <1>6 DEF AnthropicDelta
  <2>2. /\ e \in Sendable /\ e.name = "block_delta" /\ e.index = state.openBlock
        /\ e.kind = kind /\ e.call = NoItem
    BY <1>2, EventTypes DEF Event, Names, StateType
  <2> HIDE DEF e
  <2>3. <<e>> \in Seq(Sendable) /\ sent \o <<e>> = Append(sent, e)
    BY <2>2, <1>2, Joins
  <2>4. Len(sent) # 0
    BY <1>1, <1>2 DEF Tracks
  <2>5. Good(Append(sent, e), odd') /\ Tracks(format, Append(sent, e), state', odd')
    BY <2>1, <2>2, <2>4, <1>1, <1>2, <1>3, <1>6, TrackPlain
  <2>6. QED
    BY <2>1, <2>3, <2>5, <1>1, <1>2, <1>4, <1>5, EventDone
<1>7. CASE ~(state.openBlock # None /\ state.blockKind = kind)
  <2> DEFINE i == state.nextBlock
             a == Event("block_start", i, kind, NoItem)
             b == Event("block_delta", i, kind, NoItem)
             s == sent \o CloseBlock
             st == [state EXCEPT !.openBlock = None]
  <2>1. /\ Write(CloseBlock \o <<a, b>>, "reading")
        /\ state' = [state EXCEPT !.openBlock = i, !.blockKind = kind, !.nextBlock = i + 1]
    BY <1>7 DEF AnthropicDelta
  <2>2. /\ a \in Sendable /\ a.name = "block_start" /\ a.index = i /\ a.kind = kind
        /\ b \in Sendable /\ b.name = "block_delta" /\ b.index = i /\ b.kind = kind
        /\ a.call = NoItem /\ b.call = NoItem /\ i \in Nat
    <3>1. i \in Nat /\ i \in Int
      <4>1. i \in Nat
        BY DEF IInv, TypeOK
      <4>2. QED
        BY <4>1
    <3>2. a \in Sendable /\ b \in Sendable
      BY <3>1, EventTypes DEF Names
    <3>3. QED
      BY <3>1, <3>2 DEF Event
  <2>3. CloseBlock \in Seq(Sendable) /\ Good(s, odd') /\ Len(s) > 0 /\ Tracks(format, s, st, odd')
    BY <1>1, <1>2, <1>3, BlockClosed
  <2>4. /\ st.openBlock = None /\ st.nextBlock = i /\ st.hadTool = state.hadTool
        /\ st.toolIndexes = state.toolIndexes /\ st.finished = state.finished
    BY <1>2 DEF StateType
  <2>5. /\ state' \in StateType /\ state'.finished = state.finished /\ state'.started
        /\ state'.openBlock = i /\ state'.blockKind = kind /\ state'.nextBlock = i + 1
        /\ state'.hadTool = state.hadTool /\ state'.toolIndexes = state.toolIndexes
    <3>1. i \in Nat
      BY <2>2
    <3>2. i \in Int /\ i + 1 \in Nat
      BY <3>1
    <3>3. kind \in {"", "text", "thinking", "tool"}
      OBVIOUS
    <3>4. state' \in StateType
      BY <1>2, <2>1, <3>2, <3>3 DEF StateType
    <3>5. QED
      BY <1>1, <1>2, <2>1, <3>4 DEF StateType
  <2> HIDE DEF a, b, i
  <2>6. /\ s \in Seq(Sendable) /\ CloseBlock \o <<a, b>> \in Seq(Sendable)
        /\ sent \o (CloseBlock \o <<a, b>>) = Append(Append(s, a), b)
    BY <1>2, <2>2, <2>3, Joins
  <2> HIDE DEF s, st
  <2>7. Good(Append(s, a), odd') /\ Tracks(format, Append(s, a), state', odd')
    <3>1. a.index = Limit(format, st)
      BY <2>2, <2>4, <1>1 DEF Limit
    <3>2. a.kind # "tool" /\ format # "chat"
      BY <2>2, <1>1
    <3>3. QED
      BY <3>1, <3>2, <2>2, <2>3, <2>4, <2>5, <2>6, <1>3, TrackStart
  <2>8. Append(s, a) \in Seq(Sendable) /\ Len(Append(s, a)) # 0
    BY <2>2, <2>3, <2>6
  <2>9. Good(Append(Append(s, a), b), odd') /\ Tracks(format, Append(Append(s, a), b), state', odd')
    <3>1. state'.openBlock # None
      BY <2>2, <2>5 DEF None
    <3>2. QED
      BY <3>1, <2>2, <2>5, <2>7, <2>8, <1>3, TrackPlain
  <2>10. /\ state'.openBlock \in {None} \cup 0 .. state'.nextBlock - 1
         /\ state'.blockKind = "" <=> state'.openBlock = None
    <3>1. i \in Nat
      BY <2>2
    <3>2. i \in 0 .. (i + 1) - 1 /\ i # None
      BY <3>1 DEF None
    <3>3. kind # ""
      OBVIOUS
    <3>4. QED
      BY <3>2, <3>3, <2>5
  <2>11. QED
    BY <2>1, <2>5, <2>6, <2>9, <2>10, <1>2, <1>4, EventDone DEF a, b
<1>8. QED
  BY <1>6, <1>7
-----------------------------------------------------------------------------
LEMMA WithToolFacts ==
  ASSUME state \in StateType, NEW id \in SendableIds, NEW i \in Nat
  PROVE  /\ WithTool(id, i) \in StateType
         /\ WithTool(id, i).hadTool
         /\ DOMAIN WithTool(id, i).toolIndexes = DOMAIN state.toolIndexes \cup {id}
         /\ WithTool(id, i).toolIndexes[id] = i
         /\ \A d \in DOMAIN state.toolIndexes :
              d # id => WithTool(id, i).toolIndexes[d] = state.toolIndexes[d]
         /\ WithTool(id, i).started = state.started
         /\ WithTool(id, i).finished = state.finished
         /\ WithTool(id, i).openBlock = state.openBlock
         /\ WithTool(id, i).blockKind = state.blockKind
         /\ WithTool(id, i).nextBlock = state.nextBlock
<1> DEFINE f == [d \in DOMAIN state.toolIndexes \cup {id} |->
                   IF d = id THEN i ELSE state.toolIndexes[d]]
<1>1. state.toolIndexes \in UNION {[called -> Nat] : called \in SUBSET SendableIds}
  BY DEF StateType
<1>2. PICK called \in SUBSET SendableIds : state.toolIndexes \in [called -> Nat]
  BY <1>1
<1>3. f \in [called \cup {id} -> Nat] /\ called \cup {id} \in SUBSET SendableIds
  BY <1>2
<1>4. f \in UNION {[ids -> Nat] : ids \in SUBSET SendableIds}
  BY <1>3
<1>5. WithTool(id, i) = [state EXCEPT !.hadTool = TRUE, !.toolIndexes = f]
  BY DEF WithTool, StateType
<1>6. DOMAIN f = DOMAIN state.toolIndexes \cup {id} /\ f[id] = i
      /\ \A d \in DOMAIN state.toolIndexes : d # id => f[d] = state.toolIndexes[d]
  BY <1>2
<1> HIDE DEF f
<1>7. QED
  BY <1>4, <1>5, <1>6 DEF StateType

\* What startTool reads and writes down, for either format.
LEMMA NewCallFacts ==
  ASSUME IInv, NEW c \in Calls, NewCall(c)
  PROVE  /\ phase = "reading" /\ Good(sent, odd') /\ Tracks(format, sent, state, odd')
         /\ sent \in Seq(Sendable) /\ state \in StateType
         /\ UNCHANGED format /\ item' = c /\ events' \in 0 .. MaxEvents
         /\ odd' \subseteq Oddities
         /\ "late" \notin odd' => ~state.finished
         /\ "repeated" \notin odd' => ToolId(c) \notin DOMAIN state.toolIndexes
         /\ ToolId(c) \in SendableIds /\ c # NoItem
         /\ \A k \in DOMAIN sent : ~Announces(k, c)
<1> DEFINE os == Late \cup Oddity("repeated", ToolId(c) \in DOMAIN state.toolIndexes)
<1>1. Read(c, os) /\ \A k \in DOMAIN sent : ~Announces(k, c)
  BY DEF NewCall
<1>2. /\ Oddity("repeated", ToolId(c) \in DOMAIN state.toolIndexes) \in SUBSET Oddities
      /\ ToolId(c) \in DOMAIN state.toolIndexes =>
           "repeated" \in Oddity("repeated", ToolId(c) \in DOMAIN state.toolIndexes)
  BY DEF Oddity, Oddities
<1>3. os \in SUBSET Oddities /\ Late \subseteq os
  BY <1>2, OddityFacts
<1>4. ToolId(c) \in DOMAIN state.toolIndexes => "repeated" \in os
  BY <1>2
<1> HIDE DEF os
<1>5. /\ phase = "reading" /\ Good(sent, odd') /\ Tracks(format, sent, state, odd')
      /\ sent \in Seq(Sendable) /\ state \in StateType
      /\ UNCHANGED format /\ item' = c /\ events' \in 0 .. MaxEvents
      /\ odd' \subseteq Oddities /\ os \subseteq odd'
  BY <1>1, <1>3, ReadFacts
<1>6. "late" \notin odd' => ~state.finished
  <2>1. Late \subseteq odd'
    BY <1>3, <1>5
  <2>2. QED
    BY <2>1, OddityFacts
<1>7. ToolId(c) \in SendableIds
  <2>1. state.nextBlock \in Nat
    BY <1>5 DEF Tracks
  <2>2. QED
    BY <2>1, ToolIdType
<1>8. QED
  BY <1>1, <1>4, <1>5, <1>6, <1>7, StreamAssumption

LEMMA ChatStartToolStep ==
  ASSUME IInv, NEW c \in Calls, ChatStartTool(c)
  PROVE  IInv'
<1> DEFINE i == Cardinality(DOMAIN state.toolIndexes)
           id == ToolId(c)
           e == ToolStart("tool_start", i, c, id)
           s == sent \o EnsureChatStart
           st == [state EXCEPT !.started = TRUE]
<1>1. /\ phase = "reading" /\ Good(sent, odd') /\ Tracks(format, sent, state, odd')
      /\ sent \in Seq(Sendable) /\ state \in StateType
      /\ UNCHANGED format /\ item' = c /\ events' \in 0 .. MaxEvents
      /\ odd' \subseteq Oddities
      /\ "late" \notin odd' => ~state.finished
      /\ "repeated" \notin odd' => id \notin DOMAIN state.toolIndexes
      /\ id \in SendableIds
  BY NewCallFacts DEF ChatStartTool
<1>2. /\ state' = [WithTool(id, i) EXCEPT !.started = TRUE] /\ format = "chat"
      /\ Write(Append(EnsureChatStart, e), "reading")
  BY DEF ChatStartTool
<1> HIDE DEF id
<1>3. i \in Nat
  BY <1>1, FS_CardinalityType DEF Tracks, StartsTracked
<1>4. i \in Int
  BY <1>3
<1>5. e \in Sendable
  BY <1>1, <1>4, EventTypes DEF Names
<1>6. e.name = "tool_start" /\ e.index = i /\ e.kind = "tool" /\ e.id = id
  BY DEF ToolStart
<1>7. /\ EnsureChatStart \in Seq(Sendable) /\ Good(s, odd') /\ Len(s) > 0
      /\ Tracks(format, s, st, odd')
  BY <1>1, <1>2, ChatOpened
<1>8. /\ s \in Seq(Sendable) /\ Append(EnsureChatStart, e) \in Seq(Sendable)
      /\ sent \o Append(EnsureChatStart, e) = Append(s, e)
  BY <1>1, <1>5, <1>7, Joins
<1>9. /\ st.toolIndexes = state.toolIndexes /\ st.nextBlock = state.nextBlock
      /\ st.finished = state.finished
  BY <1>1 DEF StateType
<1>10. st.openBlock = None
  BY <1>2, <1>7, <1>8, ChatClosed
<1>11. st.openBlock = state.openBlock
  BY <1>1 DEF StateType
<1> HIDE DEF i
<1>12. /\ state' \in StateType /\ state'.started /\ state'.finished = state.finished
       /\ state'.hadTool
       /\ DOMAIN state'.toolIndexes = DOMAIN state.toolIndexes \cup {id}
       /\ state'.toolIndexes[id] = i
       /\ \A d \in DOMAIN state.toolIndexes :
            d # id => state'.toolIndexes[d] = state.toolIndexes[d]
       /\ state'.openBlock = state.openBlock /\ state'.blockKind = state.blockKind
       /\ state'.nextBlock = state.nextBlock
  <2> DEFINE w == WithTool(id, i)
  <2>1. /\ w \in StateType /\ w.hadTool
        /\ DOMAIN w.toolIndexes = DOMAIN state.toolIndexes \cup {id}
        /\ w.toolIndexes[id] = i
        /\ \A d \in DOMAIN state.toolIndexes :
             d # id => w.toolIndexes[d] = state.toolIndexes[d]
        /\ w.started = state.started /\ w.finished = state.finished
        /\ w.openBlock = state.openBlock /\ w.blockKind = state.blockKind
        /\ w.nextBlock = state.nextBlock
    BY <1>1, <1>3, WithToolFacts
  <2>2. state' = [w EXCEPT !.started = TRUE]
    BY <1>2
  <2> HIDE DEF w
  <2>3. QED
    BY <2>1, <2>2, <1>1 DEF StateType
<1>13. e.index = Limit(format, st)
  BY <1>2, <1>6, <1>9 DEF Limit, i
<1>14. /\ state'.openBlock \in {None} \cup 0 .. state'.nextBlock - 1
       /\ state'.blockKind = "" <=> state'.openBlock = None
  BY <1>12 DEF IInv, TypeOK
<1>15. ItemOpen' /\ item' \in Calls \cup {NoItem}
  BY <1>1, <1>2 DEF ItemOpen
<1> HIDE DEF s, st, e
<1>16. Good(Append(s, e), odd') /\ Tracks(format, Append(s, e), state', odd')
  <2>1. /\ e.kind = "tool" /\ state'.hadTool
        /\ "repeated" \notin odd' => e.id \notin DOMAIN st.toolIndexes
        /\ DOMAIN state'.toolIndexes = DOMAIN st.toolIndexes \cup {e.id}
        /\ state'.toolIndexes[e.id] = e.index
        /\ \A d \in DOMAIN st.toolIndexes :
             d # e.id => state'.toolIndexes[d] = st.toolIndexes[d]
    BY <1>1, <1>6, <1>9, <1>12
  <2>2. /\ e.name = IF format = "chat" THEN "tool_start" ELSE "block_start"
        /\ state'.openBlock = None /\ state'.nextBlock = st.nextBlock
        /\ state'.finished = st.finished /\ ("late" \notin odd' => ~st.finished)
        /\ format = "chat" /\ state'.started
    BY <1>1, <1>2, <1>6, <1>9, <1>10, <1>11, <1>12
  <2>3. Len(s) > 0 /\ Good(s, odd') /\ Tracks(format, s, st, odd') /\ s \in Seq(Sendable)
    BY <1>7, <1>8
  <2>4. QED
    BY <2>1, <2>2, <2>3, <1>5, <1>10, <1>13, TrackStart
<1>17. QED
  BY <1>1, <1>2, <1>8, <1>12, <1>14, <1>15, <1>16, EventDone DEF e

LEMMA AnthropicStartToolStep ==
  ASSUME IInv, NEW c \in Calls, AnthropicStartTool(c)
  PROVE  IInv'
<1> DEFINE i == state.nextBlock
           id == ToolId(c)
           e == ToolStart("block_start", i, c, id)
           s == sent \o CloseBlock
           st == [state EXCEPT !.openBlock = None]
<1>1. /\ phase = "reading" /\ Good(sent, odd') /\ Tracks(format, sent, state, odd')
      /\ sent \in Seq(Sendable) /\ state \in StateType
      /\ UNCHANGED format /\ item' = c /\ events' \in 0 .. MaxEvents
      /\ odd' \subseteq Oddities
      /\ "late" \notin odd' => ~state.finished
      /\ "repeated" \notin odd' => id \notin DOMAIN state.toolIndexes
      /\ id \in SendableIds /\ \A k \in DOMAIN sent : ~Announces(k, c)
  BY NewCallFacts DEF AnthropicStartTool
<1>2. /\ state' = [WithTool(id, i) EXCEPT !.openBlock = i, !.blockKind = "tool",
                                         !.nextBlock = i + 1]
      /\ format = "anthropic" /\ state.started
      /\ Write(Append(CloseBlock, e), "reading")
  BY DEF AnthropicStartTool, IInv
<1> HIDE DEF id
<1>3. i \in Nat
  BY DEF IInv, TypeOK
<1>4. i \in Int /\ i + 1 \in Nat
  BY <1>3
<1>5. e \in Sendable
  BY <1>1, <1>4, EventTypes DEF Names
<1>6. e.name = "block_start" /\ e.index = i /\ e.kind = "tool" /\ e.id = id /\ e.call = c
  BY DEF ToolStart
<1>7. /\ CloseBlock \in Seq(Sendable) /\ Good(s, odd') /\ Len(s) > 0
      /\ Tracks(format, s, st, odd')
      /\ \A k \in DOMAIN s : s[k].name \in StartNames => k \in DOMAIN sent /\ s[k] = sent[k]
  BY <1>1, <1>2, BlockClosed
<1>8. /\ s \in Seq(Sendable) /\ Append(CloseBlock, e) \in Seq(Sendable)
      /\ sent \o Append(CloseBlock, e) = Append(s, e)
  BY <1>1, <1>5, <1>7, Joins
<1>9. /\ st.toolIndexes = state.toolIndexes /\ st.nextBlock = i
      /\ st.openBlock = None /\ st.finished = state.finished
  BY <1>1 DEF StateType
<1> HIDE DEF i
<1>10. /\ state' \in StateType /\ state'.started /\ state'.finished = state.finished
       /\ state'.hadTool
       /\ DOMAIN state'.toolIndexes = DOMAIN state.toolIndexes \cup {id}
       /\ state'.toolIndexes[id] = i
       /\ \A d \in DOMAIN state.toolIndexes :
            d # id => state'.toolIndexes[d] = state.toolIndexes[d]
       /\ state'.openBlock = i /\ state'.blockKind = "tool" /\ state'.nextBlock = i + 1
  <2> DEFINE w == WithTool(id, i)
  <2>1. /\ w \in StateType /\ w.hadTool
        /\ DOMAIN w.toolIndexes = DOMAIN state.toolIndexes \cup {id}
        /\ w.toolIndexes[id] = i
        /\ \A d \in DOMAIN state.toolIndexes :
             d # id => w.toolIndexes[d] = state.toolIndexes[d]
        /\ w.started = state.started /\ w.finished = state.finished
        /\ w.openBlock = state.openBlock /\ w.blockKind = state.blockKind
        /\ w.nextBlock = state.nextBlock
    BY <1>1, <1>3, WithToolFacts
  <2>2. state' = [w EXCEPT !.openBlock = i, !.blockKind = "tool", !.nextBlock = i + 1]
    BY <1>2
  <2> HIDE DEF w
  <2>3. i \in Int /\ i + 1 \in Nat
    BY <1>4
  <2>4. state' \in StateType
    BY <2>1, <2>2, <2>3 DEF StateType
  <2>5. /\ state'.openBlock = i /\ state'.blockKind = "tool" /\ state'.nextBlock = i + 1
        /\ state'.started = w.started /\ state'.finished = w.finished
        /\ state'.hadTool = w.hadTool /\ state'.toolIndexes = w.toolIndexes
    BY <2>1, <2>2 DEF StateType
  <2>6. QED
    BY <2>1, <2>4, <2>5, <1>1, <1>2
<1>11. e.index = Limit(format, st)
  BY <1>2, <1>6, <1>9 DEF Limit
<1>12. i \in 0 .. (i + 1) - 1 /\ i # None
  BY <1>3 DEF None
<1>13. /\ state'.openBlock \in {None} \cup 0 .. state'.nextBlock - 1
       /\ state'.blockKind = "" <=> state'.openBlock = None
  BY <1>10, <1>12
<1> HIDE DEF s, st, e
<1>14. sent' = Append(s, e) => ItemOpen'
  <2> SUFFICES ASSUME sent' = Append(s, e), NEW k \in DOMAIN sent', Announces(k, c)'
               PROVE  sent'[k].id = id
    BY <1>1, <1>10 DEF ItemOpen
  <2>1. /\ DOMAIN sent' = 1 .. Len(s) + 1 /\ DOMAIN s = 1 .. Len(s) /\ Len(s) \in Nat
        /\ sent'[Len(s) + 1] = e /\ \A m \in 1 .. Len(s) : sent'[m] = s[m]
    BY <1>5, <1>8, AppendFacts
  <2>2. k \notin 1 .. Len(s)
    <3>1. sent'[k].name \in StartNames /\ sent'[k].call = c
      BY DEF Announces, StartNames
    <3>2. ASSUME k \in 1 .. Len(s) PROVE FALSE
      <4>1. k \in DOMAIN sent /\ sent[k] = sent'[k]
        BY <3>1, <3>2, <2>1, <1>7
      <4>2. QED
        BY <4>1, <3>1, <1>1 DEF Announces, StartNames
    <3>3. QED
      BY <3>2
  <2>3. QED
    BY <2>1, <2>2, <1>6
<1>15. Good(Append(s, e), odd') /\ Tracks(format, Append(s, e), state', odd')
  <2>1. /\ e.kind = "tool" /\ state'.hadTool
        /\ "repeated" \notin odd' => e.id \notin DOMAIN st.toolIndexes
        /\ DOMAIN state'.toolIndexes = DOMAIN st.toolIndexes \cup {e.id}
        /\ state'.toolIndexes[e.id] = e.index
        /\ \A d \in DOMAIN st.toolIndexes :
             d # e.id => state'.toolIndexes[d] = st.toolIndexes[d]
    BY <1>1, <1>6, <1>9, <1>10
  <2>2. /\ e.name = IF format = "chat" THEN "tool_start" ELSE "block_start"
        /\ format # "chat" /\ state'.openBlock = e.index /\ state'.blockKind = e.kind
        /\ state'.nextBlock = e.index + 1
        /\ state'.finished = st.finished /\ ("late" \notin odd' => ~st.finished)
    BY <1>1, <1>2, <1>6, <1>9, <1>10
  <2>3. QED
    BY <2>1, <2>2, <1>5, <1>7, <1>8, <1>9, <1>10, <1>11, TrackStart
<1>16. item' \in Calls \cup {NoItem}
  BY <1>1
<1>17. QED
  BY <1>1, <1>2, <1>8, <1>10, <1>13, <1>14, <1>15, <1>16, EventDone DEF e

\* Arguments that name their call, as its item did, go where its start went.
LEMMA ToolDeltaStep ==
  ASSUME IInv, NEW c \in Calls, NEW id, ToolDelta(c, id)
  PROVE  IInv'
<1> DEFINE i == ToolIndex(id)
           unnamed == \A k \in DOMAIN sent : Announces(k, c) => sent[k].id # id
           os == Late \cup Oddity("mixed", c # item) \cup Oddity("misnamed", unnamed)
           name == IF format = "chat" THEN "tool_delta" ELSE "block_delta"
           e == ToolEvent(i, c)
<1>1. Read(item, os) /\ Write(<<e>>, "reading") /\ state' = state
  BY DEF ToolDelta, SendArguments
<1>2. os \in SUBSET Oddities /\ Late \subseteq os
  BY OddityFacts DEF Oddity, Oddities
<1>3. (c # item => "mixed" \in os) /\ (unnamed => "misnamed" \in os)
  BY DEF Oddity
<1> HIDE DEF os
<1>4. item \in Calls \cup {NoItem}
  BY DEF IInv, TypeOK
<1>5. /\ phase = "reading" /\ Good(sent, odd') /\ Tracks(format, sent, state, odd')
      /\ sent \in Seq(Sendable) /\ state \in StateType /\ ItemOpen
      /\ UNCHANGED format /\ item' = item /\ events' \in 0 .. MaxEvents
      /\ item' \in Calls \cup {NoItem} /\ odd' \subseteq Oddities /\ os \subseteq odd'
  BY <1>1, <1>2, <1>4, ReadFacts
<1>6. /\ "late" \notin odd' => ~state.finished
      /\ "mixed" \notin odd' => c = item
      /\ "misnamed" \notin odd' => ~unnamed
  <2>1. Late \subseteq odd'
    BY <1>2, <1>5
  <2>2. QED
    BY <2>1, <1>3, <1>5, OddityFacts
<1>7. i \in Nat /\ i \in Int /\ name \in Names /\ c # NoItem
  <2>1. i \in Nat
    BY <1>5, StateTypeOK DEF ToolIndex
  <2>2. QED
    BY <2>1, StreamAssumption DEF Names
<1>8. e \in Sendable /\ e.name = name /\ e.index = i /\ e.kind = "tool" /\ e.call = c
  <2>1. e = Event(name, i, "tool", c)
    BY DEF ToolEvent
  <2>2. e \in Sendable
    BY <2>1, <1>7, EventTypes
  <2>3. QED
    BY <2>1, <2>2 DEF Event
<1>9. name \in {"tool_delta", "block_delta"} /\ (name = "block_delta" => format # "chat")
  OBVIOUS
<1>10. format \in {"chat", "anthropic"}
  BY DEF IInv, TypeOK
<1>11. <<e>> \in Seq(Sendable) /\ sent \o <<e>> = Append(sent, e)
  BY <1>5, <1>8, Joins
<1>12. ASSUME "misnamed" \notin odd'
       PROVE  \E k \in DOMAIN sent : Announces(k, c) /\ sent[k].id = id
  BY <1>6, <1>12
<1> HIDE DEF unnamed, e, i, name
<1>13. "misnamed" \notin odd' => Len(sent) # 0 /\ state.started
  <2>1. "misnamed" \notin odd' => Len(sent) > 0
    BY <1>5, <1>12
  <2>2. QED
    BY <2>1, <1>5 DEF Tracks
<1>14. ASSUME odd' \cap {"misnamed", "repeated"} = {}
       PROVE  \E k \in DOMAIN sent : /\ sent[k].name \in StartNames /\ sent[k].kind = "tool"
                                     /\ sent[k].call = c /\ sent[k].index = i
  <2>1. "misnamed" \notin odd' /\ "repeated" \notin odd'
    BY <1>14
  <2>2. PICK k \in DOMAIN sent : Announces(k, c) /\ sent[k].id = id
    BY <2>1, <1>12
  <2>3. sent[k].name \in StartNames /\ sent[k].call = c
    BY <2>2 DEF Announces, StartNames
  <2>4. sent[k].kind = "tool"
    BY <2>3, <1>5, <1>7 DEF Tracks, StartsTracked
  <2>5. id \in DOMAIN state.toolIndexes /\ state.toolIndexes[id] = sent[k].index
    BY <2>1, <2>2, <2>3, <2>4, <1>5 DEF Tracks, StartsTracked, IndexesTracked
  <2>6. QED
    BY <2>3, <2>4, <2>5 DEF ToolIndex, i
<1>15. ASSUME name = "block_delta", odd' \cap {"mixed", "misnamed"} = {}
       PROVE  state.openBlock = i /\ state.openBlock # None /\ state.blockKind = "tool"
  <2>1. "misnamed" \notin odd' /\ "mixed" \notin odd'
    BY <1>15
  <2>2. PICK k \in DOMAIN sent : Announces(k, c) /\ sent[k].id = id
    BY <2>1, <1>12
  <2>3. /\ id \in DOMAIN state.toolIndexes
        /\ state.openBlock = state.toolIndexes[id] /\ state.blockKind = "tool"
    BY <2>1, <2>2, <1>5, <1>6, <1>7, <1>9, <1>10, <1>15 DEF ItemOpen
  <2>4. QED
    BY <2>3, <1>7 DEF ToolIndex, None, i
<1>16. Good(Append(sent, e), odd') /\ Tracks(format, Append(sent, e), state, odd')
  <2>1. e.name \notin {"role", "message_start"}
    BY <1>8, <1>9
  <2>2. state.finished => state.started
    BY <1>5 DEF Tracks, FinishTracked
  <2>3. QED
    BY <2>1, <2>2, <1>5, <1>6, <1>8, <1>9, <1>13, <1>14, <1>15, TrackPlain
<1>17. sent' = Append(sent, e) => ItemOpen'
  <2>1. \A k \in DOMAIN Append(sent, e) : Append(sent, e)[k].name \in StartNames =>
          k \in DOMAIN sent /\ Append(sent, e)[k] = sent[k]
    BY <1>5, <1>8, <1>9, AppendFacts DEF StartNames
  <2>2. QED
    BY <2>1, <1>1, <1>5, ItemKept
<1>18. /\ state.openBlock \in {None} \cup 0 .. state.nextBlock - 1
       /\ state.blockKind = "" <=> state.openBlock = None
       /\ state.started \/ format # "anthropic"
  BY DEF IInv, TypeOK
<1>19. QED
  BY <1>1, <1>5, <1>11, <1>16, <1>17, <1>18, EventDone

LEMMA IgnoredStep == ASSUME IInv, Ignored PROVE IInv'
<1>1. Read(item, {}) /\ item \in Calls \cup {NoItem} /\ UNCHANGED <<state, sent, phase>>
  BY DEF Ignored, IInv, TypeOK
<1>2. /\ phase = "reading" /\ Good(sent, odd') /\ Tracks(format, sent, state, odd')
      /\ UNCHANGED <<format, item>> /\ events' \in 0 .. MaxEvents /\ odd' \subseteq Oddities
  BY <1>1, ReadFacts, OddityFacts
<1>3. TypeOK'
  BY <1>1, <1>2 DEF IInv, TypeOK
<1>4. ItemOpen'
  BY <1>1, <1>2, ItemKept
<1>5. QED
  BY <1>1, <1>2, <1>3, <1>4 DEF IInv

\* finish, whatever calls it.
LEMMA FinishStep ==
  ASSUME IInv, NEW incomplete \in BOOLEAN, NEW after \in {"reading", "ended"},
         phase = "reading", Finish(incomplete, after),
         after = "reading" => item' = NoItem,
         UNCHANGED <<format, odd>>, item' \in Calls \cup {NoItem}, events' \in 0 .. MaxEvents
  PROVE  IInv'
<1>1. /\ sent \in Seq(Sendable) /\ state \in StateType /\ odd' \subseteq Oddities
      /\ format \in {"chat", "anthropic"} /\ Tracks(format, sent, state, odd)
      /\ Good(sent, odd)
  BY DEF IInv, TypeOK
<1>2. CASE state.finished
  <2>1. phase' = after /\ UNCHANGED <<state, sent>> /\ \E k \in DOMAIN sent : sent[k].name = "end"
    BY <1>1, <1>2 DEF Finish, Tracks, FinishTracked
  <2>2. TypeOK'
    BY <2>1 DEF IInv, TypeOK
  <2>3. after = "reading" => ItemOpen'
    BY DEF ItemOpen
  <2>4. QED
    BY <2>1, <2>2, <2>3, <1>1, <1>2 DEF IInv
<1>3. CASE ~state.finished
  <2> DEFINE f == Event("finish", None, Reason(incomplete), NoItem)
             g == Event("end", None, "", NoItem)
  <2>1. /\ Write(IF format = "chat" THEN ChatFinish(incomplete)
                 ELSE AnthropicFinish(incomplete), after)
        /\ state' = [state EXCEPT !.finished = TRUE, !.started = TRUE,
                                  !.openBlock = None, !.blockKind = ""]
    BY <1>3 DEF Finish
  <2>2. /\ state' \in StateType /\ state'.finished /\ state'.started
        /\ state'.openBlock = None /\ state'.blockKind = ""
        /\ state'.nextBlock = state.nextBlock /\ state'.toolIndexes = state.toolIndexes
        /\ state'.hadTool = state.hadTool
    BY <2>1, <1>1, EventTypes DEF StateType
  <2>3. /\ Reason(incomplete) \in {"tool", "length", "stop"}
        /\ Reason(incomplete) = "tool" <=> state.hadTool
    BY DEF Reason
  <2>4. f \in Sendable /\ g \in Sendable
    BY <2>3, EventTypes DEF Names
  <2>5. f.name = "finish" /\ f.kind = Reason(incomplete) /\ g.name = "end"
    BY DEF Event
  <2> HIDE DEF f, g
  <2>6. ASSUME NEW w \in Seq(Sendable), Write(w, after), Good(sent \o w, odd),
               Tracks(format, sent \o w, state', odd)
        PROVE  IInv'
    <3>1. /\ sent' \in Seq(Sendable) /\ Good(sent', odd)
          /\ phase' = "broken" \/ (phase' = after /\ sent' = sent \o w)
      BY <1>1, <2>6, WriteGood
    <3>2. \A i \in DOMAIN sent' : sent'[i].name \in Names
      <4>1. \A i \in DOMAIN sent' : sent'[i] \in Sendable
        BY <3>1, Elements
      <4>2. QED
        BY <4>1 DEF Sendable
    <3>3. state'.hadTool \in BOOLEAN
      BY <2>2 DEF StateType
    <3>4. TypeOK'
      BY <3>1, <3>2, <3>3, <2>2 DEF TypeOK, IInv
    <3>5. after = "reading" => ItemOpen'
      BY DEF ItemOpen
    <3>6. \E k \in DOMAIN (sent \o w) : (sent \o w)[k].name = "end"
      BY <2>2, <2>6 DEF Tracks, FinishTracked
    <3>7. QED
      BY <2>6, <3>1, <3>4, <3>5, <3>6, <2>2 DEF IInv
  <2>7. CASE format = "chat"
    <3> DEFINE st == [state EXCEPT !.started = TRUE]
               s == sent \o EnsureChatStart
    <3>1. /\ EnsureChatStart \in Seq(Sendable) /\ Good(s, odd) /\ Len(s) > 0
          /\ Tracks(format, s, st, odd)
      BY <1>1, <2>7, ChatOpened
    <3>2. /\ st.hadTool = state.hadTool /\ st.finished = state.finished
          /\ st.nextBlock = state.nextBlock /\ st.toolIndexes = state.toolIndexes
      BY <1>1 DEF StateType
    <3>3. /\ s \in Seq(Sendable) /\ ChatFinish(incomplete) \in Seq(Sendable)
          /\ sent \o ChatFinish(incomplete) = Append(Append(s, f), g)
      <4>1. ChatFinish(incomplete) = EnsureChatStart \o <<f, g>>
        BY DEF ChatFinish, f, g
      <4>2. QED
        BY <4>1, <1>1, <2>4, <3>1, Joins
    <3>4. st.openBlock = None
      BY <2>7, <3>1, <3>3, ChatClosed
    <3> HIDE DEF st, s
    <3>5. f.kind = "tool" <=> st.hadTool
      BY <2>3, <2>5, <3>2
    <3>6. /\ Good(sent \o ChatFinish(incomplete), odd)
          /\ Tracks(format, sent \o ChatFinish(incomplete), state', odd)
      BY <1>3, <2>2, <2>4, <2>5, <3>1, <3>2, <3>3, <3>4, <3>5, FinishGood
    <3>7. QED
      BY <2>1, <2>6, <2>7, <3>3, <3>6
  <2>8. CASE format = "anthropic"
    <3> DEFINE st == [state EXCEPT !.openBlock = None]
               s == sent \o CloseBlock
    <3>1. /\ CloseBlock \in Seq(Sendable) /\ Good(s, odd) /\ Len(s) > 0
          /\ Tracks(format, s, st, odd)
      BY <1>1, <1>3, <2>8, BlockClosed
    <3>2. /\ st.hadTool = state.hadTool /\ st.finished = state.finished /\ st.openBlock = None
          /\ st.nextBlock = state.nextBlock /\ st.toolIndexes = state.toolIndexes
      BY <1>1 DEF StateType
    <3>3. /\ s \in Seq(Sendable) /\ AnthropicFinish(incomplete) \in Seq(Sendable)
          /\ sent \o AnthropicFinish(incomplete) = Append(Append(s, f), g)
      <4>1. AnthropicFinish(incomplete) = CloseBlock \o <<f, g>>
        BY DEF AnthropicFinish, f, g
      <4>2. QED
        BY <4>1, <1>1, <2>4, <3>1, Joins
    <3> HIDE DEF st, s
    <3>4. f.kind = "tool" <=> st.hadTool
      BY <2>3, <2>5, <3>2
    <3>5. /\ Good(sent \o AnthropicFinish(incomplete), odd)
          /\ Tracks(format, sent \o AnthropicFinish(incomplete), state', odd)
      BY <1>3, <2>2, <2>4, <2>5, <3>1, <3>2, <3>3, <3>4, FinishGood
    <3>6. QED
      BY <2>1, <2>6, <2>8, <3>3, <3>5
  <2>9. QED
    BY <1>1, <2>7, <2>8
<1>4. QED
  BY <1>2, <1>3

LEMMA StepInv == IInv /\ [Next]_vars => IInv'
<1> SUFFICES ASSUME IInv, [Next]_vars
             PROVE  IInv'
  OBVIOUS
<1>1. CASE Created
  BY <1>1, CreatedStep
<1>2. CASE Ignored
  BY <1>2, IgnoredStep
<1>3. CASE EndOfFile
  <2>1. /\ phase = "reading" /\ Finish(FALSE, "ended") /\ UNCHANGED <<format, odd>>
        /\ item' \in Calls \cup {NoItem} /\ events' \in 0 .. MaxEvents
    BY <1>3 DEF EndOfFile, IInv, TypeOK
  <2>2. QED
    BY <2>1, FinishStep
<1>4. CASE ReadError
  <2>1. phase' = "broken" /\ UNCHANGED <<format, state, sent, item, events, odd>>
    BY <1>4 DEF ReadError
  <2>2. TypeOK'
    BY <2>1 DEF IInv, TypeOK
  <2>3. QED
    BY <2>1, <2>2 DEF IInv
<1>5. ASSUME NEW kind \in {"text", "thinking"}, ChatDelta(kind) \/ AnthropicDelta(kind)
      PROVE  IInv'
  BY <1>5, ChatDeltaStep, AnthropicDeltaStep
<1>6. ASSUME NEW c \in Calls, ChatStartTool(c) \/ AnthropicStartTool(c)
      PROVE  IInv'
  BY <1>6, ChatStartToolStep, AnthropicStartToolStep
<1>7. ASSUME NEW c \in Calls, NEW id \in {Ids[c].id, Ids[c].call_id, NoId}, ToolDelta(c, id)
      PROVE  IInv'
  BY <1>7, ToolDeltaStep
<1>8. ASSUME NEW incomplete \in BOOLEAN, Terminal(incomplete)
      PROVE  IInv'
  <2>1. Read(NoItem, {}) /\ Finish(incomplete, "reading") /\ odd' = odd
    BY <1>8 DEF Terminal, Read
  <2>2. /\ phase = "reading" /\ UNCHANGED <<format, odd>> /\ item' = NoItem
        /\ item' \in Calls \cup {NoItem} /\ events' \in 0 .. MaxEvents
    BY <2>1, ReadFacts, OddityFacts
  <2>3. QED
    BY <2>1, <2>2, FinishStep
<1>9. CASE UNCHANGED vars
  <2>1. UNCHANGED <<format, state, sent, phase, item, events, odd>>
    BY <1>9 DEF vars
  <2>2. TypeOK' /\ (ItemOpen <=> ItemOpen')
    BY <2>1 DEF IInv, TypeOK, ItemOpen, Announces
  <2>3. QED
    BY <2>1, <2>2 DEF IInv
<1>10. QED
  BY <1>1, <1>2, <1>3, <1>4, <1>5, <1>6, <1>7, <1>8, <1>9 DEF Next

LEMMA InitInv == Init => IInv
<1> SUFFICES ASSUME Init
             PROVE  IInv
  OBVIOUS
<1> DEFINE e == Event("message_start", None, "", NoItem)
           st == [state EXCEPT !.started = FALSE]
<1>1. <<>> \in Seq(Sendable) /\ Len(<<>>) = 0 /\ DOMAIN <<>> = {}
  OBVIOUS
<1>2. \A i \in Int : i < 2 => Bounds(<<>>, i) = {} /\ Opened(<<>>, i) = {}
  BY DEF Bounds, Opened
<1>3. Good(<<>>, odd) /\ odd = {}
  <2>1. Scanned(<<>>)
    BY <1>1, <1>2 DEF Scanned
  <2>2. CallsGood(<<>>) /\ OnceGood(<<>>, odd) /\ BlocksGood(<<>>)
    BY <1>1 DEF CallsGood, OnceGood, BlocksGood
  <2>3. odd = {}
    BY DEF Init
  <2>4. QED
    BY <2>1, <2>2, <2>3 DEF Good
<1>4. /\ DOMAIN state.toolIndexes = {} /\ state.hadTool = FALSE /\ state.finished = FALSE
      /\ state.openBlock = None /\ state.blockKind = "" /\ state.nextBlock = 0
      /\ state.started <=> format = "anthropic"
  <2>1. state = [started |-> format = "anthropic", finished |-> FALSE,
                 hadTool |-> FALSE, openBlock |-> None, blockKind |-> "",
                 nextBlock |-> 0, toolIndexes |-> <<>>]
    BY DEF Init
  <2>2. DOMAIN state.toolIndexes = {}
    BY <2>1, <1>1
  <2>3. QED
    BY <2>1, <2>2
<1>5. ASSUME NEW s2, s2.started = FALSE, s2.finished = FALSE, s2.openBlock = None,
             s2.nextBlock = 0, s2.hadTool = FALSE, DOMAIN s2.toolIndexes = {}
      PROVE  Tracks(format, <<>>, s2, odd)
  <2>1. OpenTracked(<<>>, s2)
    BY <1>1, <1>2, <1>5 DEF OpenTracked, OpenIn
  <2>2. Cardinality(Opened(<<>>, Len(<<>>) + 1)) = 0
    BY <1>1, <1>2, FS_EmptySet
  <2>3. StartsTracked(format, <<>>, s2, odd)
    BY <1>1, <1>5, FS_EmptySet DEF StartsTracked, IndexesTracked
  <2>4. FinishTracked(<<>>, s2)
    BY <1>1, <1>5 DEF FinishTracked
  <2>5. QED
    BY <2>1, <2>2, <2>3, <2>4, <1>1, <1>5 DEF Tracks
<1>6. /\ st.started = FALSE /\ st.openBlock = state.openBlock /\ st.hadTool = state.hadTool
      /\ st.nextBlock = state.nextBlock /\ st.toolIndexes = state.toolIndexes
      /\ st.blockKind = state.blockKind /\ st.finished = state.finished
  BY DEF Init
<1>7. state \in StateType
  <2>1. <<>> \in [{} -> Nat] /\ {} \in SUBSET SendableIds
    OBVIOUS
  <2>2. <<>> \in UNION {[called -> Nat] : called \in SUBSET SendableIds}
    BY <2>1
  <2>3. QED
    BY <2>2, EventTypes DEF Init, StateType
<1>8. e \in Sendable /\ e.name = "message_start"
  BY EventTypes DEF Event, Names
<1> HIDE DEF st, e
<1>9. sent \in Seq(Sendable) /\ Good(sent, odd) /\ Tracks(format, sent, state, odd)
  <2>1. CASE format = "chat"
    BY <2>1, <1>1, <1>3, <1>4, <1>5 DEF Init
  <2>2. CASE format = "anthropic"
    <3>1. sent = <<e>> /\ <<e>> = Append(<<>>, e) /\ <<e>> \in Seq(Sendable)
      <4>1. sent = <<e>>
        BY <2>2 DEF Init, e
      <4>2. QED
        BY <4>1, <1>1, <1>8
    <3>2. Tracks(format, <<>>, st, odd)
      <4>1. /\ st.openBlock = None /\ st.nextBlock = 0 /\ st.hadTool = FALSE
            /\ DOMAIN st.toolIndexes = {} /\ st.started = FALSE /\ st.finished = FALSE
        BY <1>4, <1>6
      <4>2. QED
        BY <4>1, <1>5
    <3>3. Good(Append(<<>>, e), odd) /\ Tracks(format, Append(<<>>, e), state, odd)
      BY <3>2, <2>2, <1>1, <1>3, <1>4, <1>6, <1>8, TrackPlain
    <3>4. QED
      BY <3>1, <3>3
  <2>3. QED
    BY <2>1, <2>2 DEF Init
<1>10. TypeOK
  <2>1. \A i \in DOMAIN sent : sent[i].name \in Names
    <3>1. \A i \in DOMAIN sent : sent[i] \in Sendable
      BY <1>9, Elements
    <3>2. QED
      BY <3>1 DEF Sendable
  <2>2. format \in {"chat", "anthropic"} /\ phase = "reading" /\ item = NoItem
    BY DEF Init
  <2>3. events \in 0 .. MaxEvents
    <3>1. events = 0 /\ MaxEvents \in Nat
      BY StreamAssumption DEF Init
    <3>2. QED
      BY <3>1
  <2>4. state.nextBlock \in Nat
    <3>1. state.nextBlock = 0
      BY <1>4
    <3>2. QED
      BY <3>1
  <2>5. state.started \in BOOLEAN
    BY <1>7 DEF StateType
  <2>6. /\ state.finished \in BOOLEAN /\ state.hadTool \in BOOLEAN
        /\ state.openBlock = None /\ state.blockKind = ""
        /\ DOMAIN state.toolIndexes = {}
    BY <1>4
  <2>7. QED
    BY <2>1, <2>2, <2>3, <2>4, <2>5, <2>6, <1>3 DEF TypeOK
<1>11. ItemOpen
  BY DEF Init, ItemOpen
<1>12. QED
  BY <1>4, <1>7, <1>9, <1>10, <1>11 DEF IInv, Init
-----------------------------------------------------------------------------
LEMMA AlwaysInv == Spec => []IInv
BY InitInv, StepInv, PTL DEF Spec

\* Every step of the converter and the upstream's object together is a step of
\* the converter.
LEMMA ResponseUsesStream == ResponseSpec => Spec
<1>1. ResponseInit => Init
  BY DEF ResponseInit
<1>2. [ResponseNext]_allVars => [Next]_vars
  <2> SUFFICES ASSUME [ResponseNext]_allVars
               PROVE  [Next]_vars
    OBVIOUS
  <2>1. CASE TextDelta
    BY <2>1 DEF TextDelta, Next
  <2>2. ASSUME NEW part, ThinkingDelta(part)
        PROVE  Next
    BY <2>2 DEF ThinkingDelta, Next
  <2>3. CASE RefusalDelta
    BY <2>3 DEF RefusalDelta, Next
  <2>4. ASSUME NEW c \in Calls, AddCall(c)
        PROVE  Next
    BY <2>4 DEF AddCall, Next
  <2>5. ASSUME NEW c \in Calls, NEW id \in {Ids[c].id, Ids[c].call_id, NoId}, Arguments(c, id)
        PROVE  Next
    BY <2>5 DEF Arguments, Next
  <2>6. ASSUME NEW as \in {"completed", "incomplete", "failed"}, End(as)
        PROVE  Next
    <3>1. (as = "incomplete") \in BOOLEAN /\ Terminal(as = "incomplete")
      BY <2>6 DEF End
    <3>2. QED
      BY <3>1 DEF Next
  <2>7. CASE Created \/ Ignored \/ EndOfFile \/ ReadError
    BY <2>7 DEF Next
  <2>8. CASE UNCHANGED allVars
    BY <2>8 DEF allVars
  <2>9. QED
    BY <2>1, <2>2, <2>3, <2>4, <2>5, <2>6, <2>7, <2>8 DEF ResponseNext
<1>3. QED
  BY <1>1, <1>2, PTL DEF ResponseSpec, Spec

\* streamState's types: in particular the open block is one of those that were
\* begun.
THEOREM StreamTypesCorrect == ResponseSpec => []TypeOK
<1>1. IInv => TypeOK
  BY DEF IInv
<1>2. QED
  BY <1>1, AlwaysInv, ResponseUsesStream, PTL

\* toolIndexes: arguments that name their call as its item did are sent under
\* the index that its own start announced, in whatever order and how late they
\* come, unless two calls have one id.
THEOREM ArgumentsCorrect == ResponseSpec => []ArgumentsReachTheirCall
<1>1. IInv => ArgumentsReachTheirCall
  BY DEF IInv, Good, CallsGood, ArgumentsReachTheirCall, ArgumentsSeparate, Wrote, StartNames
<1>2. QED
  BY <1>1, AlwaysInv, ResponseUsesStream, PTL

\* finish: an answer is finished once, its end follows at once, and it has the
\* reason that its calls demand, on every path through the events and the
\* failures, those after the terminal event included.
THEOREM FinishedCorrect == ResponseSpec => []FinishedOnce
<1>1. IInv => FinishedOnce
  <2> SUFFICES ASSUME IInv
               PROVE  FinishedOnce
    OBVIOUS
  <2>1. /\ OnceGood(sent, odd)
        /\ phase = "ended" => \E k \in DOMAIN sent : sent[k].name = "end"
    BY DEF IInv, Good
  <2>2. QED
    BY <2>1 DEF OnceGood, FinishedOnce, NothingAfterEnd, Wrote, StartNames
<1>2. QED
  BY <1>1, AlwaysInv, ResponseUsesStream, PTL

\* closeBlock, ensureAnthropicBlock and the tool blocks: the content blocks are
\* well formed unless the upstream sends arguments of a call that is not the
\* current one, or that it does not name.
THEOREM BlocksCorrect == ResponseSpec => []BlocksWellFormed
<1>1. IInv => BlocksWellFormed
  <2> SUFFICES ASSUME IInv, odd \cap {"mixed", "misnamed"} = {}
               PROVE  BlocksFormed
    BY DEF BlocksWellFormed
  <2>1. \A i \in DOMAIN sent : BlockGood(sent, i, OpenIn(sent, i))
    BY DEF IInv, Good, BlocksGood
  <2>2. \A i : OpenFor(i) = OpenIn(sent, i)
    BY DEF OpenFor, OpenIn, Bounds, LastBound, Wrote
  <2>3. QED
    BY <2>1, <2>2 DEF BlocksFormed, BlockGood, Opened, Wrote
<1>2. QED
  BY <1>1, AlwaysInv, ResponseUsesStream, PTL
=============================================================================
