------------------------- MODULE RequestConvert_proofs -----------------------
(***************************************************************************)
(* Proofs about RequestConvert: the loops of the conversions, for messages *)
(* of any length, and the properties of MCRequestConvert for any requests. *)
(***************************************************************************)
EXTENDS RequestConvert, Selection_proofs

BlockT == [kind : Kinds, id : Nat \X Nat, of : Nat \X Nat]

PartT ==
  [kind : Kinds \cup {"input_text", "input_image", "output_text"},
   id : Nat \X Nat, of : Nat \X Nat]

Speakers == {"user", "assistant"}

TurnT == [role : Speakers \cup {"system"}, blocks : Seq(BlockT)]

ItemT ==
  {i \in [type : ToolTypes \cup {"message"}, role : Speakers \cup {""}, content : Seq(PartT)] :
     /\ i.type = "message" <=> i.role \in Speakers
     /\ i.content # <<>>}

OutT == [input : Seq(ItemT), instructions : Seq(BlockT)]

OfK(kinds) == {b \in BlockT : b.kind \in kinds}

LEMMA Regrouped == \A x, y, z \in Seq(ItemT) : (x \o y) \o z = x \o (y \o z)
BY ConcatAssociative

LEMMA OfKindsOnly ==
  \A kinds : \A blocks \in Seq(BlockT) : OfKinds(blocks, kinds) = Only(blocks, OfK(kinds))
<1> SUFFICES ASSUME NEW blocks \in Seq(BlockT), NEW kinds
             PROVE  OfKinds(blocks, kinds) = Only(blocks, OfK(kinds))
  OBVIOUS
<1> DEFINE T == ToSet(blocks)
           R == {b \in T : b.kind \in kinds}
<1>1. blocks \in Seq(T) /\ T \subseteq BlockT
  BY DEF ToSet
<1>2. \A b \in T : b \in R <=> b \in OfK(kinds)
  BY <1>1 DEF OfK
<1> HIDE DEF T, R
<1>3. Only(blocks, R) = Only(blocks, OfK(kinds))
  BY <1>1, <1>2, OnlySame
<1> QED BY <1>3 DEF OfKinds, T, R

\* A selection of blocks has blocks of the right kinds.
LEMMA OfKindsType ==
  \A kinds : \A blocks \in Seq(BlockT) :
    /\ OfKinds(blocks, kinds) \in Seq(BlockT)
    /\ \A i \in DOMAIN OfKinds(blocks, kinds) : OfKinds(blocks, kinds)[i].kind \in kinds
<1> SUFFICES ASSUME NEW blocks \in Seq(BlockT), NEW kinds
             PROVE  /\ OfKinds(blocks, kinds) \in Seq(BlockT)
                    /\ \A i \in DOMAIN OfKinds(blocks, kinds) :
                         OfKinds(blocks, kinds)[i].kind \in kinds
  OBVIOUS
<1> DEFINE r == OfKinds(blocks, kinds)
<1>1. r = Only(blocks, OfK(kinds))
  BY OfKindsOnly
<1>2. r \in Seq(BlockT) /\ \A i \in 1 .. Len(r) : r[i] \in OfK(kinds)
  BY <1>1, OnlyType
<1> HIDE DEF r
<1>3. \A i \in DOMAIN r : r[i].kind \in kinds
  BY <1>2 DEF OfK
<1> QED BY <1>2, <1>3 DEF r

LEMMA ContentType ==
  ASSUME NEW blocks \in Seq(BlockT), NEW role
  PROVE  responseContent(blocks, role) \in Seq(PartT)
<1> DEFINE parts == OfKinds(blocks, {"text", "image"})
<1>1. parts \in Seq(BlockT)
  BY OfKindsType
<1> HIDE DEF parts
<1> DEFINE part(b) == [b EXCEPT !.kind = IF @ = "image" THEN "input_image"
             ELSE IF role = "assistant" THEN "output_text" ELSE "input_text"]
<1>2. \A b \in BlockT : part(b) \in PartT
  BY DEF BlockT, PartT
<1> HIDE DEF part
<1>3. [i \in DOMAIN parts |-> part(parts[i])] \in Seq(PartT)
  <2>1. \A i \in 1 .. Len(parts) : part(parts[i]) \in PartT
    BY <1>1, <1>2
  <2> QED BY <1>1, <2>1
<1> QED BY <1>3 DEF responseContent, parts, part

LEMMA MessageType ==
  ASSUME NEW blocks \in Seq(BlockT), NEW role \in Speakers
  PROVE  Message(blocks, role) \in Seq(ItemT)
<1> DEFINE content == responseContent(blocks, role)
<1>1. content \in Seq(PartT)
  BY ContentType
<1> HIDE DEF content
<1>2. content # <<>> => Item("message", role, content) \in ItemT
  BY <1>1 DEF Item, ItemT, ToolTypes
<1> QED BY <1>2 DEF Message, content

LEMMA ToolItemsType ==
  ASSUME NEW blocks \in Seq(BlockT)
  PROVE  ToolItems(blocks) \in Seq(ItemT)
<1> DEFINE tools == OfKinds(blocks, {"call", "result"})
<1>1. tools \in Seq(BlockT)
  BY OfKindsType
<1> HIDE DEF tools
<1> DEFINE item(b) == Item(IF b.kind = "call" THEN "function_call"
                           ELSE "function_call_output", "", <<b>>)
<1>2. ASSUME NEW b \in BlockT PROVE item(b) \in ItemT
  <2>1. b \in PartT
    BY DEF BlockT, PartT
  <2> DEFINE content == <<b>>
  <2>2. content \in Seq(PartT) /\ content # <<>>
    BY <2>1
  <2> HIDE DEF content
  <2>3. Item(IF b.kind = "call" THEN "function_call" ELSE "function_call_output",
             "", content) \in ItemT
    BY <2>2 DEF Item, ItemT, ToolTypes, Speakers
  <2> QED BY <2>3 DEF content
<1> HIDE DEF item
<1>3. \A i \in 1 .. Len(tools) : item(tools[i]) \in ItemT
  BY <1>1, <1>2
<1>4. [i \in DOMAIN tools |-> item(tools[i])] \in Seq(ItemT)
  BY <1>1, <1>3
<1> QED BY <1>4 DEF ToolItems, tools, item

\* A message of a chat client: a tool message carries one result.
MessageT ==
  {m \in [role : Speakers \cup {"system", "tool"}, blocks : Seq(BlockT)] :
     m.role = "tool" => \E b \in OfK({"result"}) : m.blocks = <<b>>}

Answer(b) == Item("function_call_output", "", <<b>>)

LEMMA OneResult ==
  ASSUME NEW b \in OfK({"result"}), NEW role
  PROVE  Message(<<b>>, role) = <<>> /\ ToolItems(<<b>>) = <<Answer(b)>>
<1>1. b \in BlockT /\ b.kind = "result" /\ <<b>> \in Seq(BlockT)
  BY DEF OfK
<1>2. b \notin OfK({"text", "image"}) /\ b \in OfK({"call", "result"})
  BY <1>1 DEF OfK
<1>3. /\ OfKinds(<<b>>, {"text", "image"}) = Only(<<b>>, OfK({"text", "image"}))
      /\ OfKinds(<<b>>, {"call", "result"}) = Only(<<b>>, OfK({"call", "result"}))
  BY <1>1, OfKindsOnly
<1>4. /\ OfKinds(<<b>>, {"text", "image"}) = <<>>
      /\ OfKinds(<<b>>, {"call", "result"}) = <<b>>
  BY <1>2, <1>3, OnlyOne
<1>5. responseContent(<<b>>, role) = <<>>
  BY <1>4 DEF responseContent
<1>6. ToolItems(<<b>>) = <<Answer(b)>>
  <2> DEFINE tools == OfKinds(<<b>>, {"call", "result"})
             item(i) == Item(IF tools[i].kind = "call" THEN "function_call"
                             ELSE "function_call_output", "", <<tools[i]>>)
  <2>1. tools[1] = b /\ DOMAIN tools = 1 .. 1
    BY <1>4
  <2> HIDE DEF tools
  <2>2. item(1) = Answer(b)
    BY <1>1, <2>1 DEF Answer
  <2> HIDE DEF item
  <2>3. [i \in DOMAIN tools |-> item(i)] = <<item(1)>>
    BY <2>1
  <2> QED BY <2>2, <2>3 DEF ToolItems, tools, item
<1> QED BY <1>5, <1>6 DEF Message

LEMMA InstructType ==
  ASSUME NEW out \in OutT, NEW blocks \in Seq(BlockT)
  PROVE  Instruct(out, blocks) \in OutT
<1>1. OfKinds(blocks, {"text"}) \in Seq(BlockT)
  BY OfKindsType
<1> DEFINE said == OfKinds(blocks, {"text"})
<1> HIDE DEF said
<1>2. [out EXCEPT !.instructions = @ \o said] \in OutT
  <2>1. said \in Seq(BlockT) /\ out.instructions \in Seq(BlockT)
    BY <1>1 DEF said, OutT
  <2>2. out.instructions \o said \in Seq(BlockT)
    BY <2>1
  <2> QED BY <2>2 DEF OutT
<1> QED BY <1>2 DEF Instruct, said

LEMMA AddType ==
  ASSUME NEW out \in OutT, NEW items \in Seq(ItemT)
  PROVE  /\ [out EXCEPT !.input = @ \o items] \in OutT
         /\ [out EXCEPT !.input = @ \o items].input = out.input \o items
         /\ [out EXCEPT !.input = @ \o items].instructions = out.instructions
<1>1. out.input \in Seq(ItemT)
  BY DEF OutT
<1>2. out.input \o items \in Seq(ItemT)
  BY <1>1
<1> QED BY <1>2 DEF OutT

LEMMA ChatMessageType ==
  ASSUME NEW out \in OutT, NEW m \in MessageT
  PROVE  ChatMessage(out, m) \in OutT
<1>1. m.blocks \in Seq(BlockT) /\ m.role \in Speakers \cup {"system", "tool"}
  BY DEF MessageT
<1>2. CASE m.role = "system"
  BY <1>1, <1>2, InstructType DEF ChatMessage
<1>3. CASE m.role # "system"
  <2>1. Message(m.blocks, m.role) \in Seq(ItemT)
    <3>1. CASE m.role \in Speakers
      BY <1>1, <3>1, MessageType
    <3>2. CASE m.role = "tool"
      <4>1. PICK b \in OfK({"result"}) : m.blocks = <<b>>
        BY <3>2 DEF MessageT
      <4>2. Message(m.blocks, m.role) = <<>>
        BY <4>1, OneResult
      <4> QED BY <4>2, EmptySeq
    <3> QED BY <1>1, <1>3, <3>1, <3>2
  <2>2. ToolItems(m.blocks) \in Seq(ItemT)
    BY <1>1, ToolItemsType
  <2> DEFINE a == Message(m.blocks, m.role)
             c == ToolItems(m.blocks)
  <2> HIDE DEF a, c
  <2>3. [out EXCEPT !.input = @ \o a \o c] \in OutT
    <3>1. out.input \in Seq(ItemT) /\ a \in Seq(ItemT) /\ c \in Seq(ItemT)
      BY <2>1, <2>2 DEF OutT, a, c
    <3>2. out.input \o a \o c \in Seq(ItemT)
      BY <3>1
    <3> QED BY <3>2 DEF OutT
  <2> QED BY <1>3, <2>3 DEF ChatMessage, a, c
<1> QED BY <1>2, <1>3

\* The passes of the loop of chatToResponses, each from the one before.
Runs(f, out, ms) ==
  /\ f[0] = out
  /\ \A n \in 1 .. Len(ms) : f[n] = ChatMessage(f[n - 1], ms[n])
  /\ ChatMessages(out, ms) = f[Len(ms)]

LEMMA ChatPasses ==
  ASSUME NEW out \in OutT, NEW ms \in Seq(MessageT)
  PROVE  \E f : Runs(f, out, ms)
<1> DEFINE N == Len(ms)
           Body(f) == [n \in 0 .. N |-> IF n = 0 THEN out ELSE ChatMessage(f[n - 1], ms[n])]
           after == CHOOSE f : f = Body(f)
           G == [p \in (1 .. N) \X OutT |-> ChatMessage(p[2], ms[p[1]])]
<1>1. N \in Nat /\ \A n \in 1 .. N : ms[n] \in MessageT
  OBVIOUS
<1>2. G \in Steps(N, OutT)
  <2>1. \A p \in (1 .. N) \X OutT : ChatMessage(p[2], ms[p[1]]) \in OutT
    <3> SUFFICES ASSUME NEW p \in (1 .. N) \X OutT
                 PROVE  ChatMessage(p[2], ms[p[1]]) \in OutT
      OBVIOUS
    <3>1. p[2] \in OutT /\ ms[p[1]] \in MessageT
      BY <1>1
    <3> QED BY <3>1, ChatMessageType
  <2> QED BY <2>1 DEF Steps
<1>3. PICK g \in [0 .. N -> OutT] :
        g[0] = out /\ \A n \in 1 .. N : g[n] = G[<<n, g[n - 1]>>]
  <2>1. Passes(G, out, N, OutT) # {}
    <3> HIDE DEF G, N
    <3> QED BY <1>1, <1>2, Recursion
  <2> QED BY <2>1 DEF Passes
<1>4. \A n \in 1 .. N : g[n] = ChatMessage(g[n - 1], ms[n])
  <2> SUFFICES ASSUME NEW n \in 1 .. N PROVE g[n] = ChatMessage(g[n - 1], ms[n])
    OBVIOUS
  <2>1. n - 1 \in 0 .. N
    BY <1>1
  <2>2. <<n, g[n - 1]>> \in (1 .. N) \X OutT
    BY <1>3, <2>1
  <2>3. g[n] = G[<<n, g[n - 1]>>]
    BY <1>3
  <2> QED BY <2>2, <2>3
<1>5. g = Body(g)
  <2>1. g = [n \in 0 .. N |-> g[n]]
    BY <1>3
  <2>2. \A n \in 0 .. N : n = 0 \/ n \in 1 .. N
    BY <1>1
  <2> HIDE DEF N
  <2>3. \A n \in 0 .. N : g[n] = IF n = 0 THEN out ELSE ChatMessage(g[n - 1], ms[n])
    BY <1>3, <1>4, <2>2
  <2> QED BY <2>1, <2>3
<1>6. after = Body(after)
  BY <1>5
<1>7. ChatMessages(out, ms) = after[N]
  BY DEF ChatMessages
<1> HIDE DEF after, N
<1>8. after[0] = out
  <2>1. 0 \in 0 .. N
    BY <1>1
  <2> QED BY <1>6, <2>1
<1>9. \A n \in 1 .. N : after[n] = ChatMessage(after[n - 1], ms[n])
  <2>1. \A n \in 1 .. N : n \in 0 .. N /\ n # 0
    BY <1>1
  <2> QED BY <1>6, <2>1
<1> QED BY <1>7, <1>8, <1>9 DEF Runs, N

LEMMA ChatFormType ==
  ASSUME NEW t \in TurnT
  PROVE  LET results == OfKinds(t.blocks, {"result"})
             rest == OfKinds(t.blocks, Kinds \ {"result"})
             ms == ChatForm(t)
         IN  /\ results \in Seq(OfK({"result"})) /\ rest \in Seq(BlockT)
             /\ ms \in Seq(MessageT)
             /\ Len(ms) = Len(results) + (IF rest = <<>> THEN 0 ELSE 1)
             /\ \A n \in 1 .. Len(results) : ms[n] = [role |-> "tool", blocks |-> <<results[n]>>]
             /\ rest # <<>> => ms[Len(results) + 1] = [role |-> t.role, blocks |-> rest]
<1> DEFINE results == OfKinds(t.blocks, {"result"})
           rest == OfKinds(t.blocks, Kinds \ {"result"})
<1>1. t.blocks \in Seq(BlockT) /\ t.role \in Speakers \cup {"system"}
  BY DEF TurnT
<1>2. results \in Seq(OfK({"result"}))
  <2>1. results \in Seq(BlockT) /\ \A i \in DOMAIN results : results[i].kind \in {"result"}
    BY <1>1, OfKindsType
  <2> HIDE DEF results
  <2>2. \A i \in 1 .. Len(results) : results[i] \in OfK({"result"})
    <3>1. \A i \in 1 .. Len(results) : results[i] \in BlockT
      BY <2>1
    <3> QED BY <2>1, <3>1 DEF OfK
  <2> QED BY <2>1, <2>2
<1>3. rest \in Seq(BlockT)
  BY <1>1, OfKindsType
<1> DEFINE tool(b) == [role |-> "tool", blocks |-> <<b>>]
           first == [i \in DOMAIN results |-> tool(results[i])]
           m == [role |-> t.role, blocks |-> rest]
           last == IF rest = <<>> THEN <<>> ELSE <<m>>
<1>4. \A b \in OfK({"result"}) : tool(b) \in MessageT
  <2> SUFFICES ASSUME NEW b \in OfK({"result"}) PROVE tool(b) \in MessageT
    OBVIOUS
  <2>1. <<b>> \in Seq(BlockT)
    BY DEF OfK
  <2> DEFINE bs == <<b>>
  <2>2. bs \in Seq(BlockT) /\ \E c \in OfK({"result"}) : bs = <<c>>
    BY <2>1
  <2> HIDE DEF bs
  <2>3. [role |-> "tool", blocks |-> bs] \in MessageT
    BY <2>2 DEF MessageT
  <2> QED BY <2>3 DEF bs
<1>5. m \in MessageT
  <2> HIDE DEF rest
  <2> QED BY <1>1, <1>3 DEF MessageT, Speakers
<1> HIDE DEF results, tool, m
<1>6. first \in Seq(MessageT) /\ Len(first) = Len(results)
  BY <1>2, <1>4
<1>7. last \in Seq(MessageT) /\ Len(last) = IF rest = <<>> THEN 0 ELSE 1
  <2>1. CASE rest = <<>>
    BY <2>1, EmptySeq
  <2>2. CASE rest # <<>>
    BY <1>5, <2>2
  <2> QED BY <2>1, <2>2
<1>8. ChatForm(t) = first \o last
  BY DEF ChatForm, results, tool, m
<1>9. \A n \in 1 .. Len(results) : first[n] = tool(results[n])
  BY <1>2
<1>10. rest # <<>> => last[1] = m
  OBVIOUS
<1> HIDE DEF rest, first, last
<1>11. /\ first \o last \in Seq(MessageT)
       /\ Len(first \o last) = Len(results) + (IF rest = <<>> THEN 0 ELSE 1)
       /\ \A n \in 1 .. Len(results) : (first \o last)[n] = tool(results[n])
       /\ rest # <<>> => (first \o last)[Len(results) + 1] = m
  <2>1. /\ first \o last \in Seq(MessageT)
        /\ Len(first \o last) = Len(first) + Len(last)
        /\ \A i \in 1 .. Len(first) + Len(last) :
             (first \o last)[i] = IF i <= Len(first) THEN first[i] ELSE last[i - Len(first)]
    BY <1>6, <1>7, ConcatProperties
  <2>2. Len(results) \in Nat
    BY <1>2
  <2>3. \A n \in 1 .. Len(results) : (first \o last)[n] = first[n]
    BY <1>6, <1>7, <2>1, <2>2
  <2>4. rest # <<>> => (first \o last)[Len(results) + 1] = last[1]
    BY <1>6, <1>7, <2>1, <2>2
  <2> QED BY <1>6, <1>7, <1>9, <1>10, <2>1, <2>3, <2>4
<1> QED BY <1>2, <1>3, <1>8, <1>11 DEF results, rest, tool, m

Rest(blocks) == OfKinds(blocks, Kinds \ {"result"})

\* What a turn adds to the input in either form.
ChatNews(t) ==
  ToolItems(OfKinds(t.blocks, {"result"})) \o Message(t.blocks, t.role)
  \o ToolItems(Rest(t.blocks))

AnthropicNews(t) == ToolItems(t.blocks) \o Message(t.blocks, t.role)

WellSaid(t) == \A i \in DOMAIN t.blocks : t.blocks[i].kind \in MayUse(t.role)

LEMMA RestKeeps ==
  ASSUME NEW blocks \in Seq(BlockT), NEW kinds, "result" \notin kinds
  PROVE  OfKinds(Rest(blocks), kinds) = OfKinds(blocks, kinds)
<1>1. Rest(blocks) \in Seq(BlockT) /\ Rest(blocks) = Only(blocks, OfK(Kinds \ {"result"}))
  BY OfKindsType, OfKindsOnly DEF Rest
<1>2. OfKinds(Rest(blocks), kinds) = Only(Rest(blocks), OfK(kinds))
  BY <1>1, OfKindsOnly
<1>3. OfKinds(Rest(blocks), kinds) = Only(blocks, OfK(Kinds \ {"result"}) \cap OfK(kinds))
  <2> DEFINE R == OfK(Kinds \ {"result"})
             S == OfK(kinds)
             both == R \cap S
  <2> HIDE DEF R, S
  <2>1. \A s \in Seq(BlockT) : Only(Only(s, R), S) = Only(s, both)
    BY OnlyOnly
  <2> HIDE DEF both
  <2>2. Only(Only(blocks, R), S) = Only(blocks, both)
    BY <2>1
  <2> QED BY <1>1, <1>2, <2>2 DEF R, S, both
<1>4. OfK(Kinds \ {"result"}) \cap OfK(kinds) = OfK(kinds)
  BY DEF OfK, BlockT
<1> QED BY <1>3, <1>4, OfKindsOnly

LEMMA NoneOfKinds ==
  ASSUME NEW kinds PROVE OfKinds(<<>>, kinds) = <<>>
<1>1. <<>> \in Seq(BlockT)
  BY EmptySeq
<1> QED BY <1>1, OfKindsOnly, OnlyEmpty

LEMMA RestMessage ==
  ASSUME NEW blocks \in Seq(BlockT), NEW role
  PROVE  Message(Rest(blocks), role) = Message(blocks, role)
<1>1. OfKinds(Rest(blocks), {"text", "image"}) = OfKinds(blocks, {"text", "image"})
  BY RestKeeps
<1> QED BY <1>1 DEF Message, responseContent

LEMMA NothingConverted ==
  ASSUME NEW role PROVE Message(<<>>, role) = <<>> /\ ToolItems(<<>>) = <<>>
<1>1. /\ OfKinds(<<>>, {"text", "image"}) = <<>>
      /\ OfKinds(<<>>, {"call", "result"}) = <<>>
  BY NoneOfKinds
<1>2. responseContent(<<>>, role) = <<>>
  BY <1>1 DEF responseContent
<1>3. ToolItems(<<>>) = <<>>
  <2> DEFINE tools == OfKinds(<<>>, {"call", "result"})
             item(i) == Item(IF tools[i].kind = "call" THEN "function_call"
                             ELSE "function_call_output", "", <<tools[i]>>)
  <2>1. DOMAIN tools = {}
    BY <1>1
  <2> HIDE DEF tools, item
  <2>2. [i \in DOMAIN tools |-> item(i)] = <<>>
    BY <2>1
  <2> QED BY <2>2 DEF ToolItems, tools, item
<1> QED BY <1>2, <1>3 DEF Message

LEMMA Answers ==
  ASSUME NEW results \in Seq(OfK({"result"}))
  PROVE  ToolItems(results) = [i \in 1 .. Len(results) |-> Answer(results[i])]
<1> DEFINE tools == OfKinds(results, {"call", "result"})
           item(b) == Item(IF b.kind = "call" THEN "function_call"
                           ELSE "function_call_output", "", <<b>>)
<1>1. /\ results \in Seq(BlockT)
      /\ \A i \in 1 .. Len(results) : results[i] \in OfK({"result"})
      /\ OfK({"result"}) \subseteq BlockT
  <2>1. OfK({"result"}) \subseteq BlockT
    BY DEF OfK
  <2> QED BY <2>1, SeqMonotonic
<1>2. OfK({"result"}) \subseteq OfK({"call", "result"})
  BY DEF OfK
<1>3. tools = results
  <2>1. tools = Only(results, OfK({"call", "result"}))
    BY <1>1, OfKindsOnly
  <2>2. \A i \in 1 .. Len(results) : results[i] \in OfK({"call", "result"})
    BY <1>1, <1>2
  <2> QED BY <1>1, <2>1, <2>2, OnlyAll
<1>4. \A b \in OfK({"result"}) : item(b) = Answer(b)
  BY DEF OfK, Answer
<1> HIDE DEF tools, item
<1>5. ToolItems(results) = [i \in DOMAIN tools |-> item(tools[i])]
  BY DEF ToolItems, tools, item
<1>6. [i \in DOMAIN tools |-> item(tools[i])] = [i \in 1 .. Len(results) |-> Answer(results[i])]
  BY <1>1, <1>3, <1>4
<1> QED BY <1>5, <1>6

\* The tool messages of a turn add its answers, one each.
LEMMA ResultsConverted ==
  ASSUME NEW out \in OutT, NEW t \in TurnT, NEW f, Runs(f, out, ChatForm(t))
  PROVE  f[Len(OfKinds(t.blocks, {"result"}))] =
           [out EXCEPT !.input = @ \o ToolItems(OfKinds(t.blocks, {"result"}))]
<1> DEFINE results == OfKinds(t.blocks, {"result"})
           R == Len(results)
           ms == ChatForm(t)
           A(n) == [i \in 1 .. n |-> Answer(results[i])]
           Q == {n \in Nat : n <= R => f[n] = [out EXCEPT !.input = @ \o A(n)]}
<1>1. /\ results \in Seq(OfK({"result"})) /\ ms \in Seq(MessageT)
      /\ Len(ms) \in Nat /\ R <= Len(ms)
      /\ \A n \in 1 .. R : ms[n] = [role |-> "tool", blocks |-> <<results[n]>>]
  <2> HIDE DEF results, ms
  <2>1. /\ results \in Seq(OfK({"result"})) /\ ms \in Seq(MessageT)
        /\ Len(ms) = R + (IF OfKinds(t.blocks, Kinds \ {"result"}) = <<>> THEN 0 ELSE 1)
        /\ \A n \in 1 .. R : ms[n] = [role |-> "tool", blocks |-> <<results[n]>>]
    BY ChatFormType DEF results, ms
  <2> QED BY <2>1
<1>2. \A n \in 1 .. R : results[n] \in OfK({"result"}) /\ Answer(results[n]) \in ItemT
  <2>1. \A b \in OfK({"result"}) : Answer(b) \in ItemT
    <3> SUFFICES ASSUME NEW b \in OfK({"result"}) PROVE Answer(b) \in ItemT
      OBVIOUS
    <3>1. ToolItems(<<b>>) = <<Answer(b)>> /\ <<b>> \in Seq(BlockT)
      BY OneResult DEF OfK
    <3>2. <<Answer(b)>> \in Seq(ItemT)
      BY <3>1, ToolItemsType
    <3>3. <<Answer(b)>>[1] \in ItemT
      BY <3>2
    <3> QED BY <3>3
  <2> HIDE DEF results
  <2> QED BY <1>1, <2>1
<1>3. R \in Nat /\ out.input \in Seq(ItemT)
  BY <1>1 DEF OutT
<1> HIDE DEF results, ms
<1>4. 0 \in Q
  <2>1. f[0] = out
    BY DEF Runs
  <2>2. A(0) = <<>>
    OBVIOUS
  <2>3. out.input \o A(0) = out.input
    BY <1>3, <2>2
  <2>4. [out EXCEPT !.input = @ \o A(0)] = out
    BY <2>3 DEF OutT
  <2> QED BY <2>1, <2>4
<1>5. ASSUME NEW n \in Nat, n \in Q PROVE n + 1 \in Q
  <2> SUFFICES ASSUME n + 1 <= R PROVE f[n + 1] = [out EXCEPT !.input = @ \o A(n + 1)]
    OBVIOUS
  <2> DEFINE b == results[n + 1]
  <2>1. n + 1 \in 1 .. R /\ n + 1 \in 1 .. Len(ms) /\ (n + 1) - 1 = n
    BY <1>1, <1>3
  <2>2. b \in OfK({"result"}) /\ ms[n + 1] = [role |-> "tool", blocks |-> <<b>>]
    BY <1>1, <1>2, <2>1
  <2>3. f[n + 1] = ChatMessage(f[n], ms[n + 1])
    BY <2>1 DEF Runs, ms
  <2>4. f[n] = [out EXCEPT !.input = @ \o A(n)]
    BY <1>3, <1>5, <2>1
  <2> HIDE DEF b
  <2>5. Message(<<b>>, "tool") = <<>> /\ ToolItems(<<b>>) = <<Answer(b)>>
    BY <2>2, OneResult
  <2>6. f[n + 1] = [f[n] EXCEPT !.input = @ \o <<>> \o <<Answer(b)>>]
    <3> DEFINE m == ms[n + 1]
               bs == <<b>>
    <3> HIDE DEF m, bs
    <3>1. m.role = "tool" /\ m.blocks = bs
      BY <2>2 DEF m, bs
    <3>2. ChatMessage(f[n], m) =
            [f[n] EXCEPT !.input = @ \o Message(m.blocks, m.role) \o ToolItems(m.blocks)]
      BY <3>1 DEF ChatMessage
    <3>3. Message(m.blocks, m.role) = <<>> /\ ToolItems(m.blocks) = <<Answer(b)>>
      BY <2>5, <3>1 DEF bs
    <3> QED BY <2>3, <3>2, <3>3 DEF m
  <2>7. A(n) \in Seq(ItemT) /\ Answer(b) \in ItemT
    BY <1>2, <2>1 DEF b
  <2>8. A(n + 1) = A(n) \o <<Answer(b)>>
    <3>1. A(n + 1) \in Seq(ItemT) /\ Len(A(n + 1)) = n + 1
      BY <1>2, <2>1
    <3>2. \A i \in 1 .. n + 1 : A(n + 1)[i] = (A(n) \o <<Answer(b)>>)[i]
      BY <2>7 DEF b
    <3>3. /\ A(n) \o <<Answer(b)>> \in Seq(ItemT)
          /\ Len(A(n) \o <<Answer(b)>>) = n + 1
      BY <2>7
    <3> QED BY <3>1, <3>2, <3>3, SeqEqual
  <2> DEFINE before == A(n)
             item == Answer(b)
             now == A(n + 1)
  <2> HIDE DEF before, item, now, A
  <2>9. f[n].input = out.input \o before
    BY <2>4 DEF OutT, before
  <2>10. f[n].input \o <<>> \o <<item>> = out.input \o now
    <3>1. before \in Seq(ItemT) /\ item \in ItemT /\ now = before \o <<item>>
      BY <2>7, <2>8 DEF before, item, now
    <3>2. (out.input \o before) \o <<>> = out.input \o before
      BY <1>3, <3>1
    <3>3. (out.input \o before) \o <<item>> = out.input \o (before \o <<item>>)
      <4> DEFINE one == <<item>>
      <4>1. one \in Seq(ItemT)
        BY <3>1
      <4> DEFINE old == out.input
      <4>2. old \in Seq(ItemT)
        BY <1>3
      <4> HIDE DEF one, old
      <4>3. (old \o before) \o one = old \o (before \o one)
        BY <3>1, <4>1, <4>2, Regrouped
      <4> QED BY <4>3 DEF one, old
    <3> QED BY <2>9, <3>1, <3>2, <3>3
  <2>11. f[n + 1] = [f[n] EXCEPT !.input = out.input \o now]
    BY <2>6, <2>10 DEF item
  <2>12. [f[n] EXCEPT !.input = out.input \o now] = [out EXCEPT !.input = out.input \o now]
    BY <2>4
  <2> QED BY <2>11, <2>12 DEF now
<1> HIDE DEF Q
<1>6. Nat \subseteq Q
  BY <1>4, <1>5, NatInduct
<1>7. f[R] = [out EXCEPT !.input = @ \o A(R)]
  <2>1. R \in Q
    BY <1>3, <1>6
  <2> HIDE DEF A
  <2>2. R <= R => f[R] = [out EXCEPT !.input = @ \o A(R)]
    BY <2>1 DEF Q
  <2> QED BY <1>3, <2>2
<1>8. ToolItems(results) = A(R)
  BY <1>1, Answers
<1> QED BY <1>7, <1>8 DEF results

\* The loop of chatToResponses over the messages of a turn.
LEMMA ChatTurn ==
  ASSUME NEW out \in OutT, NEW t \in TurnT, t.role # "system"
  PROVE  ChatMessages(out, ChatForm(t)) = [out EXCEPT !.input = @ \o ChatNews(t)]
<1> DEFINE results == OfKinds(t.blocks, {"result"})
           rest == Rest(t.blocks)
           ms == ChatForm(t)
           R == Len(results)
           a == ToolItems(results)
           b == Message(t.blocks, t.role)
           c == ToolItems(rest)
           then == [out EXCEPT !.input = @ \o a]
<1>1. /\ t.blocks \in Seq(BlockT) /\ t.role \in Speakers
      /\ results \in Seq(BlockT) /\ rest \in Seq(BlockT)
  BY OfKindsType DEF TurnT, Rest
<1>2. /\ R \in Nat /\ ms \in Seq(MessageT)
      /\ Len(ms) = R + (IF rest = <<>> THEN 0 ELSE 1)
      /\ rest # <<>> => ms[R + 1] = [role |-> t.role, blocks |-> rest]
  <2> HIDE DEF results, ms
  <2>1. /\ ms \in Seq(MessageT)
        /\ Len(ms) = R + (IF OfKinds(t.blocks, Kinds \ {"result"}) = <<>> THEN 0 ELSE 1)
        /\ OfKinds(t.blocks, Kinds \ {"result"}) # <<>> =>
             ms[R + 1] = [role |-> t.role, blocks |-> OfKinds(t.blocks, Kinds \ {"result"})]
    BY ChatFormType DEF results, ms
  <2> QED BY <1>1, <2>1 DEF Rest
<1>3. PICK f : Runs(f, out, ms)
  <2> HIDE DEF ms
  <2> QED BY <1>2, ChatPasses
<1>4. f[R] = then
  BY <1>3, ResultsConverted
<1>5. /\ a \in Seq(ItemT) /\ b \in Seq(ItemT) /\ c \in Seq(ItemT)
      /\ out.input \in Seq(ItemT)
  BY <1>1, ToolItemsType, MessageType DEF OutT
<1>6. Message(rest, t.role) = b
  BY <1>1, RestMessage
<1>7. rest = <<>> => b = <<>> /\ c = <<>>
  BY <1>6, NothingConverted
<1>8. ChatMessages(out, ms) = f[Len(ms)] /\ \A n \in 1 .. Len(ms) : f[n] = ChatMessage(f[n - 1], ms[n])
  BY <1>3 DEF Runs
<1> HIDE DEF results, rest, ms, a, b, c
<1>9. ChatMessages(out, ms) = [out EXCEPT !.input = @ \o (a \o b \o c)]
  <2>1. CASE rest = <<>>
    <3>1. a \o b \o c = a
      BY <1>5, <1>7, <2>1
    <3>2. f[Len(ms)] = then
      BY <1>2, <1>4, <2>1
    <3> QED BY <1>8, <3>1, <3>2
  <2>2. CASE rest # <<>>
    <3> DEFINE m == ms[R + 1]
    <3>1. R + 1 \in 1 .. Len(ms) /\ Len(ms) = R + 1 /\ (R + 1) - 1 = R
      BY <1>2, <2>2
    <3>2. ChatMessages(out, ms) = ChatMessage(then, m)
      BY <1>4, <1>8, <3>1
    <3>3. m.role = t.role /\ m.blocks = rest
      BY <1>2, <2>2
    <3> HIDE DEF m, then
    <3>4. ChatMessage(then, m) =
            [then EXCEPT !.input = @ \o Message(m.blocks, m.role) \o ToolItems(m.blocks)]
      BY <3>3 DEF ChatMessage
    <3>5. Message(m.blocks, m.role) = b /\ ToolItems(m.blocks) = c
      BY <1>6, <3>3 DEF c
    <3>6. then.input = out.input \o a
      BY DEF then, OutT
    <3>7. (out.input \o a) \o b \o c = out.input \o (a \o b \o c)
      <4> DEFINE old == out.input
      <4>1. old \in Seq(ItemT)
        BY <1>5
      <4> HIDE DEF old
      <4>2. a \o b \in Seq(ItemT) /\ old \o a \in Seq(ItemT)
        BY <1>5, <4>1
      <4>3. (old \o a) \o b = old \o (a \o b)
        BY <1>5, <4>1, Regrouped, Zenon
      <4>4. (old \o (a \o b)) \o c = old \o ((a \o b) \o c)
        <5> DEFINE ab == a \o b
        <5>1. ab \in Seq(ItemT)
          BY <4>2
        <5> HIDE DEF ab
        <5>2. (old \o ab) \o c = old \o (ab \o c)
          <6>1. old \in Seq(ItemT) /\ ab \in Seq(ItemT) /\ c \in Seq(ItemT)
            BY <1>5, <4>1, <5>1
          <6> QED BY <6>1, Regrouped, Zenon
        <5> QED BY <5>2 DEF ab
      <4> QED BY <4>3, <4>4 DEF old
    <3>8. ChatMessages(out, ms) = [then EXCEPT !.input = out.input \o (a \o b \o c)]
      BY <3>2, <3>4, <3>5, <3>6, <3>7
    <3> QED BY <3>8 DEF then
  <2> QED BY <2>1, <2>2
<1> QED BY <1>9 DEF ChatNews, results, rest, ms, a, b, c

LEMMA ChatSystem ==
  ASSUME NEW out \in OutT, NEW t \in TurnT, t.role = "system", WellSaid(t)
  PROVE  ChatMessages(out, ChatForm(t)) = Instruct(out, t.blocks)
<1> DEFINE results == OfKinds(t.blocks, {"result"})
           rest == Rest(t.blocks)
           ms == ChatForm(t)
<1>1. t.blocks \in Seq(BlockT) /\ rest \in Seq(BlockT)
  BY OfKindsType DEF TurnT, Rest
<1>2. results = <<>>
  <2>1. \A i \in 1 .. Len(t.blocks) : t.blocks[i] \notin OfK({"result"})
    BY <1>1 DEF WellSaid, MayUse, OfK
  <2> QED BY <1>1, <2>1, OfKindsOnly, OnlyNone
<1>3. /\ ms \in Seq(MessageT)
      /\ Len(ms) = IF rest = <<>> THEN 0 ELSE 1
      /\ rest # <<>> => ms[1] = [role |-> t.role, blocks |-> rest]
  <2> HIDE DEF results, ms
  <2>1. /\ ms \in Seq(MessageT)
        /\ Len(ms) = Len(results)
                       + (IF OfKinds(t.blocks, Kinds \ {"result"}) = <<>> THEN 0 ELSE 1)
        /\ OfKinds(t.blocks, Kinds \ {"result"}) # <<>> => ms[Len(results) + 1] =
             [role |-> t.role, blocks |-> OfKinds(t.blocks, Kinds \ {"result"})]
    BY ChatFormType DEF results, ms
  <2> QED BY <1>1, <1>2, <2>1 DEF Rest
<1>4. PICK f : Runs(f, out, ms)
  <2> HIDE DEF ms
  <2> QED BY <1>3, ChatPasses
<1>5. OfKinds(rest, {"text"}) = OfKinds(t.blocks, {"text"})
  BY <1>1, RestKeeps
<1>6. /\ ChatMessages(out, ms) = f[Len(ms)] /\ f[0] = out
      /\ \A n \in 1 .. Len(ms) : f[n] = ChatMessage(f[n - 1], ms[n])
  BY <1>4 DEF Runs
<1> HIDE DEF results, rest, ms
<1>7. CASE rest = <<>>
  <2> DEFINE said == OfKinds(t.blocks, {"text"})
  <2>1. said = <<>>
    BY <1>5, <1>7, NoneOfKinds
  <2>2. out.instructions \o said = out.instructions
    BY <2>1 DEF OutT
  <2> HIDE DEF said
  <2>3. [out EXCEPT !.instructions = @ \o said] = out
    BY <2>2 DEF OutT
  <2>4. Instruct(out, t.blocks) = out
    BY <2>3 DEF Instruct, said
  <2> QED BY <1>3, <1>6, <1>7, <2>4 DEF ms
<1>8. CASE rest # <<>>
  <2> DEFINE m == ms[1]
  <2>1. 1 \in 1 .. Len(ms) /\ Len(ms) = 1
    BY <1>3, <1>8
  <2>2. ChatMessages(out, ms) = ChatMessage(out, m)
    BY <1>6, <2>1
  <2>3. m.role = "system" /\ m.blocks = rest
    BY <1>3, <1>8
  <2> HIDE DEF m
  <2>4. ChatMessage(out, m) = Instruct(out, rest)
    BY <2>3 DEF ChatMessage
  <2> QED BY <1>5, <2>2, <2>4 DEF Instruct, ms
<1> QED BY <1>7, <1>8

-----------------------------------------------------------------------------
\* What a client may have written, and the types of what is made of it.
Conversation ==
  /\ request \in Requests
  /\ phase \in {"writing", "sent", "refused"}
  /\ turns \in Seq(TurnT) /\ turn \in TurnT
  /\ WellSaid(turn) /\ \A t \in DOMAIN turns : WellSaid(turns[t])
  /\ Len(turns) <= request.turns /\ Len(turn.blocks) <= request.blocks
  /\ turn.blocks # <<>> => Len(turns) < request.turns

Outputs ==
  /\ phase # "sent" => chat \in OutT /\ anthropic \in OutT
  /\ chat.input \in Seq(ItemT) /\ anthropic.input \in Seq(ItemT)

LEMMA UnansweredType ==
  ASSUME Conversation PROVE Unanswered \subseteq Nat \X Nat
<1> DEFINE all == Append(turns, turn)
<1>1. all \in Seq(TurnT)
  BY DEF Conversation
<1> HIDE DEF all
<1>2. \A t \in ToSet(all) : ToSet(t.blocks) \subseteq BlockT
  <2> SUFFICES ASSUME NEW t \in ToSet(all) PROVE ToSet(t.blocks) \subseteq BlockT
    OBVIOUS
  <2>1. t \in TurnT
    BY <1>1 DEF ToSet
  <2>2. t.blocks \in Seq(BlockT)
    BY <2>1 DEF TurnT
  <2> DEFINE bs == t.blocks
  <2>3. bs \in Seq(BlockT)
    BY <2>2
  <2> HIDE DEF bs
  <2>4. ToSet(bs) \subseteq BlockT
    BY <2>3 DEF ToSet
  <2> QED BY <2>4 DEF bs
<1> DEFINE said == UNION {ToSet(t.blocks) : t \in ToSet(all)}
<1>3. said \subseteq BlockT
  BY <1>2
<1> HIDE DEF said
<1>4. \A b \in said : b.id \in Nat \X Nat
  BY <1>3 DEF BlockT
<1>5. {b.id : b \in {c \in said : c.kind = "call"}} \subseteq Nat \X Nat
  BY <1>4
<1> QED BY <1>5 DEF Unanswered, said, all

LEMMA ConversationStep ==
  ASSUME Conversation, [Next]_vars PROVE Conversation'
<1> USE RequestAssumption DEF RequestAssumption
<1>0. /\ turns \in Seq(TurnT) /\ turn \in TurnT /\ turn.blocks \in Seq(BlockT)
      /\ turn.role \in Speakers \cup {"system"} /\ Len(turns) \in Nat
      /\ request.turns \in Nat /\ request.blocks \in Nat
  BY DEF Conversation, TurnT
<1>1. ASSUME NEW kind \in Kinds, NEW of \in Unanswered \cup {NoCall}, Say(kind, of)
      PROVE  Conversation'
  <2> DEFINE b == Block(kind, <<Len(turns) + 1, Len(turn.blocks) + 1>>, of)
             bs == Append(turn.blocks, b)
  <2>1. /\ turn' = [turn EXCEPT !.blocks = bs]
        /\ kind \in MayUse(turn.role) /\ Len(turns) < request.turns
        /\ Len(turn.blocks) < request.blocks /\ phase = "writing"
        /\ UNCHANGED <<request, turns, phase>>
    BY <1>1 DEF Say
  <2>2. of \in Nat \X Nat
    BY UnansweredType DEF NoCall
  <2>3. b \in BlockT /\ b.kind = kind
    BY <1>0, <2>2 DEF Block, BlockT
  <2> HIDE DEF b
  <2>4. bs \in Seq(BlockT) /\ Len(bs) = Len(turn.blocks) + 1 /\ bs # <<>>
    BY <1>0, <2>3, AppendProperties
  <2>5. \A i \in 1 .. Len(bs) : bs[i].kind \in MayUse(turn.role)
    <3> SUFFICES ASSUME NEW i \in 1 .. Len(bs) PROVE bs[i].kind \in MayUse(turn.role)
      OBVIOUS
    <3>1. bs[i] = b \/ (i \in 1 .. Len(turn.blocks) /\ bs[i] = turn.blocks[i])
      BY <1>0, <2>3
    <3>2. \A j \in 1 .. Len(turn.blocks) : turn.blocks[j].kind \in MayUse(turn.role)
      BY <1>0 DEF Conversation, WellSaid
    <3> QED BY <2>1, <2>3, <3>1, <3>2
  <2> HIDE DEF bs
  <2>6. turn' \in TurnT /\ turn'.blocks = bs /\ turn'.role = turn.role
    BY <1>0, <2>1, <2>4 DEF TurnT
  <2>7. WellSaid(turn')
    BY <2>4, <2>5, <2>6 DEF WellSaid
  <2> QED BY <1>0, <2>1, <2>4, <2>6, <2>7 DEF Conversation
<1>2. CASE Convert
  <2>1. /\ turns' = Append(turns, turn) /\ turn.blocks # <<>>
        /\ UNCHANGED <<request, phase>>
    BY <1>2 DEF Convert
  <2>2. PICK role \in Speakers \cup {"system"} : turn' = Turn(role)
    BY <1>2 DEF Convert, Speakers
  <2>3. turn' \in TurnT /\ turn'.blocks = <<>> /\ WellSaid(turn')
    BY <2>2 DEF Turn, TurnT, WellSaid
  <2>4. turns' \in Seq(TurnT) /\ Len(turns') = Len(turns) + 1
    BY <1>0, <2>1
  <2>5. \A t \in DOMAIN turns' : WellSaid(turns'[t])
    <3> SUFFICES ASSUME NEW t \in 1 .. Len(turns) + 1 PROVE WellSaid(turns'[t])
      BY <2>4
    <3>1. turns'[t] = turn \/ (t \in DOMAIN turns /\ turns'[t] = turns[t])
      BY <1>0, <2>1
    <3> QED BY <3>1 DEF Conversation
  <2> QED BY <1>0, <2>1, <2>3, <2>4, <2>5 DEF Conversation
<1>3. CASE Send
  BY <1>3 DEF Send, Conversation
<1>4. CASE UNCHANGED vars
  BY <1>4 DEF vars, Conversation
<1> QED BY <1>1, <1>2, <1>3, <1>4 DEF Next

LEMMA ConversationInit == Init => Conversation
<1> SUFFICES ASSUME Init PROVE Conversation
  OBVIOUS
<1>1. PICK role \in {"system", "user"} : turn = Turn(role)
  BY DEF Init
<1>2. turn \in TurnT /\ turn.blocks = <<>> /\ WellSaid(turn)
  BY <1>1 DEF Turn, TurnT, Speakers, WellSaid
<1>3. turns \in Seq(TurnT) /\ Len(turns) = 0 /\ DOMAIN turns = {}
  BY DEF Init
<1>4. request.turns \in Nat /\ request.blocks \in Nat /\ request \in Requests
  BY RequestAssumption DEF RequestAssumption, Init
<1> QED BY <1>2, <1>3, <1>4 DEF Conversation, Init

\* Where both conversions stand after a turn.
LEMMA Converted ==
  ASSUME Conversation, Outputs, Convert
  PROVE  /\ chat' = IF turn.role = "system" THEN Instruct(chat, turn.blocks)
                    ELSE [chat EXCEPT !.input = @ \o ChatNews(turn)]
         /\ anthropic' = IF turn.role = "system" THEN Instruct(anthropic, turn.blocks)
                         ELSE [anthropic EXCEPT !.input = @ \o AnthropicNews(turn)]
<1>1. chat \in OutT /\ anthropic \in OutT /\ turn \in TurnT /\ WellSaid(turn)
  BY DEF Convert, Outputs, Conversation
<1>2. /\ chat' = ChatMessages(chat, ChatForm(turn))
      /\ anthropic' = AnthropicMessage(anthropic, turn)
  BY DEF Convert
<1>3. chat' = IF turn.role = "system" THEN Instruct(chat, turn.blocks)
              ELSE [chat EXCEPT !.input = @ \o ChatNews(turn)]
  BY <1>1, <1>2, ChatTurn, ChatSystem
<1>4. CASE turn.role = "system"
  BY <1>2, <1>3, <1>4 DEF AnthropicMessage
<1>5. CASE turn.role # "system"
  <2> DEFINE a == ToolItems(turn.blocks)
             b == Message(turn.blocks, turn.role)
  <2>1. turn.blocks \in Seq(BlockT) /\ turn.role \in Speakers
    BY <1>1, <1>5 DEF TurnT
  <2>2. a \in Seq(ItemT) /\ b \in Seq(ItemT) /\ anthropic.input \in Seq(ItemT)
    BY <1>1, <2>1, ToolItemsType, MessageType DEF OutT
  <2>3. anthropic' = [anthropic EXCEPT !.input = @ \o a \o b]
    BY <1>2, <1>5 DEF AnthropicMessage
  <2>4. anthropic.input \o a \o b = anthropic.input \o (a \o b)
    <3> DEFINE old == anthropic.input
    <3>1. old \in Seq(ItemT)
      BY <2>2
    <3> HIDE DEF a, b, old
    <3>2. (old \o a) \o b = old \o (a \o b)
      BY <2>2, <3>1, Regrouped
    <3> QED BY <3>2 DEF old
  <2> HIDE DEF a, b
  <2>5. anthropic' = [anthropic EXCEPT !.input = @ \o (a \o b)]
    BY <2>3, <2>4
  <2> QED BY <1>3, <1>5, <2>5 DEF AnthropicNews, a, b
<1> QED BY <1>4, <1>5

LEMMA NewsType ==
  ASSUME NEW t \in TurnT, t.role # "system"
  PROVE  ChatNews(t) \in Seq(ItemT) /\ AnthropicNews(t) \in Seq(ItemT)
<1>1. /\ t.blocks \in Seq(BlockT) /\ t.role \in Speakers
      /\ OfKinds(t.blocks, {"result"}) \in Seq(BlockT) /\ Rest(t.blocks) \in Seq(BlockT)
  BY OfKindsType DEF TurnT, Rest
<1> DEFINE a == ToolItems(OfKinds(t.blocks, {"result"}))
           b == Message(t.blocks, t.role)
           c == ToolItems(Rest(t.blocks))
           d == ToolItems(t.blocks)
<1>2. /\ a \in Seq(ItemT) /\ b \in Seq(ItemT) /\ c \in Seq(ItemT) /\ d \in Seq(ItemT)
  BY <1>1, ToolItemsType, MessageType
<1> HIDE DEF a, b, c, d
<1>3. a \o b \o c \in Seq(ItemT) /\ d \o b \in Seq(ItemT)
  BY <1>2
<1> QED BY <1>3 DEF ChatNews, AnthropicNews, a, b, c, d

LEMMA OutputsStep ==
  ASSUME Conversation, Outputs, [Next]_vars PROVE Outputs'
<1>1. CASE Convert
  <2>1. chat \in OutT /\ anthropic \in OutT /\ turn \in TurnT /\ phase' = "writing"
    BY <1>1 DEF Convert, Outputs, Conversation
  <2>2. turn.blocks \in Seq(BlockT)
    BY <2>1 DEF TurnT
  <2>3. CASE turn.role = "system"
    BY <1>1, <2>1, <2>2, <2>3, Converted, InstructType DEF Outputs, OutT
  <2>4. CASE turn.role # "system"
    <3>1. chat' \in OutT /\ anthropic' \in OutT
      BY <1>1, <2>1, <2>4, Converted, NewsType, AddType
    <3> QED BY <3>1 DEF Outputs, OutT
  <2> QED BY <2>3, <2>4
<1>2. CASE Send
  <2>1. CASE phase' = "sent"
    <3>1. ASSUME NEW out, NEW choice, out.input \in Seq(ItemT)
          PROVE  Payload(out, choice).input \in Seq(ItemT)
      <4> DEFINE b == Block("input_text", NoCall, NoCall)
                 one == <<b>>
      <4>1. b \in PartT
        BY DEF Block, PartT, NoCall
      <4>2. one \in Seq(PartT) /\ one # <<>>
        BY <4>1
      <4> HIDE DEF one
      <4>3. Item("message", "user", one) \in ItemT
        BY <4>2 DEF Item, ItemT, Speakers
      <4> DEFINE item == Item("message", "user", one)
      <4> HIDE DEF item
      <4>4. <<item>> \in Seq(ItemT)
        BY <4>3 DEF item
      <4>5. Payload(out, choice).input = IF out.input = <<>> THEN <<item>> ELSE out.input
        BY DEF Payload, item, one
      <4> QED BY <3>1, <4>4, <4>5
    <3>2. \E c1, c2 : chat' = Payload(chat, c1) /\ anthropic' = Payload(anthropic, c2)
      BY <1>2, <2>1 DEF Send
    <3> QED BY <2>1, <3>1, <3>2 DEF Outputs
  <2>2. CASE phase' # "sent"
    BY <1>2, <2>2 DEF Send, Outputs
  <2> QED BY <2>1, <2>2
<1>3. ASSUME NEW kind \in Kinds, NEW of \in Unanswered \cup {NoCall}, Say(kind, of)
      PROVE  Outputs'
  BY <1>3 DEF Say, Outputs
<1>4. CASE UNCHANGED vars
  BY <1>4 DEF vars, Outputs
<1> QED BY <1>1, <1>2, <1>3, <1>4 DEF Next

LEMMA Types == Spec => [](Conversation /\ Outputs)
<1>1. Init => Outputs
  <2> SUFFICES ASSUME Init PROVE Outputs
    OBVIOUS
  <2>1. <<>> \in Seq(ItemT) /\ <<>> \in Seq(BlockT)
    BY EmptySeq
  <2> QED BY <2>1 DEF Init, Outputs, OutT
<1>2. Conversation /\ Outputs /\ [Next]_vars => Conversation' /\ Outputs'
  BY ConversationStep, OutputsStep
<1> QED BY <1>1, <1>2, ConversationInit, PTL DEF Spec

\* Every item a conversion makes is a message of a speaker or a call or result
\* without one, and none is without content, for conversations of any length
\* (request.go:76, 134).
THEOREM TypesCorrect == Spec => []TypeOK
<1>1. Conversation /\ Outputs => TypeOK
  <2> SUFFICES ASSUME Conversation, Outputs PROVE TypeOK
    OBVIOUS
  <2>1. \A out \in {chat, anthropic} : \A i \in 1 .. Len(out.input) : out.input[i] \in ItemT
    BY DEF Outputs
  <2>2. \A out \in {chat, anthropic} : DOMAIN out.input = 1 .. Len(out.input)
    BY DEF Outputs
  <2> QED BY <2>1, <2>2 DEF Conversation, TypeOK, ItemT, Speakers
<1> QED BY <1>1, Types, PTL

-----------------------------------------------------------------------------
Models == {"grok-4.6", "grok-4.5", "grok-composer-2.5-fast"}

LEMMA BasesType == \A base \in DOMAIN Bases : Bases[base] \in Models
BY DEF Bases, Models

LEMMA CanonicalType == \A name : canonicalModel(name) \in Models \cup {""}
BY BasesType DEF canonicalModel

\* What the calls to the upstream were made of.
Payloads ==
  /\ phase = "refused" => canonicalModel(request.model) = ""
  /\ phase = "sent" =>
       /\ canonicalModel(request.model) # ""
       /\ chat.model = canonicalModel(request.model)
       /\ chat.reasoning = formatReasoning(request.effort, chat.model)
       /\ chat.tools = Tools(request.tools)
       /\ chat.choice = openAIToolChoice(request.choice, chat.tools)
       /\ anthropic.choice = anthropicToolChoice(AnthropicSpelling(request.choice))

LEMMA PayloadsKept == Spec => []Payloads
<1>1. Init => Payloads
  BY DEF Init, Payloads
<1>2. Payloads /\ [Next]_vars => Payloads'
  <2> SUFFICES ASSUME Payloads, [Next]_vars PROVE Payloads'
    OBVIOUS
  <2>1. CASE Send
    <3>1. CASE canonicalModel(request.model) = ""
      BY <2>1, <3>1 DEF Send, Payloads
    <3>2. CASE canonicalModel(request.model) # ""
      <4>1. /\ phase' = "sent" /\ request' = request
            /\ chat' = Payload(chat, openAIToolChoice(request.choice, Tools(request.tools)))
            /\ anthropic' = Payload(anthropic,
                                    anthropicToolChoice(AnthropicSpelling(request.choice)))
        BY <2>1, <3>2 DEF Send
      <4> QED BY <3>2, <4>1 DEF Payload, Payloads
    <3> QED BY <3>1, <3>2
  <2>2. CASE Convert
    BY <2>2 DEF Convert, Payloads
  <2>3. ASSUME NEW kind \in Kinds, NEW of \in Unanswered \cup {NoCall}, Say(kind, of)
        PROVE  Payloads'
    BY <2>3 DEF Say, Payloads
  <2>4. CASE UNCHANGED vars
    BY <2>4 DEF vars, Payloads
  <2> QED BY <2>1, <2>2, <2>3, <2>4 DEF Next
<1> QED BY <1>1, <1>2, PTL DEF Spec

\* The first field of four that says something is found.
LEMMA FirstSaid ==
  ASSUME NEW said \in SUBSET (1 .. 4), said # {}
  PROVE  \E i \in said : \A j \in said : i <= j
<1>1. CASE 1 \in said
  BY <1>1
<1>2. CASE 1 \notin said /\ 2 \in said
  BY <1>2
<1>3. CASE 1 \notin said /\ 2 \notin said /\ 3 \in said
  BY <1>3
<1>4. CASE 1 \notin said /\ 2 \notin said /\ 3 \notin said
  <2>1. \A j \in said : j = 4
    BY <1>4
  <2>2. 4 \in said
    BY <2>1
  <2> QED BY <2>1, <2>2
<1> QED BY <1>1, <1>2, <1>3, <1>4

LEMMA AskedEffort ==
  ASSUME NEW e
  PROVE  reasoningEffort(e) # "" <=> e.adaptive \/ {e.flat, e.nested, e.output, e.thinking} # {""}
<1> DEFINE fields == <<e.flat, e.nested, e.output, e.thinking>>
           said == {i \in 1 .. 4 : fields[i] # ""}
<1>1. said # {} <=> {e.flat, e.nested, e.output, e.thinking} # {""}
  <2>1. fields[1] = e.flat /\ fields[2] = e.nested /\ fields[3] = e.output /\ fields[4] = e.thinking
    OBVIOUS
  <2> HIDE DEF fields
  <2>2. said # {} <=> \/ fields[1] # "" \/ fields[2] # "" \/ fields[3] # "" \/ fields[4] # ""
    <3>1. \A i \in 1 .. 4 : i = 1 \/ i = 2 \/ i = 3 \/ i = 4
      OBVIOUS
    <3>2. ASSUME said # {}
          PROVE  \/ fields[1] # "" \/ fields[2] # "" \/ fields[3] # "" \/ fields[4] # ""
      <4>1. PICK i \in 1 .. 4 : fields[i] # ""
        BY <3>2
      <4> QED BY <3>1, <4>1
    <3>3. ASSUME \/ fields[1] # "" \/ fields[2] # "" \/ fields[3] # "" \/ fields[4] # ""
          PROVE  said # {}
      <4>1. \A i \in 1 .. 4 : fields[i] # "" => i \in said
        OBVIOUS
      <4>2. {1, 2, 3, 4} \subseteq 1 .. 4
        OBVIOUS
      <4> HIDE DEF said
      <4> QED BY <3>3, <4>1, <4>2
    <3> QED BY <3>2, <3>3
  <2> QED BY <2>1, <2>2
<1>2. CASE said # {}
  <2>1. PICK i \in said : reasoningEffort(e) = fields[i]
    <3>1. reasoningEffort(e) = fields[CHOOSE i \in said : \A j \in said : i <= j]
      BY <1>2 DEF reasoningEffort
    <3> HIDE DEF said
    <3>2. said \in SUBSET (1 .. 4)
      BY DEF said
    <3> HIDE DEF fields
    <3> QED BY <1>2, <3>1, <3>2, FirstSaid
  <2> QED BY <1>1, <1>2, <2>1
<1>3. CASE said = {}
  BY <1>1, <1>3 DEF reasoningEffort
<1> QED BY <1>2, <1>3

LEMMA EffortTables ==
  \A raw : /\ normalizeEffort(raw, "grok-4.6") # "" /\ normalizeEffort(raw, "grok-4.5") # ""
           /\ normalizeEffort(raw, "grok-4.5") =
                IF normalizeEffort(raw, "grok-4.6") = "xhigh" THEN "high"
                ELSE normalizeEffort(raw, "grok-4.6")
<1> TAKE raw
<1>1. /\ Effort46(raw) # "" /\ Effort45(raw) # ""
      /\ Effort45(raw) = IF Effort46(raw) = "xhigh" THEN "high" ELSE Effort46(raw)
  BY DEF Effort46, Effort45
<1> QED BY <1>1 DEF normalizeEffort

\* Whatever word each field holds, an effort reaches a model that has efforts
\* exactly when a field that is read asks for it, and the two tables of
\* normalizeEffort give every word the same meaning (request.go:273-335).
THEOREM EffortCorrect == Spec => []EffortHonoured
<1>1. Payloads => EffortHonoured
  <2> SUFFICES ASSUME Payloads, phase = "sent" PROVE EffortHonoured
    BY DEF EffortHonoured
  <2>1. chat.model \in Models /\ chat.reasoning = formatReasoning(request.effort, chat.model)
    BY CanonicalType DEF Payloads
  <2>2. chat.reasoning # "" <=> chat.model # "grok-composer-2.5-fast"
                                /\ reasoningEffort(request.effort) # ""
    BY <2>1, EffortTables DEF formatReasoning, Models
  <2>3. chat.model = "grok-4.5" => chat.reasoning =
          IF formatReasoning(request.effort, "grok-4.6") = "xhigh" THEN "high"
          ELSE formatReasoning(request.effort, "grok-4.6")
    BY <2>1, EffortTables DEF formatReasoning
  <2> QED BY <2>2, <2>3, AskedEffort DEF EffortHonoured
<1> QED BY <1>1, PayloadsKept, PTL

\* The passes of the loop of canonicalModel, each from the one before.
Trims(f, name) ==
  /\ f[0] = name
  /\ \A n \in 1 .. Len(name) : f[n] = TrimOnce(f[n - 1])
  /\ Trim(name) = f[Len(name)]

LEMMA TrimType ==
  ASSUME NEW T, NEW name \in Seq(T), NEW suffix
  PROVE  TrimSuffix(name, suffix) \in Seq(T)
<1>1. name # <<>> => Front(name) \in Seq(T)
  BY DEF Front
<1> QED BY <1>1 DEF TrimSuffix

LEMMA TrimPasses ==
  ASSUME NEW T, NEW name \in Seq(T)
  PROVE  \E f : Trims(f, name)
<1> DEFINE N == Len(name)
           V == Seq(T)
           Body(f) == [n \in 0 .. N |-> IF n = 0 THEN name ELSE TrimOnce(f[n - 1])]
           pass == CHOOSE f : f = Body(f)
           G == [p \in (1 .. N) \X V |-> TrimOnce(p[2])]
<1>1. N \in Nat
  OBVIOUS
<1>2. G \in Steps(N, V)
  <2>1. \A p \in (1 .. N) \X V : TrimOnce(p[2]) \in V
    BY TrimType DEF TrimOnce
  <2> QED BY <2>1 DEF Steps
<1>3. PICK g \in [0 .. N -> V] :
        g[0] = name /\ \A n \in 1 .. N : g[n] = G[<<n, g[n - 1]>>]
  <2>1. Passes(G, name, N, V) # {}
    <3> HIDE DEF G, N, V
    <3> QED BY <1>1, <1>2, Recursion DEF V
  <2> QED BY <2>1 DEF Passes
<1>4. \A n \in 1 .. N : g[n] = TrimOnce(g[n - 1])
  <2> SUFFICES ASSUME NEW n \in 1 .. N PROVE g[n] = TrimOnce(g[n - 1])
    OBVIOUS
  <2>1. n - 1 \in 0 .. N
    BY <1>1
  <2>2. <<n, g[n - 1]>> \in (1 .. N) \X V
    BY <1>3, <2>1
  <2>3. g[n] = G[<<n, g[n - 1]>>]
    BY <1>3
  <2> QED BY <2>2, <2>3
<1>5. g = Body(g)
  <2>1. g = [n \in 0 .. N |-> g[n]]
    BY <1>3
  <2>2. \A n \in 0 .. N : n = 0 \/ n \in 1 .. N
    BY <1>1
  <2> HIDE DEF N
  <2>3. \A n \in 0 .. N : g[n] = IF n = 0 THEN name ELSE TrimOnce(g[n - 1])
    BY <1>3, <1>4, <2>2
  <2> QED BY <2>1, <2>3
<1>6. pass = Body(pass)
  BY <1>5
<1>7. Trim(name) = pass[N]
  BY DEF Trim
<1> HIDE DEF pass, N
<1>8. pass[0] = name
  <2>1. 0 \in 0 .. N
    BY <1>1
  <2> QED BY <1>6, <2>1
<1>9. \A n \in 1 .. N : pass[n] = TrimOnce(pass[n - 1])
  <2>1. \A n \in 1 .. N : n \in 0 .. N /\ n # 0
    BY <1>1
  <2> QED BY <1>6, <2>1
<1> QED BY <1>7, <1>8, <1>9 DEF Trims, N

\* A pass takes something off the end of a name until its base is left.
LEMMA OnePass ==
  ASSUME NEW T, NEW name \in Seq(T), NEW m \in 1 .. Len(name),
         name[1] \notin NameSuffixes,
         \A i \in 2 .. Len(name) : name[i] \in NameSuffixes
  PROVE  \E k \in 1 .. m : /\ TrimOnce(SubSeq(name, 1, m)) = SubSeq(name, 1, k)
                           /\ k = 1 \/ k < m
<1> DEFINE P(k) == SubSeq(name, 1, k)
<1>1. ASSUME NEW k \in 1 .. Len(name)
      PROVE  /\ P(k) \in Seq(T) /\ P(k) # <<>>
             /\ Last(P(k)) = name[k]
             /\ k > 1 => Front(P(k)) = P(k - 1)
  <2>1. P(k) \in Seq(T) /\ Len(P(k)) = k /\ \A i \in 1 .. k : P(k)[i] = name[i]
    OBVIOUS
  <2>2. Last(P(k)) = name[k]
    BY <2>1 DEF Last
  <2>3. ASSUME k > 1 PROVE Front(P(k)) = P(k - 1)
    <3> DEFINE s == P(k)
               r == SubSeq(s, 1, k - 1)
    <3>1. k - 1 \in 1 .. Len(name)
      BY <2>3
    <3>2. /\ P(k - 1) \in Seq(T) /\ Len(P(k - 1)) = k - 1
          /\ \A i \in 1 .. k - 1 : P(k - 1)[i] = name[i]
      BY <3>1
    <3> HIDE DEF s
    <3>3. s \in Seq(T) /\ Len(s) = k /\ \A i \in 1 .. k : s[i] = name[i]
      BY <2>1 DEF s
    <3>4. r \in Seq(T) /\ Len(r) = k - 1 /\ \A i \in 1 .. k - 1 : r[i] = s[i]
      BY <3>1, <3>3
    <3>5. \A i \in 1 .. k - 1 : r[i] = P(k - 1)[i]
      BY <3>2, <3>3, <3>4
    <3>6. r = P(k - 1)
      BY <3>2, <3>4, <3>5, SeqEqual
    <3> QED BY <3>3, <3>6 DEF Front, s
  <2> QED BY <2>1, <2>2, <2>3
<1>2. ASSUME NEW k \in 1 .. Len(name), NEW suffix \in NameSuffixes
      PROVE  TrimSuffix(P(k), suffix) = IF k > 1 /\ name[k] = suffix THEN P(k - 1) ELSE P(k)
  <2>1. k = 1 => name[k] # suffix
    OBVIOUS
  <2> HIDE DEF P
  <2> QED BY <1>1, <2>1 DEF TrimSuffix
<1> HIDE DEF P
<1>3. name[m] = "-cursor" \/ name[m] = "-codex" \/ m = 1
  BY DEF NameSuffixes
<1>4. "-cursor" \in NameSuffixes /\ "-codex" \in NameSuffixes
  BY DEF NameSuffixes
<1>5. CASE m = 1
  <2>1. TrimSuffix(P(m), "-cursor") = P(m) /\ TrimSuffix(P(m), "-codex") = P(m)
    BY <1>2, <1>4, <1>5
  <2>2. TrimOnce(P(m)) = P(1) /\ 1 \in 1 .. m
    BY <1>5, <2>1 DEF TrimOnce
  <2> QED BY <2>2 DEF P
<1>6. CASE m > 1 /\ name[m] = "-cursor"
  <2>1. TrimSuffix(P(m), "-cursor") = P(m - 1) /\ m - 1 \in 1 .. Len(name)
    BY <1>2, <1>4, <1>6
  <2>2. CASE m - 1 > 1 /\ name[m - 1] = "-codex"
    <3>1. TrimSuffix(P(m - 1), "-codex") = P(m - 2) /\ m - 2 \in 1 .. m /\ m - 2 < m
      BY <1>2, <1>4, <2>1, <2>2
    <3> QED BY <2>1, <3>1 DEF TrimOnce, P
  <2>3. CASE ~ (m - 1 > 1 /\ name[m - 1] = "-codex")
    <3>1. TrimSuffix(P(m - 1), "-codex") = P(m - 1) /\ m - 1 \in 1 .. m /\ m - 1 < m
      BY <1>2, <1>4, <2>1, <2>3
    <3> QED BY <2>1, <3>1 DEF TrimOnce, P
  <2> QED BY <2>2, <2>3
<1>7. CASE m > 1 /\ name[m] = "-codex"
  <2>1. TrimSuffix(P(m), "-cursor") = P(m)
    BY <1>2, <1>4, <1>7
  <2>2. TrimSuffix(P(m), "-codex") = P(m - 1) /\ m - 1 \in 1 .. m /\ m - 1 < m
    BY <1>2, <1>4, <1>7
  <2> QED BY <2>1, <2>2 DEF TrimOnce, P
<1> QED BY <1>3, <1>5, <1>6, <1>7

LEMMA Trimmed ==
  ASSUME NEW T, NEW name \in Seq(T), Len(name) >= 1, name[1] \notin NameSuffixes,
         \A i \in 2 .. Len(name) : name[i] \in NameSuffixes
  PROVE  Trim(name) = <<name[1]>>
<1> DEFINE N == Len(name)
           P(k) == SubSeq(name, 1, k)
<1>1. PICK f : Trims(f, name)
  BY TrimPasses
<1> DEFINE Left(n) == \E m \in 1 .. N : f[n] = P(m) /\ (m = 1 \/ m + n <= N)
           Q == {n \in Nat : n <= N => Left(n)}
<1>2. N \in Nat /\ N >= 1
  OBVIOUS
<1>3. 0 \in Q
  <2>1. f[0] = P(N) /\ N \in 1 .. N /\ N + 0 <= N
    BY <1>1, <1>2, SubSeqFull DEF Trims
  <2>2. Left(0)
    BY <2>1
  <2> QED BY <2>2
<1>4. ASSUME NEW n \in Nat, n \in Q PROVE n + 1 \in Q
  <2> SUFFICES ASSUME n + 1 <= N PROVE Left(n + 1)
    OBVIOUS
  <2>1. PICK m \in 1 .. N : f[n] = P(m) /\ (m = 1 \/ m + n <= N)
    BY <1>2, <1>4
  <2>2. PICK k \in 1 .. m : TrimOnce(P(m)) = P(k) /\ (k = 1 \/ k < m)
    BY OnePass
  <2>3. f[n + 1] = TrimOnce(f[n])
    <3>1. n + 1 \in 1 .. Len(name) /\ (n + 1) - 1 = n
      BY <1>2
    <3> QED BY <1>1, <3>1 DEF Trims
  <2>4. f[n + 1] = P(k)
    BY <2>1, <2>2, <2>3
  <2>5. k \in 1 .. N /\ (k = 1 \/ k + (n + 1) <= N)
    BY <1>2, <2>1, <2>2
  <2> HIDE DEF P, N
  <2> QED BY <2>4, <2>5
<1> HIDE DEF Q
<1>5. Nat \subseteq Q
  BY <1>3, <1>4, NatInduct
<1>6. Left(N)
  <2>1. N \in Q
    BY <1>2, <1>5
  <2> HIDE DEF Left
  <2> QED BY <1>2, <2>1 DEF Q
<1>7. f[N] = P(1)
  <2> HIDE DEF P, N
  <2> QED BY <1>2, <1>6
<1>8. P(1) = <<name[1]>>
  <2>1. P(1) \in Seq(T) /\ Len(P(1)) = 1 /\ P(1)[1] = name[1]
    BY <1>2
  <2>2. <<name[1]>> \in Seq(T) /\ Len(<<name[1]>>) = 1
    BY <1>2
  <2> HIDE DEF P
  <2>3. \A i \in 1 .. Len(P(1)) : P(1)[i] = <<name[1]>>[i]
    BY <2>1
  <2> QED BY <2>1, <2>2, <2>3, SeqEqual
<1> QED BY <1>1, <1>7, <1>8 DEF Trims

\* A name is known exactly if its base is, and resolves to what its base does.
LEMMA NameResolves ==
  ASSUME NEW T, NEW name \in Seq(T), NEW base, IsName(name, base)
  PROVE  canonicalModel(name) = IF base \in DOMAIN Bases THEN Bases[base] ELSE ""
<1>1. PICK k \in DOMAIN name :
        /\ name[k] = base /\ base \notin NameSuffixes \cup {"route/"}
        /\ k = 1 \/ (k = 2 /\ name[1] = "route/")
        /\ \A i \in DOMAIN name : i > k => name[i] \in NameSuffixes
  BY DEF IsName
<1> DEFINE rest == IF name[1] = "route/" THEN Tail(name) ELSE name
<1>2. /\ rest \in Seq(T) /\ Len(rest) >= 1 /\ rest[1] = base
      /\ \A i \in 2 .. Len(rest) : rest[i] \in NameSuffixes
  <2>1. CASE k = 1
    <3>1. rest = name
      BY <1>1, <2>1
    <3>2. \A i \in 2 .. Len(name) : name[i] \in NameSuffixes
      BY <1>1, <2>1
    <3> HIDE DEF rest
    <3> QED BY <1>1, <2>1, <3>1, <3>2
  <2>2. CASE k = 2
    <3>1. rest = Tail(name) /\ name # <<>> /\ Len(name) >= 2
      BY <1>1, <2>2
    <3>2. /\ Tail(name) \in Seq(T) /\ Len(Tail(name)) = Len(name) - 1
          /\ \A i \in 1 .. Len(Tail(name)) : Tail(name)[i] = name[i + 1]
      BY <3>1, HeadTailProperties
    <3> HIDE DEF rest
    <3>3. rest[1] = base
      BY <1>1, <2>2, <3>1, <3>2
    <3>4. \A i \in 2 .. Len(rest) : rest[i] = name[i + 1] /\ i + 1 > 2 /\ i + 1 \in 1 .. Len(name)
      BY <3>1, <3>2
    <3> QED BY <1>1, <2>2, <3>1, <3>2, <3>3, <3>4
  <2> QED BY <1>1, <2>1, <2>2
<1> HIDE DEF rest
<1>3. Trim(rest) = <<base>>
  BY <1>1, <1>2, Trimmed
<1>4. canonicalModel(name) =
        IF Len(Trim(rest)) = 1 /\ Trim(rest)[1] \in DOMAIN Bases THEN Bases[Trim(rest)[1]] ELSE ""
  BY DEF canonicalModel, rest
<1>5. Len(Trim(rest)) = 1 /\ Trim(rest)[1] = base
  BY <1>3
<1> QED BY <1>4, <1>5

LEMMA ModelNames ==
  \A model \in Models : /\ <<model>> \in Seq(Models) /\ IsName(<<model>>, model)
                        /\ model \in DOMAIN Bases /\ Bases[model] = model
<1> SUFFICES ASSUME NEW model \in Models
             PROVE  /\ <<model>> \in Seq(Models) /\ IsName(<<model>>, model)
                    /\ model \in DOMAIN Bases /\ Bases[model] = model
  OBVIOUS
<1>1. model \notin NameSuffixes \cup {"route/"}
  BY DEF Models, NameSuffixes
<1>2. model \in DOMAIN Bases /\ Bases[model] = model
  BY DEF Models, Bases
<1>3. /\ 1 \in DOMAIN <<model>> /\ <<model>>[1] = model
      /\ \A i \in DOMAIN <<model>> : i = 1
  OBVIOUS
<1>4. IsName(<<model>>, model)
  BY <1>1, <1>3 DEF IsName
<1> QED BY <1>1, <1>2, <1>4

\* Whatever suffixes follow a base, and in whatever order, and through whatever
\* route, a name resolves to its base's model, no other is let through, and the
\* name sent upstream would be accepted itself (model.go:7).
THEOREM ModelsCorrect == Spec => []ModelsResolve
<1>1. Conversation /\ Payloads => ModelsResolve
  <2> SUFFICES ASSUME Conversation, Payloads,
                      NEW base \in ToSet(request.model), IsName(request.model, base)
               PROVE  /\ phase = "refused" => base \notin DOMAIN Bases
                      /\ phase = "sent" => /\ base \in DOMAIN Bases /\ chat.model = Bases[base]
                                           /\ canonicalModel(<<chat.model>>) = chat.model
    BY DEF ModelsResolve
  <2>1. request.model \in Seq(STRING)
    BY RequestAssumption DEF RequestAssumption, Conversation
  <2>2. canonicalModel(request.model) = IF base \in DOMAIN Bases THEN Bases[base] ELSE ""
    <3> DEFINE name == request.model
    <3>1. name \in Seq(STRING) /\ IsName(name, base)
      BY <2>1
    <3> HIDE DEF name
    <3>2. canonicalModel(name) = IF base \in DOMAIN Bases THEN Bases[base] ELSE ""
      BY <3>1, NameResolves
    <3> QED BY <3>2 DEF name
  <2>3. \A b \in DOMAIN Bases : Bases[b] \in Models /\ Bases[b] # ""
    BY BasesType DEF Models
  <2>4. \A model \in Models : canonicalModel(<<model>>) = model
    <3> SUFFICES ASSUME NEW model \in Models PROVE canonicalModel(<<model>>) = model
      OBVIOUS
    <3> DEFINE name == <<model>>
    <3>1. name \in Seq(Models) /\ IsName(name, model) /\ model \in DOMAIN Bases /\ Bases[model] = model
      BY ModelNames
    <3> HIDE DEF name
    <3>2. canonicalModel(name) = IF model \in DOMAIN Bases THEN Bases[model] ELSE ""
      BY <3>1, NameResolves
    <3> QED BY <3>1, <3>2 DEF name
  <2>5. phase = "refused" => canonicalModel(request.model) = ""
    BY DEF Payloads
  <2>6. phase = "sent" => /\ canonicalModel(request.model) # ""
                          /\ chat.model = canonicalModel(request.model)
    BY DEF Payloads
  <2> QED BY <2>2, <2>3, <2>4, <2>5, <2>6
<1> QED BY <1>1, Types, PayloadsKept, PTL

-----------------------------------------------------------------------------
OfT(types) == {i \in ItemT : i.type \in types}

LEMMA ItemsOnly ==
  ASSUME NEW out, out.input \in Seq(ItemT), NEW types
  PROVE  Items(out, types) = Only(out.input, OfT(types))
<1> DEFINE input == out.input
           T == ToSet(input)
           R == {i \in T : i.type \in types}
<1>1. input \in Seq(ItemT)
  OBVIOUS
<1>2. Items(out, types) = Only(input, R)
  BY DEF Items
<1> HIDE DEF input
<1>3. input \in Seq(T) /\ T \subseteq ItemT
  BY <1>1 DEF ToSet
<1>4. \A i \in T : i \in R <=> i \in OfT(types)
  BY <1>3 DEF OfT
<1> HIDE DEF T, R
<1>5. Only(input, R) = Only(input, OfT(types))
  BY <1>3, <1>4, OnlySame
<1> QED BY <1>2, <1>5 DEF input

\* The kinds a role does not use make no difference.
LEMMA SameKinds ==
  ASSUME NEW used, NEW blocks \in Seq(OfK(used)),
         NEW K1, NEW K2, K1 \cap used = K2 \cap used
  PROVE  OfKinds(blocks, K1) = OfKinds(blocks, K2)
<1> DEFINE T == OfK(used)
<1>1. blocks \in Seq(T) /\ blocks \in Seq(BlockT)
  <2>1. OfK(used) \subseteq BlockT
    BY DEF OfK
  <2> QED BY <2>1, SeqMonotonic
<1>2. \A b \in T : b \in OfK(K1) <=> b \in OfK(K2)
  BY DEF OfK
<1> HIDE DEF T
<1>3. Only(blocks, OfK(K1)) = Only(blocks, OfK(K2))
  BY <1>1, <1>2, OnlySame
<1> QED BY <1>1, <1>3, OfKindsOnly

LEMMA SaidKinds ==
  ASSUME NEW t \in TurnT, WellSaid(t) PROVE t.blocks \in Seq(OfK(MayUse(t.role)))
<1> DEFINE used == MayUse(t.role)
           bs == t.blocks
<1>1. bs \in Seq(BlockT) /\ \A i \in DOMAIN bs : bs[i].kind \in used
  BY DEF TurnT, WellSaid
<1> HIDE DEF used, bs
<1>2. \A i \in 1 .. Len(bs) : bs[i] \in BlockT /\ bs[i].kind \in used
  BY <1>1
<1>3. \A i \in 1 .. Len(bs) : bs[i] \in OfK(used)
  BY <1>2 DEF OfK
<1>4. bs \in Seq(OfK(used))
  BY <1>1, <1>3
<1> QED BY <1>4 DEF used, bs

\* Of a turn's blocks of one set of kinds, those of another.
LEMMA OfBothKinds ==
  ASSUME NEW blocks \in Seq(BlockT), NEW K1, NEW K2
  PROVE  OfKinds(OfKinds(blocks, K1), K2) = OfKinds(blocks, K1 \cap K2)
<1> DEFINE R == OfK(K1)
           S == OfK(K2)
           both == R \cap S
<1>1. OfKinds(blocks, K1) = Only(blocks, R) /\ OfKinds(blocks, K1) \in Seq(BlockT)
  BY OfKindsOnly, OfKindsType
<1>2. OfKinds(OfKinds(blocks, K1), K2) = Only(OfKinds(blocks, K1), S)
  BY <1>1, OfKindsOnly
<1>3. both = OfK(K1 \cap K2)
  BY DEF OfK
<1> HIDE DEF R, S
<1>4. \A s \in Seq(BlockT) : Only(Only(s, R), S) = Only(s, both)
  BY OnlyOnly
<1> HIDE DEF both
<1>5. Only(Only(blocks, R), S) = Only(blocks, both)
  BY <1>4
<1> QED BY <1>1, <1>2, <1>3, <1>5, OfKindsOnly

\* A turn has calls or results, never both, so its tool messages and the calls
\* of its last message are its calls and results.
LEMMA SameTools ==
  ASSUME NEW t \in TurnT, t.role # "system", WellSaid(t)
  PROVE  ToolItems(OfKinds(t.blocks, {"result"})) \o ToolItems(Rest(t.blocks)) = ToolItems(t.blocks)
<1> DEFINE tools == {"call", "result"}
           used == MayUse(t.role)
           results == OfKinds(t.blocks, {"result"})
           rest == Rest(t.blocks)
           KR == {"result"} \cap tools
           KO == (Kinds \ {"result"}) \cap tools
           KN == {}
<1>1. /\ t.blocks \in Seq(BlockT) /\ t.role \in Speakers
      /\ t.blocks \in Seq(OfK(used))
  BY SaidKinds DEF TurnT
<1>2. /\ OfKinds(results, tools) = OfKinds(t.blocks, KR)
      /\ OfKinds(rest, tools) = OfKinds(t.blocks, KO)
  BY <1>1, OfBothKinds DEF Rest
<1>3. ToolItems(t.blocks) \in Seq(ItemT)
  BY <1>1, ToolItemsType
<1>4. OfKinds(t.blocks, KN) = <<>>
  <2>1. OfK({}) = {}
    BY DEF OfK
  <2>2. \A i \in 1 .. Len(t.blocks) : t.blocks[i] \notin OfK({})
    BY <2>1
  <2> QED BY <1>1, <2>2, OfKindsOnly, OnlyNone
<1>5. \A x, y : OfKinds(x, tools) = OfKinds(y, tools) => ToolItems(x) = ToolItems(y)
  BY DEF ToolItems
<1>6. OfKinds(<<>>, tools) = <<>>
  BY NoneOfKinds
<1> HIDE DEF results, rest
<1>7. CASE t.role = "user"
  <2>1. OfKinds(t.blocks, KR) = OfKinds(t.blocks, tools)
    <3>1. KR \cap used = tools \cap used
      BY <1>7 DEF MayUse
    <3> HIDE DEF used, tools, KR, KO, KN
    <3> QED BY <1>1, <3>1, SameKinds
  <2>2. OfKinds(t.blocks, KO) = OfKinds(t.blocks, KN)
    <3>1. KO \cap used = KN \cap used
      BY <1>7 DEF MayUse
    <3> HIDE DEF used, tools, KR, KO, KN
    <3> QED BY <1>1, <3>1, SameKinds
  <2>3. ToolItems(results) = ToolItems(t.blocks)
    BY <1>2, <1>5, <2>1
  <2>4. ToolItems(rest) = <<>>
    <3>1. ToolItems(rest) = ToolItems(<<>>)
      BY <1>2, <1>4, <1>5, <1>6, <2>2
    <3> QED BY <3>1, NothingConverted
  <2> QED BY <1>3, <2>3, <2>4, ConcatEmptySeq DEF results, rest
<1>8. CASE t.role = "assistant"
  <2>1. OfKinds(t.blocks, KR) = OfKinds(t.blocks, KN)
    <3>1. KR \cap used = KN \cap used
      BY <1>8 DEF MayUse
    <3> HIDE DEF used, tools, KR, KO, KN
    <3> QED BY <1>1, <3>1, SameKinds
  <2>2. OfKinds(t.blocks, KO) = OfKinds(t.blocks, tools)
    <3>1. KO \cap used = tools \cap used
      BY <1>8 DEF MayUse, Kinds
    <3> HIDE DEF used, tools, KR, KO, KN
    <3> QED BY <1>1, <3>1, SameKinds
  <2>3. ToolItems(rest) = ToolItems(t.blocks)
    BY <1>2, <1>5, <2>2
  <2>4. ToolItems(results) = <<>>
    <3>1. ToolItems(results) = ToolItems(<<>>)
      BY <1>2, <1>4, <1>5, <1>6, <2>1
    <3> QED BY <3>1, NothingConverted
  <2> QED BY <1>3, <2>3, <2>4, ConcatEmptySeq DEF results, rest
<1> QED BY <1>1, <1>7, <1>8 DEF Speakers

\* A conversion adds one message at most, and calls and results only.
LEMMA OfTypes ==
  ASSUME NEW blocks \in Seq(BlockT), NEW role \in Speakers
  PROVE  /\ Only(Message(blocks, role), OfT({"message"})) = Message(blocks, role)
         /\ Only(Message(blocks, role), OfT(ToolTypes)) = <<>>
         /\ Only(ToolItems(blocks), OfT({"message"})) = <<>>
         /\ Only(ToolItems(blocks), OfT(ToolTypes)) = ToolItems(blocks)
<1> DEFINE m == Message(blocks, role)
           c == ToolItems(blocks)
           tools == OfKinds(blocks, {"call", "result"})
<1>1. m \in Seq(ItemT) /\ c \in Seq(ItemT)
  BY MessageType, ToolItemsType
<1>2. \A i \in 1 .. Len(m) : m[i].type = "message"
  BY DEF Message, Item
<1>3. \A i \in 1 .. Len(c) : c[i].type \in ToolTypes
  <2>1. DOMAIN c = DOMAIN tools /\ tools \in Seq(BlockT)
    BY OfKindsType DEF ToolItems
  <2>2. \A i \in DOMAIN tools : c[i].type \in ToolTypes
    <3> HIDE DEF tools
    <3>1. \A i \in DOMAIN tools : c[i].type =
            IF tools[i].kind = "call" THEN "function_call" ELSE "function_call_output"
      BY DEF ToolItems, Item, tools
    <3> QED BY <3>1 DEF ToolTypes
  <2> HIDE DEF tools, c
  <2> QED BY <1>1, <2>1, <2>2
<1> HIDE DEF m, c
<1>4. \A i \in 1 .. Len(m) : m[i] \in OfT({"message"}) /\ m[i] \notin OfT(ToolTypes)
  <2>1. \A i \in 1 .. Len(m) : m[i] \in ItemT
    BY <1>1
  <2> QED BY <1>2, <2>1 DEF OfT, ToolTypes
<1>5. \A i \in 1 .. Len(c) : c[i] \notin OfT({"message"}) /\ c[i] \in OfT(ToolTypes)
  <2>1. \A i \in 1 .. Len(c) : c[i] \in ItemT
    BY <1>1
  <2> QED BY <1>3, <2>1 DEF OfT, ToolTypes
<1>6. /\ Only(m, OfT({"message"})) = m /\ Only(m, OfT(ToolTypes)) = <<>>
      /\ Only(c, OfT({"message"})) = <<>> /\ Only(c, OfT(ToolTypes)) = c
  BY <1>1, <1>4, <1>5, OnlyAll, OnlyNone
<1> QED BY <1>6 DEF m, c

ItemSorts == {{"message"}, ToolTypes}

\* The two forms of a turn differ only in where the calls stand among the texts.
LEMMA NewsAgree ==
  ASSUME NEW t \in TurnT, t.role # "system", WellSaid(t), NEW types \in ItemSorts
  PROVE  Only(ChatNews(t), OfT(types)) = Only(AnthropicNews(t), OfT(types))
<1> DEFINE results == OfKinds(t.blocks, {"result"})
           a == ToolItems(results)
           b == Message(t.blocks, t.role)
           c == ToolItems(Rest(t.blocks))
           d == ToolItems(t.blocks)
           S == OfT(types)
<1>1. /\ t.blocks \in Seq(BlockT) /\ t.role \in Speakers
      /\ results \in Seq(BlockT) /\ Rest(t.blocks) \in Seq(BlockT)
  BY OfKindsType DEF TurnT, Rest
<1>2. a \in Seq(ItemT) /\ b \in Seq(ItemT) /\ c \in Seq(ItemT) /\ d \in Seq(ItemT)
  BY <1>1, ToolItemsType, MessageType
<1>3. a \o c = d
  BY SameTools
<1>4. types = {"message"} => /\ Only(a, S) = <<>> /\ Only(c, S) = <<>> /\ Only(d, S) = <<>>
                             /\ Only(b, S) = b
  BY <1>1, OfTypes
<1>5. types = ToolTypes => /\ Only(a, S) = a /\ Only(c, S) = c /\ Only(d, S) = d
                           /\ Only(b, S) = <<>>
  BY <1>1, OfTypes
<1>6. types = {"message"} \/ types = ToolTypes
  BY DEF ItemSorts
<1> HIDE DEF results, a, b, c, d, S
<1>7. Only(d \o b, S) = Only(d, S) \o Only(b, S)
  BY <1>2, OnlyConcat
<1>8. Only(a \o b \o c, S) = (Only(a, S) \o Only(b, S)) \o Only(c, S)
  <2> DEFINE ab == a \o b
  <2>1. Only(ab, S) = Only(a, S) \o Only(b, S) /\ ab \in Seq(ItemT)
    BY <1>2, OnlyConcat
  <2> HIDE DEF ab
  <2>2. Only(ab \o c, S) = Only(ab, S) \o Only(c, S)
    <3>1. ab \in Seq(ItemT) /\ c \in Seq(ItemT)
      BY <1>2, <2>1
    <3> QED BY <3>1, OnlyConcat
  <2> QED BY <2>1, <2>2 DEF ab
<1>9. CASE types = {"message"}
  <2>1. (<<>> \o b) \o <<>> = <<>> \o b
    BY <1>2
  <2> QED BY <1>4, <1>7, <1>8, <1>9, <2>1 DEF ChatNews, AnthropicNews, results, a, b, c, d, S
<1>10. CASE types = ToolTypes
  <2>1. (a \o <<>>) \o c = d \o <<>>
    BY <1>2, <1>3
  <2> QED BY <1>5, <1>7, <1>8, <1>10, <2>1 DEF ChatNews, AnthropicNews, results, a, b, c, d, S
<1> QED BY <1>6, <1>9, <1>10

SameItems ==
  /\ chat.instructions = anthropic.instructions
  /\ \A types \in ItemSorts : Items(chat, types) = Items(anthropic, types)

\* An input that has none of the items has nothing.
LEMMA NoItems ==
  ASSUME NEW out, out.input \in Seq(ItemT),
         \A types \in ItemSorts : Items(out, types) = <<>>
  PROVE  out.input = <<>>
<1> DEFINE input == out.input
<1>1. input \in Seq(ItemT)
  OBVIOUS
<1>2. \A types \in ItemSorts : Only(input, OfT(types)) = <<>>
  BY ItemsOnly
<1> HIDE DEF input
<1>3. ASSUME input # <<>> PROVE FALSE
  <2>1. 1 \in 1 .. Len(input) /\ input[1] \in ItemT
    BY <1>1, <1>3
  <2>2. PICK types \in ItemSorts : input[1] \in OfT(types)
    BY <2>1 DEF OfT, ItemT, ItemSorts
  <2>3. PICK g : SelectedFrom(g, Only(input, OfT(types)), input, OfT(types))
    BY <1>1, OnlyPlaces
  <2>4. \E i \in 1 .. Len(Only(input, OfT(types))) : g[i] = 1
    BY <2>1, <2>2, <2>3 DEF SelectedFrom
  <2>5. Len(Only(input, OfT(types))) = 0
    BY <1>2, <2>2
  <2> QED BY <2>4, <2>5
<1> QED BY <1>3 DEF input

LEMMA SameItemsStep ==
  ASSUME Conversation, Outputs, SameItems, [Next]_vars
  PROVE  SameItems'
<1>0. /\ chat.input \in Seq(ItemT) /\ anthropic.input \in Seq(ItemT)
      /\ chat'.input \in Seq(ItemT) /\ anthropic'.input \in Seq(ItemT)
  BY OutputsStep DEF Outputs
<1>1. CASE Convert
  <2>1. chat \in OutT /\ anthropic \in OutT /\ turn \in TurnT /\ WellSaid(turn)
    BY <1>1 DEF Convert, Outputs, Conversation
  <2>2. CASE turn.role = "system"
    <3>1. /\ chat' = Instruct(chat, turn.blocks)
          /\ anthropic' = Instruct(anthropic, turn.blocks)
      BY <1>1, <2>2, Converted
    <3> DEFINE said == OfKinds(turn.blocks, {"text"})
    <3> HIDE DEF said
    <3>2. /\ chat' = [chat EXCEPT !.instructions = @ \o said]
          /\ anthropic' = [anthropic EXCEPT !.instructions = @ \o said]
      BY <3>1 DEF Instruct, said
    <3>3. /\ chat'.input = chat.input /\ anthropic'.input = anthropic.input
          /\ chat'.instructions = chat.instructions \o said
          /\ anthropic'.instructions = anthropic.instructions \o said
      BY <2>1, <3>2 DEF OutT
    <3>4. ASSUME NEW types \in ItemSorts PROVE Items(chat', types) = Items(anthropic', types)
      <4>1. Items(chat, types) = Items(anthropic, types)
        BY DEF SameItems
      <4> QED BY <3>3, <4>1 DEF Items
    <3> QED BY <3>3, <3>4 DEF SameItems
  <2>3. CASE turn.role # "system"
    <3> DEFINE cn == ChatNews(turn)
               an == AnthropicNews(turn)
    <3>1. cn \in Seq(ItemT) /\ an \in Seq(ItemT)
      BY <2>1, <2>3, NewsType
    <3>2. /\ chat'.input = chat.input \o cn /\ anthropic'.input = anthropic.input \o an
          /\ chat'.instructions = chat.instructions
          /\ anthropic'.instructions = anthropic.instructions
      BY <1>1, <2>1, <2>3, <3>1, Converted, AddType
    <3>3. ASSUME NEW types \in ItemSorts PROVE Items(chat', types) = Items(anthropic', types)
      <4> DEFINE S == OfT(types)
                 ci == chat.input
                 ai == anthropic.input
      <4>1. Items(chat', types) = Only(ci \o cn, S) /\ Items(anthropic', types) = Only(ai \o an, S)
        BY <1>0, <3>2, ItemsOnly
      <4>2. Items(chat, types) = Only(ci, S) /\ Items(anthropic, types) = Only(ai, S)
        BY <1>0, ItemsOnly
      <4>3. Only(cn, S) = Only(an, S)
        BY <2>1, <2>3, NewsAgree
      <4>4. ci \in Seq(ItemT) /\ ai \in Seq(ItemT)
        BY <1>0
      <4> HIDE DEF S, ci, ai, cn, an
      <4>5. \A x, y \in Seq(ItemT) : Only(x \o y, S) = Only(x, S) \o Only(y, S)
        BY OnlyConcat
      <4>6. Items(chat, types) = Items(anthropic, types)
        BY DEF SameItems
      <4>7. Items(chat', types) = Only(ci, S) \o Only(cn, S)
        BY <3>1, <4>1, <4>4, <4>5
      <4>8. Items(anthropic', types) = Only(ai, S) \o Only(an, S)
        BY <3>1, <4>1, <4>4, <4>5
      <4> QED BY <4>2, <4>3, <4>6, <4>7, <4>8
    <3> HIDE DEF cn, an
    <3> QED BY <3>2, <3>3 DEF SameItems
  <2> QED BY <2>2, <2>3
<1>2. CASE Send
  <2>1. CASE phase' = "sent"
    <3>1. PICK c1, c2 : chat' = Payload(chat, c1) /\ anthropic' = Payload(anthropic, c2)
      BY <1>2, <2>1 DEF Send
    <3>2. chat'.instructions = chat.instructions /\ anthropic'.instructions = anthropic.instructions
      BY <3>1 DEF Payload
    <3>3. chat.input = <<>> <=> anthropic.input = <<>>
      <4>1. ASSUME NEW x, NEW y, y.input \in Seq(ItemT), x.input = <<>>,
                   \A types \in ItemSorts : Items(x, types) = Items(y, types)
            PROVE  y.input = <<>>
        <5>1. x.input \in Seq(ItemT)
          BY <4>1, EmptySeq
        <5>2. \A types \in ItemSorts : Items(x, types) = <<>>
          BY <4>1, <5>1, ItemsOnly, OnlyEmpty
        <5> QED BY <4>1, <5>2, NoItems
      <4> QED BY <1>0, <4>1 DEF SameItems
    <3>4. \/ chat'.input = chat.input /\ anthropic'.input = anthropic.input
          \/ chat'.input = anthropic'.input
      BY <3>1, <3>3 DEF Payload
    <3>5. ASSUME NEW types \in ItemSorts PROVE Items(chat', types) = Items(anthropic', types)
      <4>1. Items(chat, types) = Items(anthropic, types)
        BY DEF SameItems
      <4> QED BY <3>4, <4>1 DEF Items
    <3> QED BY <3>2, <3>5 DEF SameItems
  <2>2. CASE phase' # "sent"
    BY <1>2, <2>2 DEF Send, SameItems, Items
  <2> QED BY <2>1, <2>2
<1>3. ASSUME NEW kind \in Kinds, NEW of \in Unanswered \cup {NoCall}, Say(kind, of)
      PROVE  SameItems'
  BY <1>3 DEF Say, SameItems, Items
<1>4. CASE UNCHANGED vars
  BY <1>4 DEF vars, SameItems, Items
<1> QED BY <1>1, <1>2, <1>3, <1>4 DEF Next

\* Whatever is said, in turns of any length, both endpoints make the same
\* instructions, messages, calls and results of it, each in the same order, and
\* pass the same choice of tools on (request.go:58, 108).
THEOREM EndpointsCorrect == Spec => []EndpointsAgree
<1>1. Init => SameItems
  BY DEF Init, SameItems, Items
<1>2. Conversation /\ Outputs /\ SameItems /\ [Next]_vars => SameItems'
  BY SameItemsStep
<1>3. Conversation /\ Payloads /\ SameItems => EndpointsAgree
  <2> SUFFICES ASSUME Conversation, Payloads, SameItems PROVE EndpointsAgree
    OBVIOUS
  <2>1. phase = "sent" /\ chat.tools # {} /\ request.choice # "other" =>
          chat.choice = anthropic.choice
    <3>1. request.choice \in ToolChoices
      BY RequestAssumption DEF RequestAssumption, Conversation
    <3> QED BY <3>1 DEF Payloads, ToolChoices, openAIToolChoice, AnthropicSpelling, anthropicToolChoice
  <2> QED BY <2>1 DEF SameItems, ItemSorts, EndpointsAgree
<1> QED BY <1>1, <1>2, <1>3, Types, PayloadsKept, PTL DEF Spec
-----------------------------------------------------------------------------
\* A block with its speaker, and a part of an item that stands for it.
Words(t) ==
  IF t.role = "system" THEN {} ELSE {<<t.blocks[i], t.role>> : i \in DOMAIN t.blocks}

Said(ts) == UNION {Words(ts[t]) : t \in DOMAIN ts}

StandsFor(item, part, s) ==
  LET b == s[1]
  IN  /\ b.kind # "other"
      /\ part.id = b.id /\ part.of = b.of
      /\ b.kind \in {"text", "image"} =>
           /\ item.type = "message" /\ item.role = s[2]
           /\ part.kind \notin {"call", "result"}
           /\ b.kind = "text" => (part.kind = "output_text" <=> s[2] = "assistant")
      /\ b.kind \in {"call", "result"} =>
           /\ item.type \in ToolTypes /\ item.role = ""
           /\ part.kind = b.kind

Carries(item, id) == \E p \in DOMAIN item.content : item.content[p].id = id

InOrder(first, second) ==
  /\ first.id[1] <= second.id[1]
  /\ {first.kind, second.kind} \subseteq {"call", "result"} => Before(first.id, second.id)

\* An input that has what was said: nothing else, all of it once, in its order.
Heard(input, said) ==
  \A k \in DOMAIN input : \A p \in DOMAIN input[k].content :
    \E s \in said : StandsFor(input[k], input[k].content[p], s)

Once(input, said) ==
  \A s \in said : s[1].kind # "other" =>
    \E k \in DOMAIN input : \A j \in DOMAIN input : Carries(input[j], s[1].id) <=> j = k

Ordered(input) ==
  \A k, j \in DOMAIN input :
    \A p \in DOMAIN input[k].content, q \in DOMAIN input[j].content :
      Before(<<k, p>>, <<j, q>>) => InOrder(input[k].content[p], input[j].content[q])

Faithful(input, said) == Heard(input, said) /\ Once(input, said) /\ Ordered(input)

SaidT == BlockT \X (Speakers \cup {"system"})

\* What is said later is appended.
LEMMA Joined ==
  ASSUME NEW a \in Seq(ItemT), NEW b \in Seq(ItemT),
         NEW A \in SUBSET SaidT, NEW B \in SUBSET SaidT,
         Faithful(a, A), Faithful(b, B),
         \A s \in A, r \in B : s[1].id[1] < r[1].id[1]
  PROVE  Faithful(a \o b, A \cup B)
<1> DEFINE ab == a \o b
           N == Len(a)
<1>1. /\ N \in Nat /\ Len(b) \in Nat /\ ab \in Seq(ItemT)
      /\ \A k \in DOMAIN a : k \in DOMAIN ab /\ ab[k] = a[k] /\ k \in 1 .. N
      /\ \A k \in DOMAIN b : N + k \in DOMAIN ab /\ ab[N + k] = b[k] /\ k \in Nat \ {0}
      /\ \A k \in DOMAIN ab : k \in DOMAIN a \/ \E j \in DOMAIN b : k = N + j
  <2>1. /\ Len(ab) = N + Len(b) /\ ab \in Seq(ItemT)
        /\ \A i \in 1 .. N + Len(b) : ab[i] = IF i <= N THEN a[i] ELSE b[i - N]
    BY ConcatProperties
  <2>2. DOMAIN a = 1 .. N /\ DOMAIN b = 1 .. Len(b) /\ N \in Nat /\ Len(b) \in Nat
    OBVIOUS
  <2>3. DOMAIN ab = 1 .. N + Len(b)
    BY <2>1
  <2> HIDE DEF ab, N
  <2>4. \A k \in DOMAIN b : N + k \in 1 .. N + Len(b) /\ ~(N + k <= N) /\ (N + k) - N = k /\ k \in Nat \ {0}
    BY <2>2
  <2>5. \A k \in DOMAIN ab : k \in DOMAIN a \/ (k - N \in DOMAIN b /\ k = N + (k - N))
    BY <2>2, <2>3
  <2>6. \A k \in DOMAIN a : k \in 1 .. N + Len(b) /\ k <= N
    BY <2>2
  <2> QED BY <2>1, <2>2, <2>3, <2>4, <2>5, <2>6
<1> HIDE DEF ab, N
<1>2. Heard(ab, A \cup B)
  <2> SUFFICES ASSUME NEW k \in DOMAIN ab, NEW p \in DOMAIN ab[k].content
               PROVE  \E s \in A \cup B : StandsFor(ab[k], ab[k].content[p], s)
    BY DEF Heard
  <2>1. CASE k \in DOMAIN a
    BY <1>1, <2>1 DEF Faithful, Heard
  <2>2. ASSUME NEW j \in DOMAIN b, k = N + j
        PROVE  \E s \in A \cup B : StandsFor(ab[k], ab[k].content[p], s)
    BY <1>1, <2>2 DEF Faithful, Heard
  <2> QED BY <1>1, <2>1, <2>2
\* Nothing of the one is in the other.
<1>3. /\ \A s \in A, j \in DOMAIN b : ~Carries(b[j], s[1].id)
      /\ \A r \in B, j \in DOMAIN a : ~Carries(a[j], r[1].id)
  <2>1. ASSUME NEW s \in A, NEW j \in DOMAIN b, Carries(b[j], s[1].id) PROVE FALSE
    <3>1. PICK p \in DOMAIN b[j].content : b[j].content[p].id = s[1].id
      BY <2>1 DEF Carries
    <3>2. PICK r \in B : b[j].content[p].id = r[1].id
      BY DEF Faithful, Heard, StandsFor
    <3>3. s[1].id[1] < r[1].id[1] /\ s[1].id = r[1].id /\ s[1].id[1] \in Nat
      BY <3>1, <3>2 DEF SaidT, BlockT
    <3> QED BY <3>3
  <2>2. ASSUME NEW r \in B, NEW j \in DOMAIN a, Carries(a[j], r[1].id) PROVE FALSE
    <3>1. PICK p \in DOMAIN a[j].content : a[j].content[p].id = r[1].id
      BY <2>2 DEF Carries
    <3>2. PICK s \in A : a[j].content[p].id = s[1].id
      BY DEF Faithful, Heard, StandsFor
    <3>3. s[1].id[1] < r[1].id[1] /\ s[1].id = r[1].id /\ s[1].id[1] \in Nat
      BY <3>1, <3>2 DEF SaidT, BlockT
    <3> QED BY <3>3
  <2> QED BY <2>1, <2>2
<1>4. Once(ab, A \cup B)
  <2> SUFFICES ASSUME NEW s \in A \cup B, s[1].kind # "other"
               PROVE  \E k \in DOMAIN ab : \A j \in DOMAIN ab : Carries(ab[j], s[1].id) <=> j = k
    BY DEF Once
  <2>1. CASE s \in A
    <3>1. PICK k \in DOMAIN a : \A j \in DOMAIN a : Carries(a[j], s[1].id) <=> j = k
      BY <2>1 DEF Faithful, Once
    <3>2. ASSUME NEW j \in DOMAIN ab PROVE Carries(ab[j], s[1].id) <=> j = k
      <4>1. CASE j \in DOMAIN a
        BY <1>1, <3>1, <4>1
      <4>2. ASSUME NEW i \in DOMAIN b, j = N + i PROVE Carries(ab[j], s[1].id) <=> j = k
        <5>1. ~Carries(ab[j], s[1].id)
          BY <1>1, <1>3, <2>1, <4>2
        <5>2. j # k
          BY <1>1, <4>2
        <5> QED BY <5>1, <5>2
      <4> QED BY <1>1, <4>1, <4>2
    <3> QED BY <1>1, <3>2
  <2>2. CASE s \in B
    <3>1. PICK k \in DOMAIN b : \A j \in DOMAIN b : Carries(b[j], s[1].id) <=> j = k
      BY <2>2 DEF Faithful, Once
    <3>2. ASSUME NEW j \in DOMAIN ab PROVE Carries(ab[j], s[1].id) <=> j = N + k
      <4>1. CASE j \in DOMAIN a
        <5>1. ~Carries(ab[j], s[1].id)
          BY <1>1, <1>3, <2>2, <4>1
        <5>2. j # N + k
          BY <1>1, <4>1
        <5> QED BY <5>1, <5>2
      <4>2. ASSUME NEW i \in DOMAIN b, j = N + i PROVE Carries(ab[j], s[1].id) <=> j = N + k
        <5>1. Carries(ab[j], s[1].id) <=> i = k
          BY <1>1, <3>1, <4>2
        <5>2. i = k <=> j = N + k
          BY <1>1, <4>2
        <5> QED BY <5>1, <5>2
      <4> QED BY <1>1, <4>1, <4>2
    <3> QED BY <1>1, <3>2
  <2> QED BY <2>1, <2>2
<1>5. Ordered(ab)
  <2> SUFFICES ASSUME NEW k \in DOMAIN ab, NEW j \in DOMAIN ab,
                      NEW p \in DOMAIN ab[k].content, NEW q \in DOMAIN ab[j].content,
                      Before(<<k, p>>, <<j, q>>)
               PROVE  InOrder(ab[k].content[p], ab[j].content[q])
    BY DEF Ordered
  <2>0. k < j \/ (k = j /\ p < q)
    BY DEF Before
  <2>1. CASE k \in DOMAIN a /\ j \in DOMAIN a
    BY <1>1, <2>1 DEF Faithful, Ordered
  <2>2. ASSUME NEW i \in DOMAIN b, k = N + i, j \in DOMAIN a PROVE FALSE
    BY <1>1, <2>0, <2>2
  <2>3. ASSUME NEW i \in DOMAIN b, j = N + i, k \in DOMAIN a
        PROVE  InOrder(ab[k].content[p], ab[j].content[q])
    <3> DEFINE first == ab[k].content[p]
               second == ab[j].content[q]
    <3>0. first = a[k].content[p] /\ second = b[i].content[q]
      BY <1>1, <2>3
    <3>1. PICK s \in A : first.id = s[1].id
      <4>1. p \in DOMAIN a[k].content
        BY <1>1, <2>3
      <4>2. PICK s \in A : StandsFor(a[k], a[k].content[p], s)
        BY <2>3, <4>1 DEF Faithful, Heard
      <4> QED BY <3>0, <4>2 DEF StandsFor
    <3>2. PICK r \in B : second.id = r[1].id
      <4>1. q \in DOMAIN b[i].content
        BY <1>1, <2>3
      <4>2. PICK r \in B : StandsFor(b[i], b[i].content[q], r)
        BY <2>3, <4>1 DEF Faithful, Heard
      <4> QED BY <3>0, <4>2 DEF StandsFor
    <3>3. s[1].id[1] < r[1].id[1] /\ s[1].id[1] \in Nat /\ r[1].id[1] \in Nat
      BY DEF SaidT, BlockT
    <3> HIDE DEF first, second
    <3>4. first.id[1] < second.id[1] /\ first.id[1] <= second.id[1]
      BY <3>1, <3>2, <3>3
    <3> QED BY <3>4 DEF InOrder, Before, first, second
  <2>4. ASSUME NEW i \in DOMAIN b, NEW l \in DOMAIN b, k = N + i, j = N + l
        PROVE  InOrder(ab[k].content[p], ab[j].content[q])
    <3>1. i < l \/ (i = l /\ p < q)
      BY <1>1, <2>0, <2>4
    <3>2. ab[k] = b[i] /\ ab[j] = b[l]
      BY <1>1, <2>4
    <3>3. Before(<<i, p>>, <<l, q>>)
      BY <3>1 DEF Before
    <3> QED BY <3>2, <3>3 DEF Faithful, Ordered
  <2> QED BY <1>1, <2>1, <2>2, <2>3, <2>4
<1> QED BY <1>2, <1>4, <1>5 DEF Faithful, ab
Numbered(blocks, n) == \A i \in DOMAIN blocks : blocks[i].id = <<n, i>> /\ blocks[i].of[1] < n

\* The message of a turn stands for its texts and images.
LEMMA MessageStands ==
  ASSUME NEW blocks \in Seq(BlockT), NEW role \in Speakers
  PROVE  LET m == Message(blocks, role)
         IN  /\ DOMAIN m \subseteq {1}
             /\ \A j \in DOMAIN m : \A p \in DOMAIN m[j].content :
                  \E i \in DOMAIN blocks : /\ blocks[i].kind \in {"text", "image"}
                                           /\ StandsFor(m[j], m[j].content[p], <<blocks[i], role>>)
             /\ \A i \in DOMAIN blocks : blocks[i].kind \in {"text", "image"} =>
                  1 \in DOMAIN m /\ Carries(m[1], blocks[i].id)
<1> DEFINE K == {"text", "image"}
           parts == OfKinds(blocks, K)
           content == responseContent(blocks, role)
           part(b) == [b EXCEPT !.kind = IF @ = "image" THEN "input_image"
                        ELSE IF role = "assistant" THEN "output_text" ELSE "input_text"]
           item == Item("message", role, content)
<1>1. parts \in Seq(BlockT) /\ parts = Only(blocks, OfK(K))
  BY OfKindsType, OfKindsOnly
<1>2. PICK g : SelectedFrom(g, parts, blocks, OfK(K))
  BY <1>1, OnlyPlaces
<1>3. content = [i \in DOMAIN parts |-> part(parts[i])]
  BY DEF responseContent
<1>4. \A b \in OfK(K) : /\ b \in BlockT /\ b.kind \in K
                        /\ part(b).id = b.id /\ part(b).of = b.of
                        /\ part(b).kind \notin {"call", "result"}
                        /\ b.kind = "text" => (part(b).kind = "output_text" <=> role = "assistant")
  BY DEF OfK, BlockT
<1> HIDE DEF parts, part
<1>5. /\ DOMAIN content = 1 .. Len(parts)
      /\ \A p \in 1 .. Len(parts) : /\ g[p] \in 1 .. Len(blocks) /\ blocks[g[p]] \in OfK(K)
                                    /\ content[p] = part(blocks[g[p]])
      /\ \A i \in 1 .. Len(blocks) : blocks[i] \in OfK(K) => \E p \in 1 .. Len(parts) : g[p] = i
  <2>1. DOMAIN parts = 1 .. Len(parts)
    BY <1>1
  <2>2. \A p \in 1 .. Len(parts) : /\ g[p] \in 1 .. Len(blocks) /\ parts[p] = blocks[g[p]]
                                   /\ parts[p] \in OfK(K)
    BY <1>2 DEF SelectedFrom
  <2>3. DOMAIN content = 1 .. Len(parts) /\ \A p \in 1 .. Len(parts) : content[p] = part(parts[p])
    BY <1>3, <2>1, Zenon
  <2>4. \A i \in 1 .. Len(blocks) : blocks[i] \in OfK(K) => \E p \in 1 .. Len(parts) : g[p] = i
    BY <1>2 DEF SelectedFrom
  <2> HIDE DEF content, K
  <2> QED BY <2>2, <2>3, <2>4
<1> HIDE DEF content
<1>6. item.type = "message" /\ item.role = role /\ item.content = content
  BY DEF Item
<1> HIDE DEF item
<1>7. ASSUME NEW p \in DOMAIN content
      PROVE  \E i \in DOMAIN blocks : /\ blocks[i].kind \in K
                                      /\ StandsFor(item, content[p], <<blocks[i], role>>)
  <2> DEFINE b == blocks[g[p]]
             s == <<b, role>>
  <2>1. b \in OfK(K) /\ content[p] = part(b) /\ g[p] \in DOMAIN blocks
    BY <1>5, <1>7
  <2>2. s[1] = b /\ s[2] = role
    OBVIOUS
  <2> HIDE DEF b, s
  <2>3. StandsFor(item, content[p], s) /\ b.kind \in K
    BY <1>4, <1>6, <2>1, <2>2 DEF StandsFor
  <2> QED BY <2>1, <2>3 DEF b, s
<1>8. ASSUME NEW i \in DOMAIN blocks, blocks[i].kind \in K
      PROVE  content # <<>> /\ Carries(item, blocks[i].id)
  <2>1. blocks[i] \in BlockT /\ i \in 1 .. Len(blocks)
    OBVIOUS
  <2>2. blocks[i] \in OfK(K)
    BY <1>8, <2>1 DEF OfK
  <2>3. PICK p \in 1 .. Len(parts) : g[p] = i
    BY <1>5, <2>1, <2>2
  <2>4. p \in DOMAIN content /\ content[p].id = blocks[i].id
    BY <1>4, <1>5, <2>2, <2>3
  <2>5. content # <<>>
    BY <2>4
  <2> QED BY <1>6, <2>4, <2>5 DEF Carries
<1>9. Message(blocks, role) = IF content = <<>> THEN <<>> ELSE <<item>>
  BY DEF Message, content, item
<1> DEFINE m == Message(blocks, role)
<1>10. CASE content = <<>>
  <2>1. m = <<>> /\ DOMAIN m = {}
    BY <1>9, <1>10
  <2> HIDE DEF m
  <2>2. \A i \in DOMAIN blocks : blocks[i].kind \notin K
    BY <1>8, <1>10
  <2>3. DOMAIN m \subseteq {1}
    BY <2>1
  <2> QED BY <2>1, <2>2, <2>3 DEF m
<1>11. CASE content # <<>>
  <2>1. m = <<item>>
    BY <1>9, <1>11
  <2>2. DOMAIN m = {1} /\ m[1] = item
    BY <2>1
  <2> HIDE DEF m
  <2>3. ASSUME NEW j \in DOMAIN m, NEW p \in DOMAIN m[j].content
        PROVE  \E i \in DOMAIN blocks : /\ blocks[i].kind \in {"text", "image"}
                                        /\ StandsFor(m[j], m[j].content[p], <<blocks[i], role>>)
    <3>1. m[j] = item /\ m[j].content = content /\ p \in DOMAIN content
      BY <1>6, <2>2
    <3> QED BY <1>7, <3>1
  <2>4. \A i \in DOMAIN blocks : blocks[i].kind \in {"text", "image"} =>
          1 \in DOMAIN m /\ Carries(m[1], blocks[i].id)
    BY <1>8, <2>2
  <2> QED BY <2>2, <2>3, <2>4 DEF m
<1> QED BY <1>10, <1>11

\* Its items stand for its calls and results, in their order.
ToolsFrom(h, c, blocks) ==
  /\ \A j \in DOMAIN c : /\ h[j] \in DOMAIN blocks /\ blocks[h[j]].kind \in {"call", "result"}
                         /\ c[j].type \in ToolTypes /\ c[j].role = ""
                         /\ c[j].content = <<blocks[h[j]]>>
  /\ \A i, j \in DOMAIN c : i < j => h[i] < h[j]
  /\ \A i \in DOMAIN blocks : blocks[i].kind \in {"call", "result"} => \E j \in DOMAIN c : h[j] = i

LEMMA ToolsStand ==
  ASSUME NEW blocks \in Seq(BlockT)
  PROVE  \E h : ToolsFrom(h, ToolItems(blocks), blocks)
<1> DEFINE K == {"call", "result"}
           tools == OfKinds(blocks, K)
           item(b) == Item(IF b.kind = "call" THEN "function_call" ELSE "function_call_output",
                           "", <<b>>)
           c == ToolItems(blocks)
<1>1. tools \in Seq(BlockT) /\ tools = Only(blocks, OfK(K))
  BY OfKindsType, OfKindsOnly
<1>2. PICK g : SelectedFrom(g, tools, blocks, OfK(K))
  BY <1>1, OnlyPlaces
<1>3. c = [i \in DOMAIN tools |-> item(tools[i])]
  BY DEF ToolItems
<1>4. \A b : item(b).type \in ToolTypes /\ item(b).role = "" /\ item(b).content = <<b>>
  BY DEF Item, ToolTypes
<1>5. \A b \in BlockT : b \in OfK(K) <=> b.kind \in K
  BY DEF OfK
<1> HIDE DEF tools, item, c
<1>6. DOMAIN c = 1 .. Len(tools) /\ \A j \in 1 .. Len(tools) : c[j] = item(tools[j])
  <2>1. DOMAIN tools = 1 .. Len(tools)
    BY <1>1
  <2> QED BY <1>3, <2>1, Zenon
<1>7. ASSUME NEW j \in DOMAIN c
      PROVE  /\ g[j] \in DOMAIN blocks /\ blocks[g[j]].kind \in K
             /\ c[j].type \in ToolTypes /\ c[j].role = "" /\ c[j].content = <<blocks[g[j]]>>
  <2>1. g[j] \in 1 .. Len(blocks) /\ tools[j] = blocks[g[j]] /\ tools[j] \in OfK(K)
    BY <1>2, <1>6 DEF SelectedFrom
  <2>2. blocks[g[j]].kind \in K
    BY <2>1 DEF OfK
  <2>3. c[j] = item(blocks[g[j]])
    BY <1>6, <2>1
  <2> DEFINE b == blocks[g[j]]
  <2>4. c[j] = item(b) /\ b.kind \in K /\ g[j] \in DOMAIN blocks
    BY <2>1, <2>2, <2>3
  <2> HIDE DEF K, b
  <2>5. c[j].type \in ToolTypes /\ c[j].role = "" /\ c[j].content = <<b>>
    BY <1>4, <2>4
  <2> QED BY <2>4, <2>5 DEF b
<1>8. \A i, j \in DOMAIN c : i < j => g[i] < g[j]
  BY <1>2, <1>6 DEF SelectedFrom
<1>9. ASSUME NEW i \in DOMAIN blocks, blocks[i].kind \in K PROVE \E j \in DOMAIN c : g[j] = i
  <2>1. i \in 1 .. Len(blocks) /\ blocks[i] \in BlockT
    OBVIOUS
  <2>2. blocks[i] \in OfK(K)
    BY <1>5, <1>9, <2>1
  <2> QED BY <1>2, <1>6, <2>1, <2>2 DEF SelectedFrom
<1>10. ToolsFrom(g, c, blocks)
  BY <1>7, <1>8, <1>9 DEF ToolsFrom
<1> QED BY <1>10 DEF c
\* Whatever has the message of a turn and its calls and results in their order
\* is faithful to the turn, wherever it puts the message.
LEMMA NewsFaithful ==
  ASSUME NEW t \in TurnT, t.role # "system", NEW n \in Nat, Numbered(t.blocks, n),
         NEW news \in Seq(ItemT),
         Only(news, OfT({"message"})) = Message(t.blocks, t.role),
         Only(news, OfT(ToolTypes)) = ToolItems(t.blocks)
  PROVE  Faithful(news, Words(t))
<1> DEFINE bs == t.blocks
           role == t.role
           m == Message(bs, role)
           c == ToolItems(bs)
           M == OfT({"message"})
           C == OfT(ToolTypes)
           Spoken(i) == bs[i].kind \in {"text", "image"}
           Tool(i) == bs[i].kind \in {"call", "result"}
<1>1. bs \in Seq(BlockT) /\ role \in Speakers /\ c \in Seq(ItemT) /\ m \in Seq(ItemT)
  BY ToolItemsType, MessageType DEF TurnT
<1>2. PICK g : SelectedFrom(g, m, news, M)
  BY OnlyPlaces
<1>3. PICK f : SelectedFrom(f, c, news, C)
  BY OnlyPlaces
<1>4. /\ DOMAIN m \subseteq {1}
      /\ \A j \in DOMAIN m : \A p \in DOMAIN m[j].content :
           \E i \in DOMAIN bs : Spoken(i) /\ StandsFor(m[j], m[j].content[p], <<bs[i], role>>)
      /\ \A i \in DOMAIN bs : Spoken(i) => 1 \in DOMAIN m /\ Carries(m[1], bs[i].id)
  BY <1>1, MessageStands
<1>5. PICK h : ToolsFrom(h, c, bs)
  BY <1>1, ToolsStand
<1>6. /\ \A i \in DOMAIN bs : bs[i] \in BlockT /\ bs[i].id = <<n, i>> /\ i \in Nat
      /\ \A i \in DOMAIN bs : Spoken(i) \/ Tool(i) \/ bs[i].kind = "other"
      /\ \A i, j \in DOMAIN bs : bs[i].id = bs[j].id => i = j
  <2>1. \A i \in DOMAIN bs : bs[i] \in BlockT /\ i \in Nat
    BY <1>1
  <2>2. \A i \in DOMAIN bs : bs[i].id = <<n, i>>
    BY DEF Numbered
  <2>3. \A i \in DOMAIN bs : bs[i].kind \in Kinds
    BY <2>1 DEF BlockT
  <2> QED BY <2>1, <2>2, <2>3 DEF Kinds
<1>7. Words(t) = {<<bs[i], role>> : i \in DOMAIN bs}
  BY DEF Words
<1>8. DOMAIN m = 1 .. Len(m) /\ DOMAIN c = 1 .. Len(c) /\ DOMAIN news = 1 .. Len(news)
  BY <1>1
<1> HIDE DEF bs, role, m, c, Spoken, Tool
\* An item of the news is the message or one of the calls and results.
<1>9. ASSUME NEW k \in DOMAIN news
      PROVE  \/ news[k].type = "message" /\ 1 \in DOMAIN m /\ k = g[1] /\ news[k] = m[1]
             \/ news[k].type \in ToolTypes /\ \E j \in DOMAIN c : k = f[j] /\ news[k] = c[j]
  <2>1. news[k] \in ItemT
    OBVIOUS
  <2>2. news[k] \in M \/ news[k] \in C
    BY <2>1 DEF OfT, ItemT
  <2>3. CASE news[k] \in M
    <3>1. PICK j \in 1 .. Len(m) : g[j] = k /\ m[j] = news[k]
      BY <1>2, <1>8, <2>3 DEF SelectedFrom
    <3>2. j = 1
      BY <1>4, <1>8
    <3>3. news[k].type = "message"
      BY <2>3 DEF OfT
    <3> QED BY <1>8, <3>1, <3>2, <3>3
  <2>4. CASE news[k] \in C
    <3>1. PICK j \in 1 .. Len(c) : f[j] = k /\ c[j] = news[k]
      BY <1>3, <1>8, <2>4 DEF SelectedFrom
    <3>2. news[k].type \in ToolTypes
      BY <2>4 DEF OfT
    <3> QED BY <1>8, <3>1, <3>2
  <2> QED BY <2>2, <2>3, <2>4
<1>10. /\ 1 \in DOMAIN m => g[1] \in DOMAIN news /\ news[g[1]] = m[1]
       /\ \A j \in DOMAIN c : f[j] \in DOMAIN news /\ news[f[j]] = c[j]
  BY <1>2, <1>3, <1>8 DEF SelectedFrom
\* What a call or a result becomes.
<1>11. ASSUME NEW j \in DOMAIN c
       PROVE  /\ h[j] \in DOMAIN bs /\ Tool(h[j]) /\ DOMAIN c[j].content = {1}
              /\ c[j].content[1] = bs[h[j]]
              /\ StandsFor(c[j], c[j].content[1], <<bs[h[j]], role>>)
  <2> DEFINE b == bs[h[j]]
             s == <<b, role>>
  <2>1. /\ h[j] \in DOMAIN bs /\ b.kind \in {"call", "result"} /\ c[j].type \in ToolTypes
        /\ c[j].role = "" /\ c[j].content = <<b>>
    BY <1>5 DEF ToolsFrom
  <2>2. DOMAIN c[j].content = {1} /\ c[j].content[1] = b /\ s[1] = b
    <3>1. \A x : DOMAIN <<x>> = {1} /\ <<x>>[1] = x
      OBVIOUS
    <3>2. s[1] = b
      OBVIOUS
    <3> HIDE DEF b, s
    <3> QED BY <2>1, <3>1, <3>2
  <2>3. Tool(h[j])
    BY <2>1 DEF Tool
  <2> HIDE DEF b, s
  <2>4. StandsFor(c[j], c[j].content[1], s)
    BY <2>1, <2>2 DEF StandsFor
  <2> QED BY <2>1, <2>2, <2>3, <2>4 DEF b, s
\* Every part of the news stands for a block of the turn.
<1>12. ASSUME NEW k \in DOMAIN news, NEW p \in DOMAIN news[k].content
       PROVE  \E i \in DOMAIN bs :
                /\ StandsFor(news[k], news[k].content[p], <<bs[i], role>>)
                /\ (Spoken(i) /\ news[k].type = "message") \/ (Tool(i) /\ news[k].type \in ToolTypes)
  <2>1. CASE news[k].type = "message" /\ 1 \in DOMAIN m /\ news[k] = m[1]
    <3>1. p \in DOMAIN m[1].content
      BY <2>1
    <3>2. PICK i \in DOMAIN bs : Spoken(i) /\ StandsFor(m[1], m[1].content[p], <<bs[i], role>>)
      BY <1>4, <2>1, <3>1
    <3> QED BY <2>1, <3>2
  <2>2. ASSUME NEW j \in DOMAIN c, news[k] = c[j], news[k].type \in ToolTypes
        PROVE  \E i \in DOMAIN bs : /\ StandsFor(news[k], news[k].content[p], <<bs[i], role>>)
                                    /\ Tool(i)
    <3>1. p = 1
      BY <1>11, <2>2
    <3> QED BY <1>11, <2>2, <3>1
  <2> QED BY <1>9, <2>1, <2>2
<1>13. Heard(news, Words(t))
  BY <1>7, <1>12 DEF Heard
<1>14. \A i \in DOMAIN bs : ~(Spoken(i) /\ Tool(i))
  BY DEF Spoken, Tool
<1>15. \A k \in DOMAIN news : ~(news[k].type = "message" /\ news[k].type \in ToolTypes)
  BY DEF ToolTypes
\* What carries a block is of the block's sort.
<1>16. ASSUME NEW k \in DOMAIN news, NEW i \in DOMAIN bs, Carries(news[k], bs[i].id)
       PROVE  (Spoken(i) /\ news[k].type = "message") \/ (Tool(i) /\ news[k].type \in ToolTypes)
  <2>1. PICK p \in DOMAIN news[k].content : news[k].content[p].id = bs[i].id
    BY <1>16 DEF Carries
  <2>2. PICK l \in DOMAIN bs :
          /\ StandsFor(news[k], news[k].content[p], <<bs[l], role>>)
          /\ (Spoken(l) /\ news[k].type = "message") \/ (Tool(l) /\ news[k].type \in ToolTypes)
    BY <1>12
  <2>3. bs[l].id = bs[i].id
    BY <2>1, <2>2 DEF StandsFor
  <2> QED BY <1>6, <2>2, <2>3
<1>17. Once(news, Words(t))
  <2> SUFFICES ASSUME NEW i \in DOMAIN bs, bs[i].kind # "other"
               PROVE  \E k \in DOMAIN news : \A j \in DOMAIN news :
                        Carries(news[j], bs[i].id) <=> j = k
    BY <1>7 DEF Once
  <2>1. CASE Spoken(i)
    <3>1. g[1] \in DOMAIN news /\ Carries(news[g[1]], bs[i].id)
      BY <1>4, <1>10, <2>1
    <3>2. ASSUME NEW j \in DOMAIN news, Carries(news[j], bs[i].id) PROVE j = g[1]
      BY <1>9, <1>14, <1>15, <1>16, <2>1, <3>2
    <3> QED BY <3>1, <3>2
  <2>2. CASE Tool(i)
    <3>1. PICK a \in DOMAIN c : h[a] = i
      BY <1>5, <2>2 DEF ToolsFrom, Tool
    <3>2. f[a] \in DOMAIN news /\ Carries(news[f[a]], bs[i].id)
      BY <1>10, <1>11, <3>1 DEF Carries
    <3>3. ASSUME NEW j \in DOMAIN news, Carries(news[j], bs[i].id) PROVE j = f[a]
      <4>1. news[j].type \in ToolTypes
        BY <1>14, <1>16, <2>2, <3>3
      <4>2. PICK b \in DOMAIN c : j = f[b] /\ news[j] = c[b]
        BY <1>9, <1>15, <4>1
      <4>3. bs[h[b]].id = bs[i].id
        BY <1>11, <3>3, <4>2 DEF Carries
      <4>4. h[a] = h[b]
        BY <1>6, <1>11, <3>1, <4>3
      <4>5. a = b
        <5>1. a \in Nat /\ b \in Nat /\ h[a] \in Nat
          <6>1. h[a] \in DOMAIN bs /\ a \in 1 .. Len(c) /\ b \in 1 .. Len(c)
            BY <1>8, <1>11
          <6>2. h[a] \in Nat
            BY <1>6, <6>1
          <6> QED BY <6>1, <6>2
        <5>2. ~(a < b) /\ ~(b < a)
          <6>1. (a < b => h[a] < h[b]) /\ (b < a => h[b] < h[a])
            BY <1>5 DEF ToolsFrom
          <6> QED BY <4>4, <5>1, <6>1
        <5> QED BY <5>1, <5>2
      <4> QED BY <4>2, <4>5
    <3> QED BY <3>2, <3>3
  <2> QED BY <1>6, <2>1, <2>2
<1>18. Ordered(news)
  <2> SUFFICES ASSUME NEW k \in DOMAIN news, NEW j \in DOMAIN news,
                      NEW p \in DOMAIN news[k].content, NEW q \in DOMAIN news[j].content,
                      Before(<<k, p>>, <<j, q>>)
               PROVE  InOrder(news[k].content[p], news[j].content[q])
    BY DEF Ordered
  <2> DEFINE first == news[k].content[p]
             second == news[j].content[q]
  <2>1. PICK a \in DOMAIN bs :
          /\ StandsFor(news[k], first, <<bs[a], role>>)
          /\ (Spoken(a) /\ news[k].type = "message") \/ (Tool(a) /\ news[k].type \in ToolTypes)
    BY <1>12
  <2>2. PICK b \in DOMAIN bs :
          /\ StandsFor(news[j], second, <<bs[b], role>>)
          /\ (Spoken(b) /\ news[j].type = "message") \/ (Tool(b) /\ news[j].type \in ToolTypes)
    BY <1>12
  <2>3. first.id = <<n, a>> /\ second.id = <<n, b>>
    BY <1>6, <2>1, <2>2 DEF StandsFor
  <2>4. k < j \/ (k = j /\ p < q)
    BY DEF Before
  <2>5. ASSUME first.kind \in {"call", "result"}, second.kind \in {"call", "result"}
        PROVE  Before(first.id, second.id)
    <3>1. Tool(a) /\ Tool(b)
      BY <2>1, <2>2, <2>5 DEF StandsFor, Spoken
    <3>2. PICK x \in DOMAIN c : k = f[x] /\ news[k] = c[x]
      BY <1>9, <1>14, <1>15, <2>1, <3>1
    <3>3. PICK y \in DOMAIN c : j = f[y] /\ news[j] = c[y]
      BY <1>9, <1>14, <1>15, <2>2, <3>1
    <3>4. p = 1 /\ q = 1 /\ first = bs[h[x]] /\ second = bs[h[y]]
      BY <1>11, <3>2, <3>3
    <3>5. first.id = <<n, h[x]>> /\ second.id = <<n, h[y]>> /\ h[x] \in Nat /\ h[y] \in Nat
      BY <1>6, <1>11, <3>4
    <3>6. x \in 1 .. Len(c) /\ y \in 1 .. Len(c) /\ k \in Nat /\ j \in Nat
      BY <1>8
    <3>7. x < y
      <4>1. k < j
        BY <2>4, <3>4
      <4>2. y < x => f[y] < f[x]
        BY <1>3, <3>6 DEF SelectedFrom
      <4> QED BY <3>2, <3>3, <3>6, <4>1, <4>2
    <3>8. h[x] < h[y]
      BY <1>5, <3>7 DEF ToolsFrom
    <3> QED BY <3>5, <3>8 DEF Before
  <2> HIDE DEF first, second
  <2>6. first.id[1] <= second.id[1]
    BY <2>3
  <2> QED BY <2>5, <2>6 DEF InOrder, first, second
<1> QED BY <1>13, <1>17, <1>18 DEF Faithful
LEMMA BothFaithful ==
  ASSUME NEW t \in TurnT, t.role # "system", WellSaid(t), NEW n \in Nat, Numbered(t.blocks, n)
  PROVE  Faithful(ChatNews(t), Words(t)) /\ Faithful(AnthropicNews(t), Words(t))
<1> DEFINE d == ToolItems(t.blocks)
           m == Message(t.blocks, t.role)
           cn == ChatNews(t)
           an == AnthropicNews(t)
           M == OfT({"message"})
           C == OfT(ToolTypes)
<1>1. /\ t.blocks \in Seq(BlockT) /\ t.role \in Speakers
      /\ cn \in Seq(ItemT) /\ an \in Seq(ItemT) /\ an = d \o m
  BY NewsType DEF TurnT, AnthropicNews
<1>2. d \in Seq(ItemT) /\ m \in Seq(ItemT)
  BY <1>1, ToolItemsType, MessageType
<1>3. Only(m, M) = m /\ Only(m, C) = <<>> /\ Only(d, M) = <<>> /\ Only(d, C) = d
  BY <1>1, OfTypes
<1>4. Only(cn, M) = Only(an, M) /\ Only(cn, C) = Only(an, C)
  BY NewsAgree DEF ItemSorts
<1> HIDE DEF cn, an, d, m, M, C
<1>5. \A S : Only(d \o m, S) = Only(d, S) \o Only(m, S)
  BY <1>2, OnlyConcat
<1>6. <<>> \o m = m /\ d \o <<>> = d
  BY <1>2, ConcatEmptySeq
<1>7. /\ Only(an, M) = m /\ Only(an, C) = d
      /\ Only(cn, M) = m /\ Only(cn, C) = d
  BY <1>1, <1>3, <1>4, <1>5, <1>6
<1>8. \A news \in Seq(ItemT) : Only(news, M) = m /\ Only(news, C) = d => Faithful(news, Words(t))
  BY NewsFaithful DEF m, d, M, C
<1> QED BY <1>1, <1>7, <1>8 DEF cn, an

\* Blocks are known by their places, and results answer earlier turns.
Placed ==
  /\ Numbered(turn.blocks, Len(turns) + 1)
  /\ \A t \in DOMAIN turns : Numbered(turns[t].blocks, t)

LEMMA AnsweredBefore ==
  ASSUME Conversation, Placed, turn.role = "user", NEW of \in Unanswered
  PROVE  of[1] < Len(turns) + 1
<1> DEFINE all == Append(turns, turn)
           said == UNION {ToSet(t.blocks) : t \in ToSet(all)}
<1>1. PICK b \in said : b.kind = "call" /\ of = b.id
  BY DEF Unanswered
<1>2. PICK t \in ToSet(all) : b \in ToSet(t.blocks)
  OBVIOUS
<1>3. turns \in Seq(TurnT) /\ turn \in TurnT
  BY DEF Conversation
<1>4. PICK k \in 1 .. Len(turns) + 1 : t = IF k <= Len(turns) THEN turns[k] ELSE turn
  <2>1. all \in Seq(TurnT) /\ Len(all) = Len(turns) + 1
    BY <1>3
  <2>2. PICK k \in 1 .. Len(turns) + 1 : t = all[k]
    BY <1>2, <2>1 DEF ToSet
  <2>3. all[k] = IF k <= Len(turns) THEN turns[k] ELSE turn
    BY <1>3
  <2> QED BY <2>2, <2>3
<1>5. Len(turns) \in Nat
  BY <1>3
<1>6. CASE k <= Len(turns)
  <2>1. k \in DOMAIN turns /\ t = turns[k]
    BY <1>3, <1>4, <1>6
  <2>2. PICK i \in DOMAIN t.blocks : b = t.blocks[i]
    BY <1>2 DEF ToSet
  <2>3. b.id = <<k, i>>
    BY <2>1, <2>2 DEF Placed, Numbered
  <2> QED BY <1>1, <1>4, <1>5, <1>6, <2>3
<1>7. CASE ~(k <= Len(turns))
  <2>1. t = turn
    BY <1>4, <1>7
  <2>2. b.kind \in MayUse(turn.role)
    BY <1>2, <2>1 DEF Conversation, WellSaid, ToSet
  <2> QED BY <1>1, <2>2 DEF MayUse
<1> QED BY <1>6, <1>7

LEMMA PlacedStep ==
  ASSUME Conversation, Placed, [Next]_vars PROVE Placed'
<1>0. /\ turns \in Seq(TurnT) /\ turn \in TurnT /\ turn.blocks \in Seq(BlockT)
      /\ turn.role \in Speakers \cup {"system"} /\ Len(turns) \in Nat
  BY DEF Conversation, TurnT
<1>1. ASSUME NEW kind \in Kinds, NEW of \in Unanswered \cup {NoCall}, Say(kind, of)
      PROVE  Placed'
  <2> DEFINE b == Block(kind, <<Len(turns) + 1, Len(turn.blocks) + 1>>, of)
             old == turn.blocks
             bs == Append(old, b)
             n == Len(turns) + 1
  <2>1. turn' = [turn EXCEPT !.blocks = bs] /\ turns' = turns /\ kind \in MayUse(turn.role)
    BY <1>1 DEF Say
  <2>2. turn'.blocks = bs
    BY <1>0, <2>1 DEF TurnT
  <2>3. b.id = <<n, Len(old) + 1>> /\ b.of = of
    BY DEF Block
  <2>4. of[1] < n
    <3>1. CASE kind = "result"
      <4>1. of \in Unanswered
        BY <1>1, <3>1 DEF Say
      <4>2. turn.role = "user"
        BY <1>0, <2>1, <3>1 DEF MayUse, Speakers
      <4> QED BY <4>1, <4>2, AnsweredBefore
    <3>2. CASE kind # "result"
      <4>1. of = NoCall
        BY <1>1, <3>2 DEF Say
      <4> QED BY <1>0, <4>1 DEF NoCall
    <3> QED BY <3>1, <3>2
  <2>5. old \in Seq(BlockT) /\ Numbered(old, n)
    BY <1>0 DEF Placed
  <2> HIDE DEF b, old
  <2>6. /\ DOMAIN bs = 1 .. Len(old) + 1 /\ bs[Len(old) + 1] = b
        /\ \A i \in 1 .. Len(old) : bs[i] = old[i] /\ i \in DOMAIN old
    BY <2>5
  <2>7. Len(old) \in Nat
    BY <2>5
  <2> HIDE DEF bs, n
  <2>8. ASSUME NEW i \in DOMAIN bs PROVE bs[i].id = <<n, i>> /\ bs[i].of[1] < n
    <3>1. CASE i = Len(old) + 1
      BY <2>3, <2>4, <2>6, <3>1
    <3>2. CASE i # Len(old) + 1
      <4>1. i \in 1 .. Len(old)
        BY <2>6, <2>7, <3>2
      <4> QED BY <2>5, <2>6, <4>1 DEF Numbered
    <3> QED BY <3>1, <3>2
  <2>9. Numbered(turn'.blocks, Len(turns') + 1)
    BY <2>1, <2>2, <2>8 DEF Numbered, n
  <2> QED BY <2>1, <2>9 DEF Placed
<1>2. CASE Convert
  <2>1. turns' = Append(turns, turn) /\ turn'.blocks = <<>>
    BY <1>2 DEF Convert, Turn
  <2>2. Numbered(turn'.blocks, Len(turns') + 1)
    BY <2>1 DEF Numbered
  <2>3. ASSUME NEW t \in DOMAIN turns' PROVE Numbered(turns'[t].blocks, t)
    <3>1. CASE t = Len(turns) + 1
      <4>1. turns'[t] = turn
        BY <1>0, <2>1, <3>1
      <4> QED BY <3>1, <4>1 DEF Placed
    <3>2. CASE t # Len(turns) + 1
      <4>1. t \in DOMAIN turns /\ turns'[t] = turns[t]
        BY <1>0, <2>1, <3>2
      <4> QED BY <4>1 DEF Placed
    <3> QED BY <3>1, <3>2
  <2> QED BY <2>2, <2>3 DEF Placed
<1>3. CASE Send
  BY <1>3 DEF Send, Placed
<1>4. CASE UNCHANGED vars
  BY <1>4 DEF vars, Placed
<1> QED BY <1>1, <1>2, <1>3, <1>4 DEF Next
LEMMA SaidBlocks ==
  ASSUME Conversation, Placed
  PROVE  /\ Said(turns) \in SUBSET SaidT
         /\ \A s \in Said(turns) :
              \E t \in DOMAIN turns : \E i \in DOMAIN turns[t].blocks :
                /\ s = <<turns[t].blocks[i], turns[t].role>> /\ turns[t].role # "system"
                /\ s[1].id = <<t, i>> /\ s[1].of[1] < t
<1>1. ASSUME NEW t \in DOMAIN turns
      PROVE  turns[t].blocks \in Seq(BlockT) /\ turns[t].role \in Speakers \cup {"system"}
  <2>1. turns[t] \in TurnT
    BY DEF Conversation
  <2> QED BY <2>1 DEF TurnT
<1>2. ASSUME NEW s \in Said(turns)
      PROVE  /\ s \in SaidT
             /\ \E t \in DOMAIN turns : \E i \in DOMAIN turns[t].blocks :
                  /\ s = <<turns[t].blocks[i], turns[t].role>> /\ turns[t].role # "system"
                  /\ s[1].id = <<t, i>> /\ s[1].of[1] < t
  <2>1. PICK t \in DOMAIN turns : s \in Words(turns[t])
    BY DEF Said
  <2> DEFINE bs == turns[t].blocks
             role == turns[t].role
  <2>2. role # "system" /\ \E i \in DOMAIN bs : s = <<bs[i], role>>
    BY <2>1 DEF Words
  <2>3. bs \in Seq(BlockT) /\ role \in Speakers \cup {"system"} /\ Numbered(bs, t)
    BY <1>1 DEF Placed
  <2> HIDE DEF bs, role
  <2>4. PICK i \in DOMAIN bs : s = <<bs[i], role>>
    BY <2>2
  <2>5. bs[i] \in BlockT
    BY <2>3
  <2>6. s \in SaidT
    BY <2>3, <2>4, <2>5 DEF SaidT
  <2>7. bs[i].id = <<t, i>> /\ bs[i].of[1] < t
    BY <2>3 DEF Numbered
  <2>8. s[1] = bs[i]
    BY <2>4
  <2> QED BY <2>2, <2>4, <2>6, <2>7, <2>8 DEF bs, role
<1> QED BY <1>2

LEMMA SaidMore ==
  ASSUME Conversation PROVE Said(Append(turns, turn)) = Said(turns) \cup Words(turn)
<1> DEFINE all == Append(turns, turn)
           n == Len(turns) + 1
<1>1. turns \in Seq(TurnT) /\ turn \in TurnT
  BY DEF Conversation
<1>2. /\ DOMAIN all = 1 .. n /\ all[n] = turn /\ DOMAIN turns = 1 .. Len(turns)
      /\ Len(turns) \in Nat /\ \A t \in 1 .. Len(turns) : all[t] = turns[t]
  BY <1>1
<1> HIDE DEF all
<1>3. \A t \in DOMAIN all : t = n \/ t \in DOMAIN turns
  BY <1>2
<1>4. n \in DOMAIN all /\ \A t \in DOMAIN turns : t \in DOMAIN all
  BY <1>2
<1> HIDE DEF n
<1>5. \A s : s \in Said(all) <=> s \in Said(turns) \cup Words(turn)
  BY <1>2, <1>3, <1>4 DEF Said
<1> QED BY <1>5 DEF all

NothingSaid == <<Item("message", "user", <<Block("input_text", NoCall, NoCall)>>)>>

\* What is in the input of a call that was sent: what was said, or, if that is
\* nothing, an empty message.
Kept ==
  /\ phase # "sent" => /\ Faithful(chat.input, Said(turns))
                       /\ Faithful(anthropic.input, Said(turns))
  /\ phase = "sent" => \A out \in {chat, anthropic} :
       \/ Faithful(out.input, Said(turns))
       \/ Faithful(<<>>, Said(turns)) /\ out.input = NothingSaid

LEMMA KeptStep ==
  ASSUME Conversation, Outputs, Placed, Kept, [Next]_vars PROVE Kept'
<1>0. chat.input \in Seq(ItemT) /\ anthropic.input \in Seq(ItemT)
  BY DEF Outputs
<1>1. CASE Convert
  <2>1. /\ chat \in OutT /\ anthropic \in OutT /\ turn \in TurnT /\ WellSaid(turn)
        /\ turn.blocks \in Seq(BlockT) /\ Numbered(turn.blocks, Len(turns) + 1)
        /\ turns' = Append(turns, turn) /\ phase # "sent" /\ phase' = phase /\ Len(turns) \in Nat
    BY <1>1 DEF Convert, Outputs, Conversation, Placed, TurnT
  <2>2. Said(turns') = Said(turns) \cup Words(turn)
    BY <2>1, SaidMore
  <2>3. CASE turn.role = "system"
    <3>1. /\ chat' = Instruct(chat, turn.blocks)
          /\ anthropic' = Instruct(anthropic, turn.blocks)
      BY <1>1, <2>3, Converted
    <3> DEFINE said == OfKinds(turn.blocks, {"text"})
    <3> HIDE DEF said
    <3>2. /\ chat' = [chat EXCEPT !.instructions = @ \o said]
          /\ anthropic' = [anthropic EXCEPT !.instructions = @ \o said]
      BY <3>1 DEF Instruct, said
    <3>3. chat'.input = chat.input /\ anthropic'.input = anthropic.input
      BY <2>1, <3>2 DEF OutT
    <3>4. Said(turns') = Said(turns)
      BY <2>2, <2>3 DEF Words
    <3> QED BY <2>1, <3>3, <3>4 DEF Kept
  <2>4. CASE turn.role # "system"
    <3> DEFINE cn == ChatNews(turn)
               an == AnthropicNews(turn)
               old == Said(turns)
               new == Words(turn)
    <3>1. cn \in Seq(ItemT) /\ an \in Seq(ItemT)
      BY <2>1, <2>4, NewsType
    <3>2. chat'.input = chat.input \o cn /\ anthropic'.input = anthropic.input \o an
      BY <1>1, <2>1, <2>4, <3>1, Converted, AddType
    <3>3. Faithful(cn, new) /\ Faithful(an, new)
      BY <2>1, <2>4, BothFaithful
    <3>4. ASSUME NEW r \in new PROVE r \in SaidT /\ r[1].id[1] = Len(turns) + 1
      <4> DEFINE bs == turn.blocks
                 role == turn.role
      <4>1. PICK i \in DOMAIN bs : r = <<bs[i], role>>
        BY <2>4 DEF Words
      <4>2. bs \in Seq(BlockT) /\ role \in Speakers \cup {"system"} /\ Numbered(bs, Len(turns) + 1)
        BY <2>1 DEF TurnT
      <4> HIDE DEF bs, role
      <4>3. bs[i] \in BlockT /\ r[1] = bs[i]
        BY <4>1, <4>2
      <4>4. bs[i].id = <<Len(turns) + 1, i>>
        BY <4>2 DEF Numbered
      <4> QED BY <4>1, <4>2, <4>3, <4>4 DEF SaidT
    <3>5. old \in SUBSET SaidT /\ \A s \in old : s[1].id[1] < Len(turns) + 1
      <4>1. old \in SUBSET SaidT
        BY SaidBlocks
      <4>2. ASSUME NEW s \in old PROVE s[1].id[1] < Len(turns) + 1
        <5>1. PICK t \in DOMAIN turns : \E i : s[1].id = <<t, i>>
          BY SaidBlocks
        <5>2. t \in 1 .. Len(turns)
          BY DEF Conversation
        <5> QED BY <2>1, <5>1, <5>2
      <4> QED BY <4>1, <4>2
    <3>6. Faithful(chat.input, old) /\ Faithful(anthropic.input, old)
      BY <2>1 DEF Kept
    <3> DEFINE ci == chat.input
               ai == anthropic.input
    <3>7. /\ ci \in Seq(ItemT) /\ ai \in Seq(ItemT) /\ new \in SUBSET SaidT
          /\ \A s \in old, r \in new : s[1].id[1] < r[1].id[1]
      BY <1>0, <3>4, <3>5
    <3> HIDE DEF cn, an, old, new, ci, ai
    <3>8. Faithful(ci \o cn, old \cup new) /\ Faithful(ai \o an, old \cup new)
      <4>1. Faithful(ci, old) /\ Faithful(ai, old)
        BY <3>6 DEF ci, ai
      <4> QED BY <3>1, <3>3, <3>5, <3>7, <4>1, Joined
    <3> QED BY <2>1, <2>2, <3>2, <3>8 DEF Kept, old, new, ci, ai
  <2> QED BY <2>3, <2>4
<1>2. CASE Send
  <2>1. phase = "writing" /\ turns' = turns
    BY <1>2 DEF Send
  <2>2. CASE phase' = "sent"
    <3>1. PICK c1, c2 : chat' = Payload(chat, c1) /\ anthropic' = Payload(anthropic, c2)
      BY <1>2, <2>2 DEF Send
    <3>2. ASSUME NEW out, NEW choice, Faithful(out.input, Said(turns))
          PROVE  \/ Faithful(Payload(out, choice).input, Said(turns))
                 \/ Faithful(<<>>, Said(turns)) /\ Payload(out, choice).input = NothingSaid
      <4>1. Payload(out, choice).input = IF out.input = <<>> THEN NothingSaid ELSE out.input
        BY DEF Payload, NothingSaid
      <4> QED BY <3>2, <4>1
    <3> QED BY <2>1, <2>2, <3>1, <3>2 DEF Kept
  <2>3. CASE phase' # "sent"
    BY <1>2, <2>1, <2>3 DEF Send, Kept
  <2> QED BY <2>2, <2>3
<1>3. ASSUME NEW kind \in Kinds, NEW of \in Unanswered \cup {NoCall}, Say(kind, of)
      PROVE  Kept'
  BY <1>3 DEF Say, Kept
<1>4. CASE UNCHANGED vars
  BY <1>4 DEF vars, Kept
<1> QED BY <1>1, <1>2, <1>3, <1>4 DEF Next

LEMMA WhatIsKept == Spec => [](Conversation /\ Outputs /\ Placed /\ Kept)
<1>1. Init => Placed /\ Kept
  <2> SUFFICES ASSUME Init PROVE Placed /\ Kept
    OBVIOUS
  <2>1. turns = <<>> /\ turn.blocks = <<>> /\ chat.input = <<>> /\ anthropic.input = <<>>
        /\ phase = "writing"
    BY DEF Init, Turn
  <2>2. Said(turns) = {}
    BY <2>1 DEF Said
  <2>3. Faithful(<<>>, {})
    BY DEF Faithful, Heard, Once, Ordered
  <2> QED BY <2>1, <2>2, <2>3 DEF Placed, Numbered, Kept
<1>2. Conversation /\ Outputs /\ Placed /\ Kept /\ [Next]_vars => Placed' /\ Kept'
  BY PlacedStep, KeptStep
<1> QED BY <1>1, <1>2, Types, PTL DEF Spec
LEMMA NothingSaidIs ==
  /\ DOMAIN NothingSaid = {1}
  /\ DOMAIN NothingSaid[1].content = {1} /\ NothingSaid[1].content[1].id = NoCall
<1> DEFINE b == Block("input_text", NoCall, NoCall)
           item == Item("message", "user", <<b>>)
<1>1. b.id = NoCall
  BY DEF Block
<1> HIDE DEF b
<1>2. DOMAIN item.content = {1} /\ item.content[1] = b
  BY DEF Item
<1> HIDE DEF item
<1>3. NothingSaid = <<item>>
  BY DEF NothingSaid, item, b
<1> QED BY <1>1, <1>2, <1>3

\* Nothing a client says is lost, doubled or put in another mouth, in a
\* conversation of any length: every loop of the two conversions keeps what the
\* others leave out (request.go:58, 108, 175).
THEOREM BlocksCorrect == Spec => []EachBlockOnce
<1>1. Conversation /\ Outputs /\ Placed /\ Kept => EachBlockOnce
  <2> SUFFICES ASSUME Conversation, Outputs, Placed, Kept,
                      NEW out \in {chat, anthropic}, NEW t \in DOMAIN turns,
                      turns[t].role # "system", NEW i \in DOMAIN turns[t].blocks
               PROVE  LET b == turns[t].blocks[i]
                          carriers == {k \in DOMAIN out.input :
                                         \E p \in ToSet(out.input[k].content) : p.id = b.id}
                      IN  IF b.kind = "other" THEN carriers = {}
                          ELSE \E k \in carriers :
                                 /\ carriers = {k}
                                 /\ out.input[k].role = IF b.kind \in {"text", "image"}
                                                        THEN turns[t].role ELSE ""
                                 /\ b.kind = "text" =>
                                      \E p \in ToSet(out.input[k].content) :
                                        p.id = b.id /\ (p.kind = "output_text" <=> turns[t].role = "assistant")
    BY Zenon DEF EachBlockOnce
  <2> DEFINE b == turns[t].blocks[i]
             role == turns[t].role
             s == <<b, role>>
             input == out.input
             carriers == {k \in DOMAIN input : \E p \in ToSet(input[k].content) : p.id = b.id}
             said == Said(turns)
  <2>1. s \in said /\ s[1] = b /\ s[2] = role
    BY DEF Said, Words
  <2>2. \A r \in said : r[1].id = b.id => r = s
    <3> SUFFICES ASSUME NEW r \in said, r[1].id = b.id PROVE r = s
      OBVIOUS
    <3>1. PICK u \in DOMAIN turns : \E j \in DOMAIN turns[u].blocks :
            r = <<turns[u].blocks[j], turns[u].role>> /\ r[1].id = <<u, j>>
      BY SaidBlocks
    <3>2. PICK j \in DOMAIN turns[u].blocks :
            r = <<turns[u].blocks[j], turns[u].role>> /\ r[1].id = <<u, j>>
      BY <3>1
    <3>3. b.id = <<t, i>>
      BY DEF Placed, Numbered
    <3>4. u = t /\ j = i
      BY <3>2, <3>3
    <3> QED BY <3>2, <3>4
  <2>3. b.id # NoCall
    <3>1. b.id = <<t, i>> /\ t # 0
      BY DEF Placed, Numbered, Conversation
    <3> QED BY <3>1 DEF NoCall
  <2>4. input \in Seq(ItemT)
    BY DEF Outputs
  <2>5. \/ Faithful(input, said)
        \/ Faithful(<<>>, said) /\ input = NothingSaid
    BY DEF Kept
  <2> HIDE DEF b, role, s, input, said
  <2>6. carriers = {k \in DOMAIN input : Carries(input[k], b.id)}
    <3>1. ASSUME NEW k \in DOMAIN input
          PROVE  (\E p \in ToSet(input[k].content) : p.id = b.id) <=> Carries(input[k], b.id)
      BY DEF ToSet, Carries
    <3> QED BY <3>1
  <2> HIDE DEF carriers
  <2>7. CASE Faithful(input, said)
    <3>1. ASSUME NEW k \in DOMAIN input, NEW p \in DOMAIN input[k].content,
                 input[k].content[p].id = b.id
          PROVE  StandsFor(input[k], input[k].content[p], s)
      <4>1. PICK r \in said : StandsFor(input[k], input[k].content[p], r)
        BY <2>7 DEF Faithful, Heard
      <4>2. r = s
        BY <2>2, <3>1, <4>1 DEF StandsFor
      <4> QED BY <4>1, <4>2
    <3>2. CASE b.kind = "other"
      <4>1. carriers = {}
        BY <2>1, <2>6, <3>1, <3>2 DEF Carries, StandsFor
      <4> QED BY <3>2, <4>1 DEF carriers, b, input
    <3>3. CASE b.kind # "other"
      <4>1. PICK k \in DOMAIN input : \A j \in DOMAIN input : Carries(input[j], b.id) <=> j = k
        BY <2>1, <2>7, <3>3 DEF Faithful, Once
      <4>2. carriers = {k}
        BY <2>6, <4>1
      <4>3. PICK p \in DOMAIN input[k].content : input[k].content[p].id = b.id
        BY <4>1 DEF Carries
      <4> DEFINE part == input[k].content[p]
      <4>4. StandsFor(input[k], part, s)
        BY <3>1, <4>3
      <4>5. part \in ToSet(input[k].content)
        BY DEF ToSet
      <4>6. part.id = b.id
        BY <4>3
      <4> HIDE DEF part
      <4>7. b.kind \in Kinds
        <5>1. s \in SaidT
          BY <2>1, SaidBlocks DEF said
        <5> QED BY <2>1, <5>1 DEF SaidT, BlockT
      <4>8. input[k].role = IF b.kind \in {"text", "image"} THEN role ELSE ""
        BY <2>1, <3>3, <4>4, <4>7 DEF StandsFor, Kinds
      <4>9. b.kind = "text" => (part.kind = "output_text" <=> role = "assistant")
        BY <2>1, <4>4 DEF StandsFor
      <4> QED BY <3>3, <4>2, <4>5, <4>6, <4>8, <4>9 DEF carriers, b, input, role
    <3> QED BY <3>2, <3>3
  <2>8. CASE Faithful(<<>>, said) /\ input = NothingSaid
    <3>1. b.kind = "other"
      BY <2>1, <2>8 DEF Faithful, Once
    <3>2. carriers = {}
      BY <2>3, <2>6, <2>8, NothingSaidIs DEF Carries
    <3> QED BY <3>1, <3>2 DEF carriers, b, input
  <2> QED BY <2>5, <2>7, <2>8
<1> QED BY <1>1, WhatIsKept, PTL

\* Turns keep their order, calls and results keep theirs and no result precedes
\* its call, in a conversation of any length (request.go:63, 115).
THEOREM OrderCorrect == Spec => []TurnsKeepTheirOrder
<1>1. Conversation /\ Outputs /\ Placed /\ Kept => TurnsKeepTheirOrder
  <2> SUFFICES ASSUME Conversation, Outputs, Placed, Kept, NEW out \in {chat, anthropic},
                      NEW x \in Places(out), NEW y \in Places(out), Before(x, y)
               PROVE  /\ Part(out, x).id[1] <= Part(out, y).id[1]
                      /\ {Part(out, x).kind, Part(out, y).kind} \subseteq {"call", "result"} =>
                           Before(Part(out, x).id, Part(out, y).id)
                      /\ Part(out, x).of # Part(out, y).id
    BY Zenon DEF TurnsKeepTheirOrder
  <2> DEFINE input == out.input
             said == Said(turns)
  <2>1. input \in Seq(ItemT)
    BY DEF Outputs
  <2>2. \/ Faithful(input, said)
        \/ Faithful(<<>>, said) /\ input = NothingSaid
    BY DEF Kept
  <2>3. PICK k \in DOMAIN input : \E p \in DOMAIN input[k].content : x = <<k, p>>
    BY DEF Places
  <2>3a. PICK p \in DOMAIN input[k].content : x = <<k, p>>
    BY <2>3
  <2>4. PICK j \in DOMAIN input : \E q \in DOMAIN input[j].content : y = <<j, q>>
    BY DEF Places
  <2>4a. PICK q \in DOMAIN input[j].content : y = <<j, q>>
    BY <2>4
  <2> DEFINE first == input[k].content[p]
             second == input[j].content[q]
  <2>5. Part(out, x) = first /\ Part(out, y) = second
    BY <2>3a, <2>4a DEF Part
  <2> HIDE DEF input, said
  <2>6. CASE Faithful(input, said)
    <3>1. InOrder(first, second)
      BY <2>3a, <2>4a, <2>6 DEF Faithful, Ordered
    <3>2. PICK s \in said : StandsFor(input[k], first, s)
      BY <2>6 DEF Faithful, Heard
    <3>3. PICK r \in said : StandsFor(input[j], second, r)
      BY <2>6 DEF Faithful, Heard
    <3>4. first.id = s[1].id /\ first.of = s[1].of /\ second.id = r[1].id
      BY <3>2, <3>3 DEF StandsFor
    <3> HIDE DEF first, second
    <3>5. PICK t \in DOMAIN turns : s[1].of[1] < t /\ s[1].id[1] = t
      <4>1. PICK t \in DOMAIN turns : \E i : s[1].id = <<t, i>> /\ s[1].of[1] < t
        BY SaidBlocks DEF said
      <4> QED BY <4>1
    <3>6. s[1].of[1] \in Nat /\ s[1].id[1] \in Nat /\ r[1].id[1] \in Nat
      <4>1. s \in SaidT /\ r \in SaidT
        BY SaidBlocks DEF said
      <4> QED BY <4>1 DEF SaidT, BlockT
    <3>7. first.of # second.id
      BY <3>1, <3>4, <3>5, <3>6 DEF InOrder
    <3> QED BY <2>5, <3>1, <3>7 DEF InOrder
  <2>7. CASE input = NothingSaid
    <3>1. k = 1 /\ j = 1 /\ p = 1 /\ q = 1
      BY <2>7, NothingSaidIs
    <3>2. ~Before(x, y)
      BY <2>3a, <2>4a, <3>1 DEF Before
    <3> QED BY <3>2
  <2> QED BY <2>2, <2>6, <2>7
<1> QED BY <1>1, WhatIsKept, PTL
=============================================================================
