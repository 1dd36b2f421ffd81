---------------------------- MODULE RequestConvert --------------------------
(***************************************************************************)
(* prepareRequest in internal/proxy/request.go and canonicalModel in       *)
(* model.go: a conversation in the form of an OpenAI chat completion or of *)
(* an Anthropic message becomes the input of a Grok Responses call.        *)
(*                                                                         *)
(* One conversation is written block by block and converted in both forms, *)
(* one turn at a time, as the loops over "messages" do.  A block is known  *)
(* by its place in the conversation; schemas, sampling parameters and      *)
(* metadata, which are copied, are left out.                               *)
(***************************************************************************)
EXTENDS Selection, SequencesExt

\* What comes with the messages: model, tools, choice and effort; and the bounds
\* on the turns of the conversation and on the blocks of a turn.
CONSTANT Requests

NameSuffixes == {"-cursor", "-codex"}

\* "other" is any choice that is none of these.
ToolChoices == {"", "auto", "none", "required", "function", "other"}

\* A model's name, cut into words: a route up to its last slash or none, a base,
\* and all the suffixes that end it.
IsName(name, base) ==
  \E k \in DOMAIN name :
    /\ name[k] = base /\ base \notin NameSuffixes \cup {"route/"}
    /\ k = 1 \/ (k = 2 /\ name[1] = "route/")
    /\ \A i \in DOMAIN name : i > k => name[i] \in NameSuffixes

ASSUME RequestAssumption ==
  \A r \in Requests :
    /\ {r.turns, r.blocks} \subseteq Nat
    /\ r.model \in Seq(STRING) /\ \E base \in ToSet(r.model) : IsName(r.model, base)
    /\ r.choice \in ToolChoices

VARIABLES
  request,
  turns,         \* the turns converted so far
  turn,          \* the one being written
  chat,          \* input and instructions, as chatToResponses makes them
  anthropic,     \* the same, as anthropicToResponses makes them
  phase          \* "writing", "sent" or "refused"

vars == <<request, turns, turn, chat, anthropic, phase>>

NoCall == <<0, 0>>

\* A block: its kind, its place, and the place of the call a result answers.
\* "other" stands for what no conversion knows, or an image without a source.
Block(kind, id, of) == [kind |-> kind, id |-> id, of |-> of]

Turn(role) == [role |-> role, blocks |-> <<>>]

Init ==
  /\ request \in Requests
  /\ turns = <<>>
  /\ \E role \in {"system", "user"} : turn = Turn(role)
  /\ chat = [input |-> <<>>, instructions |-> <<>>]
  /\ anthropic = chat
  /\ phase = "writing"
-----------------------------------------------------------------------------
Kinds == {"text", "image", "call", "result", "other"}

OfKinds(blocks, kinds) == Only(blocks, {b \in ToSet(blocks) : b.kind \in kinds})

\* The calls that have no result yet.
Unanswered ==
  LET said == UNION {ToSet(t.blocks) : t \in ToSet(Append(turns, turn))}
  IN  {b.id : b \in {c \in said : c.kind = "call"}} \ {b.of : b \in said}

MayUse(role) ==
  CASE role = "system" -> {"text", "other"}
    [] role = "user" -> {"text", "image", "result", "other"}
    [] role = "assistant" -> {"text", "call", "other"}

\* The client writes a block of a kind its role may use.
Say(kind, of) ==
  /\ phase = "writing"
  /\ Len(turns) < request.turns
  /\ Len(turn.blocks) < request.blocks
  /\ kind \in MayUse(turn.role)
  /\ IF kind = "result" THEN of \in Unanswered ELSE of = NoCall
  /\ turn' = [turn EXCEPT !.blocks =
       Append(@, Block(kind, <<Len(turns) + 1, Len(@) + 1>>, of))]
  /\ UNCHANGED <<request, turns, chat, anthropic, phase>>
-----------------------------------------------------------------------------
\* Items of the Responses input: a message of some parts, a call, a result.
Item(type, role, content) == [type |-> type, role |-> role, content |-> content]

ContentUser(blocks, role) ==   \* mutant: the kind ignores who speaks
  LET parts == OfKinds(blocks, {"text", "image"})
  IN  [i \in DOMAIN parts |-> [parts[i] EXCEPT !.kind =
         IF @ = "image" THEN "input_image" ELSE "input_text"]]

responseContent(blocks, role) ==
  LET parts == OfKinds(blocks, {"text", "image"})
  IN  [i \in DOMAIN parts |-> [parts[i] EXCEPT !.kind =
         IF @ = "image" THEN "input_image"
         ELSE IF role = "assistant" THEN "output_text" ELSE "input_text"]]

MessageAlways(blocks, role) == \* mutant: also without content
  <<Item("message", role, responseContent(blocks, role))>>

Message(blocks, role) ==
  LET content == responseContent(blocks, role)
  IN  IF content = <<>> THEN <<>> ELSE <<Item("message", role, content)>>

\* tool_calls and tool messages, or tool_use and tool_result blocks.
ToolItems(blocks) ==
  LET tools == OfKinds(blocks, {"call", "result"})
  IN  [i \in DOMAIN tools |->
         Item(IF tools[i].kind = "call" THEN "function_call" ELSE "function_call_output",
              "", <<tools[i]>>)]

Instruct(out, blocks) ==
  [out EXCEPT !.instructions = @ \o OfKinds(blocks, {"text"})]

\* How a chat client writes a turn: a tool message for each result, then one
\* message with the content and, apart from it, the calls.
ChatForm(t) ==
  LET results == OfKinds(t.blocks, {"result"})
      rest == OfKinds(t.blocks, Kinds \ {"result"})
  IN  [i \in DOMAIN results |-> [role |-> "tool", blocks |-> <<results[i]>>]]
      \o (IF rest = <<>> THEN <<>> ELSE <<[role |-> t.role, blocks |-> rest]>>)

ChatSkipsCalls(out, m) ==      \* mutant: "continue" when there is no content
  IF m.role = "system" THEN Instruct(out, m.blocks)
  ELSE IF m.role = "assistant" /\ Message(m.blocks, m.role) = <<>> THEN out
  ELSE [out EXCEPT !.input = @ \o Message(m.blocks, m.role) \o ToolItems(m.blocks)]

\* One pass of the loop in chatToResponses.
ChatMessage(out, m) ==
  IF m.role = "system" THEN Instruct(out, m.blocks)
  ELSE [out EXCEPT !.input = @ \o Message(m.blocks, m.role) \o ToolItems(m.blocks)]

\* The loop of chatToResponses, over the messages of a turn.
ChatMessages(out, ms) ==
  LET after[n \in 0 .. Len(ms)] ==
        IF n = 0 THEN out ELSE ChatMessage(after[n - 1], ms[n])
  IN  after[Len(ms)]

AnthropicPrepends(out, m) ==   \* mutant: the new items go in front
  IF m.role = "system" THEN Instruct(out, m.blocks)
  ELSE [out EXCEPT !.input = ToolItems(m.blocks) \o @ \o Message(m.blocks, m.role)]

\* One pass of the loop in anthropicToResponses: the calls and results of a
\* message are emitted on the way, its text and images after them.  The system
\* turns make up the field "system".
AnthropicMessage(out, m) ==
  IF m.role = "system" THEN Instruct(out, m.blocks)
  ELSE [out EXCEPT !.input = @ \o ToolItems(m.blocks) \o Message(m.blocks, m.role)]

Convert ==
  /\ phase = "writing"
  /\ turn.blocks # <<>>
  /\ turns' = Append(turns, turn)
  /\ chat' = ChatMessages(chat, ChatForm(turn))
  /\ anthropic' = AnthropicMessage(anthropic, turn)
  /\ \E role \in {"system", "user", "assistant"} \ {turn.role} : turn' = Turn(role)
  /\ UNCHANGED <<request, phase>>
-----------------------------------------------------------------------------
Bases ==
  LET composer == {"composer-2.5", "grok-composer-2.5", "composer-2.5-fast",
                   "grok-composer-2.5-fast"}
  IN  [base \in {"grok-4.6", "grok-build", "grok-4.5"} \cup composer |->
         IF base \in composer THEN "grok-composer-2.5-fast"
         ELSE IF base = "grok-4.5" THEN base ELSE "grok-4.6"]

TrimSuffix(name, suffix) ==
  IF name # <<>> /\ Last(name) = suffix THEN Front(name) ELSE name

\* A pass of the loop takes a suffix of each kind off the end of a name (for
\* Trim itself, a mutant: there is no loop).
TrimOnce(name) ==
  TrimSuffix(TrimSuffix(name, "-cursor"), "-codex")

Trim(name) ==
  LET pass[n \in 0 .. Len(name)] ==
        IF n = 0 THEN name ELSE TrimOnce(pass[n - 1])
  IN  pass[Len(name)]

canonicalModel(name) ==
  LET key == Trim(IF name[1] = "route/" THEN Tail(name) ELSE name)
  IN  IF Len(key) = 1 /\ key[1] \in DOMAIN Bases THEN Bases[key[1]] ELSE ""

Effort46(raw) ==
  CASE raw \in {"none", "off", "disabled", "false", "0", "minimal", "min", "low", "lite"} -> "low"
    [] raw \in {"medium", "med"} -> "medium"
    [] raw \in {"high", "normal", "standard"} -> "high"
    [] raw \in {"default", "auto", "xhigh", "max", "maximum", "ultra", "highest"} -> "xhigh"
    [] OTHER -> "medium"

Effort45(raw) ==
  CASE raw \in {"none", "off", "disabled", "false", "0", "minimal", "min", "low", "lite"} -> "low"
    [] raw \in {"medium", "med"} -> "medium"
    [] raw \in {"default", "auto", "normal", "standard", "high", "xhigh", "max", "maximum",
                "ultra", "highest"} -> "high"
    [] OTHER -> "medium"

EffortWordMissing(raw, model) ==   \* mutant: a word that one of the tables lacks
  CASE model = "grok-4.6" -> Effort46(raw)
    [] raw = "standard" -> "medium"
    [] OTHER -> Effort45(raw)

normalizeEffort(raw, model) ==
  IF model = "grok-4.6" THEN Effort46(raw) ELSE Effort45(raw)

\* The first field that says something: reasoning_effort and its spellings,
\* reasoning.effort, output_config.effort, thinking.effort, thinking.type.
\* outputConfig (asked.camel) is deleted from the payload and never read.
reasoningEffort(asked) ==
  LET fields == <<asked.flat, asked.nested, asked.output, asked.thinking>>
      said == {i \in 1 .. 4 : fields[i] # ""}
  IN  IF said # {} THEN fields[CHOOSE i \in said : \A j \in said : i <= j]
      ELSE IF asked.adaptive THEN "high" ELSE ""

formatReasoning(asked, model) ==
  LET effort == reasoningEffort(asked)
  IN  IF model \in {"grok-4.6", "grok-4.5"} /\ effort # ""
      THEN normalizeEffort(effort, model) ELSE ""

\* How each kind of client spells what it chooses, and what becomes of it.  A
\* chat client's choice is passed on, known or not, but not without tools.
openAIToolChoice(choice, tools) == IF tools = {} THEN "" ELSE choice

AnthropicSpelling(choice) ==
  CASE choice = "required" -> "any" [] choice = "function" -> "tool" [] OTHER -> choice

anthropicToolChoice(spelled) ==
  CASE spelled \in {"auto", "none"} -> spelled
    [] spelled = "any" -> "required"
    [] spelled = "tool" -> "function"
    [] OTHER -> ""

\* Tools without a name are dropped; an empty conversation gets an empty
\* message of the user.
Tools(tools) == tools \ {""}

Payload(out, choice) ==
  LET model == canonicalModel(request.model)
  IN  [input |-> IF out.input = <<>>
                 THEN <<Item("message", "user", <<Block("input_text", NoCall, NoCall)>>)>>
                 ELSE out.input,
       instructions |-> out.instructions,
       model |-> model,
       reasoning |-> formatReasoning(request.effort, model),
       tools |-> Tools(request.tools),
       choice |-> choice]

\* The client sends what it has written.
Send ==
  /\ phase = "writing"
  /\ turn.blocks = <<>>
  /\ IF canonicalModel(request.model) = ""
     THEN phase' = "refused" /\ UNCHANGED <<chat, anthropic>>
     ELSE /\ phase' = "sent"
          /\ chat' = Payload(chat, openAIToolChoice(request.choice, Tools(request.tools)))
          /\ anthropic' = Payload(anthropic,
                                  anthropicToolChoice(AnthropicSpelling(request.choice)))
  /\ UNCHANGED <<request, turns, turn>>

Next ==
  \/ \E kind \in Kinds, of \in Unanswered \cup {NoCall} : Say(kind, of)
  \/ Convert
  \/ Send

Spec == Init /\ [][Next]_vars
-----------------------------------------------------------------------------
\* The places of the parts of an input: the item, and the part in it.
Places(out) == UNION {{k} \X DOMAIN out.input[k].content : k \in DOMAIN out.input}

Part(out, x) == out.input[x[1]].content[x[2]]

Items(out, types) == Only(out.input, {item \in ToSet(out.input) : item.type \in types})

ToolTypes == {"function_call", "function_call_output"}

Before(x, y) == x[1] < y[1] \/ (x[1] = y[1] /\ x[2] < y[2])

TypeOK ==
  /\ phase \in {"writing", "sent", "refused"}
  /\ Len(turns) <= request.turns /\ Len(turn.blocks) <= request.blocks
  /\ \A out \in {chat, anthropic} : \A i \in DOMAIN out.input :
       /\ out.input[i].type \in ToolTypes \cup {"message"}
       /\ out.input[i].type = "message" <=> out.input[i].role \in {"user", "assistant"}
       /\ out.input[i].content # <<>>

\* Nothing a client says is lost, doubled or put in another mouth: every text
\* and image outside the system turns is in the input once, in a message of its
\* speaker and of the kind the speaker's role demands, and so is every call and
\* every result.
EachBlockOnce ==
  \A out \in {chat, anthropic}, t \in DOMAIN turns : turns[t].role # "system" =>
    \A i \in DOMAIN turns[t].blocks :
      LET b == turns[t].blocks[i]
          carriers == {k \in DOMAIN out.input :
                         \E p \in ToSet(out.input[k].content) : p.id = b.id}
      IN  IF b.kind = "other" THEN carriers = {}
          ELSE \E k \in carriers :
                 /\ carriers = {k}
                 /\ out.input[k].role = IF b.kind \in {"text", "image"}
                                        THEN turns[t].role ELSE ""
                 /\ b.kind = "text" =>
                      \E p \in ToSet(out.input[k].content) :
                        p.id = b.id /\ (p.kind = "output_text" <=> turns[t].role = "assistant")

\* Whatever the blocks of a turn are, its items stay between those of the turns
\* around it, calls and results keep their order, and no result precedes the
\* call it answers.
TurnsKeepTheirOrder ==
  \A out \in {chat, anthropic} : \A x, y \in Places(out) : Before(x, y) =>
    LET first == Part(out, x)
        second == Part(out, y)
    IN  /\ first.id[1] <= second.id[1]
        /\ {first.kind, second.kind} \subseteq {"call", "result"} =>
             Before(first.id, second.id)
        /\ first.of # second.id

\* The same conversation reaches the upstream through either endpoint: the
\* same instructions, messages, calls and results, each in the same order, and
\* the same choice of tools as long as there are tools and both dialects know
\* the choice.
EndpointsAgree ==
  /\ chat.instructions = anthropic.instructions
  /\ \A types \in {{"message"}, ToolTypes} : Items(chat, types) = Items(anthropic, types)
  /\ phase = "sent" /\ chat.tools # {} /\ request.choice # "other" =>
       chat.choice = anthropic.choice

\* Every spelling of a model that the README lists resolves to its base,
\* whatever suffixes follow and in whatever order, no other does, and the name
\* sent upstream would itself be accepted.
ModelsResolve ==
  \A base \in ToSet(request.model) : IsName(request.model, base) =>
    /\ phase = "refused" => base \notin DOMAIN Bases
    /\ phase = "sent" => /\ base \in DOMAIN Bases /\ chat.model = Bases[base]
                         /\ canonicalModel(<<chat.model>>) = chat.model

\* An effort reaches the model exactly when the model has efforts and one of the
\* fields that reasoningEffort reads asks for it: an outputConfig, which is
\* deleted unread, neither brings an effort nor hides one.  The two tables of
\* normalizeEffort agree: what a word means to grok-4.5 is what it means to
\* grok-4.6, but for "xhigh", which is "high" there.
EffortHonoured ==
  phase = "sent" =>
    LET e == request.effort
        for46 == formatReasoning(e, "grok-4.6")
    IN  /\ chat.reasoning # "" <=>
             /\ chat.model # "grok-composer-2.5-fast"
             /\ e.adaptive \/ {e.flat, e.nested, e.output, e.thinking} # {""}
        /\ chat.model = "grok-4.5" =>
             chat.reasoning = IF for46 = "xhigh" THEN "high" ELSE for46

\* An effort in any field that formatReasoning takes out of the payload reaches a
\* model that has efforts.  It does not: outputConfig is taken out unread.
EveryFieldRead ==
  phase = "sent" /\ chat.model # "grok-composer-2.5-fast" /\ request.effort.camel # "" =>
    chat.reasoning # ""

\* The README's "Anthropic Messages compatibility": the upstream sees the parts
\* of an Anthropic conversation in the order in which they were said.
PartsKeepTheirOrder ==
  \A x, y \in Places(anthropic) : Before(x, y) =>
    Before(Part(anthropic, x).id, Part(anthropic, y).id)
=============================================================================
