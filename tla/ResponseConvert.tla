---------------------------- MODULE ResponseConvert -------------------------
(***************************************************************************)
(* writeNonStream in internal/proxy/response.go against the stream         *)
(* converter: while StreamConvert forwards the events of a response, the   *)
(* upstream puts together the response object a client that does not       *)
(* stream would get.  Both clients asked for the same, so at the end both  *)
(* should hold the same answer.                                            *)
(***************************************************************************)
EXTENDS StreamConvert, Selection, SequencesExt

VARIABLES
  output,        \* the items of the response, in order
  status         \* its status: "in_progress", "completed", "incomplete", "failed"

allVars == <<vars, output, status>>

\* An item: its type, the call it is, and the deltas that its content, its
\* summary or its arguments are made of, each known by the part it belongs to.
\* The first delta of a summary is "summary_start".
OutputItem(type, call, parts) == [type |-> type, call |-> call, parts |-> parts]

ResponseInit ==
  /\ Init
  /\ output = <<>>
  /\ status = "in_progress"
-----------------------------------------------------------------------------
Complete == status # "in_progress"

LastIs(type) == output # <<>> /\ Last(output).type = type

\* The upstream extends its last item, or opens one of the type.  The response
\* is complete with the terminal event.
Extend(type, part) ==
  /\ output' = CASE Complete -> output
                 [] ~Complete /\ LastIs(type) ->
                      [output EXCEPT ![Len(output)].parts = Append(@, part)]
                 [] OTHER -> Append(output, OutputItem(type, NoItem, <<part>>))
  /\ UNCHANGED status

TextDelta ==
  /\ ChatDelta("text") \/ AnthropicDelta("text")
  /\ Extend("message", "output_text")

\* A delta of a summary, which begins one or goes on with one, or of the
\* reasoning itself.
ThinkingDelta(part) ==
  /\ part = "summary_text" => LastIs("reasoning") /\ Last(Last(output).parts) # "reasoning_text"
  /\ ChatDelta("thinking") \/ AnthropicDelta("thinking")
  /\ Extend("reasoning", part)

\* response.refusal.delta, an event consume does not know.
RefusalDelta == Ignored /\ Extend("message", "refusal")

AddCall(c) ==
  /\ ChatStartTool(c) \/ AnthropicStartTool(c)
  /\ output' = IF Complete THEN output
               ELSE Append(output, OutputItem("function_call", c, <<>>))
  /\ UNCHANGED status

Arguments(c, id) ==
  /\ ToolDelta(c, id)
  /\ output' = [i \in DOMAIN output |->
       IF output[i].call = c /\ ~Complete
       THEN [output[i] EXCEPT !.parts = Append(@, "arguments")] ELSE output[i]]
  /\ UNCHANGED status

End(as) ==
  /\ Terminal(as = "incomplete")
  /\ status' = IF Complete THEN status ELSE as
  /\ UNCHANGED output

ResponseNext ==
  \/ TextDelta \/ RefusalDelta
  \/ \E part \in {"summary_start", "summary_text", "reasoning_text"} : ThinkingDelta(part)
  \/ \E c \in Calls :
       \/ AddCall(c)
       \/ \E id \in {Ids[c].id, Ids[c].call_id, NoId} : Arguments(c, id)
  \/ \E as \in {"completed", "incomplete", "failed"} : End(as)
  \/ (Created \/ Ignored \/ EndOfFile \/ ReadError) /\ UNCHANGED <<output, status>>

ResponseSpec == ResponseInit /\ [][ResponseNext]_allVars
-----------------------------------------------------------------------------
\* How many deltas there are of these parts.
Size(parts) ==
  Cardinality(UNION {{i} \X {j \in DOMAIN output[i].parts : output[i].parts[j] \in parts} :
                       i \in DOMAIN output})

\* The newlines that join the summaries, one fewer than there are summaries.
Newlines ==
  LET summaries == Size({"summary_start"})
  IN  IF summaries = 0 THEN 0 ELSE summaries - 1

Braces == -1     \* arguments that are "{}" because there are none

ToolCalls ==
  LET calls == Only(output, {i \in ToSet(output) : i.type = "function_call"})
  IN  [i \in DOMAIN calls |->
         LET c == calls[i].call
         IN  [kind |-> "tool", call |-> c,
              id |-> First(Ids[c].call_id, Ids[c].id, <<"call_missing">>),
              size |-> IF calls[i].parts = <<>> THEN Braces ELSE Len(calls[i].parts)]]

\* The texts and refusals of all messages are joined, and so, with newlines, are
\* the summaries; what else there is of the reasoning is not looked at.
parseOutput ==
  [text |-> Size({"output_text", "refusal"}),
   thinking |-> Size({"summary_start", "summary_text"}) + Newlines,
   calls |-> ToolCalls, status |-> status]

ReasonByStatus(parsed) ==   \* mutant: the status is looked at before the calls
  IF parsed.status = "incomplete" THEN "length"
  ELSE IF parsed.calls # <<>> THEN "tool" ELSE "stop"

FinishReason(parsed) ==
  IF parsed.calls # <<>> THEN "tool"
  ELSE IF parsed.status = "incomplete" THEN "length" ELSE "stop"

chatResponse(parsed) ==
  [text |-> parsed.text, thinking |-> parsed.thinking, calls |-> parsed.calls,
   reason |-> FinishReason(parsed)]

Block(kind, size) ==
  IF size = 0 THEN <<>> ELSE <<[kind |-> kind, call |-> NoItem, id |-> NoId, size |-> size]>>

\* The input of a call is an object, the same for "{}" as for no arguments.
Inputs(calls) ==
  [i \in DOMAIN calls |-> [calls[i] EXCEPT !.size = IF @ = Braces THEN 0 ELSE @]]

TextFirst(parsed) ==        \* mutant: the text before the thinking
  Block("text", parsed.text) \o Block("thinking", parsed.thinking) \o Inputs(parsed.calls)

\* The content of an Anthropic message; an empty one gets an empty text.
Content(parsed) ==
  Block("thinking", parsed.thinking) \o Block("text", parsed.text) \o Inputs(parsed.calls)

anthropicResponse(parsed) ==
  [content |-> IF Content(parsed) = <<>>
               THEN <<[kind |-> "text", call |-> NoItem, id |-> NoId, size |-> 0]>>
               ELSE Content(parsed),
   reason |-> FinishReason(parsed)]
-----------------------------------------------------------------------------
ResponseTypeOK ==
  /\ TypeOK
  /\ \A i \in DOMAIN output :
       /\ output[i].type \in {"message", "reasoning", "function_call"}
       /\ output[i].type = "function_call" <=> output[i].call \in Calls
  /\ status = "in_progress" \/ events > 0

\* What a client puts together from the stream: an entry for each call or
\* block that was started, with the deltas sent for its index.
Deltas(kind) ==
  Cardinality({i \in DOMAIN sent : Wrote(i, {"delta", "block_delta"}) /\ sent[i].kind = kind})

Started ==
  LET starts == Only(sent, {w \in ToSet(sent) : w.name \in {"tool_start", "block_start"}})
      size(n) == Cardinality({i \in DOMAIN sent :
                                Wrote(i, {"tool_delta", "block_delta"}) /\ sent[i].index = n})
  IN  [i \in DOMAIN starts |-> [kind |-> starts[i].kind, call |-> starts[i].call,
                                id |-> starts[i].id, size |-> size(starts[i].index)]]

ToolsOf(blocks) == Only(blocks, {b \in ToSet(blocks) : b.kind = "tool"})

Streamed ==
  [text |-> Deltas("text"), thinking |-> Deltas("thinking"), calls |-> ToolsOf(Started),
   reason |-> sent[CHOOSE i \in DOMAIN sent : Wrote(i, {"finish"})].kind]

\* The response was finished upstream and relayed to its end.
Relayed == phase = "ended" /\ status # "in_progress"

\* A call that comes with one id only is known to both converters by that one;
\* of an id and a call_id the stream takes the first, the response the second.
OneId(c) == Cardinality({Ids[c].id, Ids[c].call_id} \ {NoId}) = 1

\* Two lists of calls or blocks that a client takes for the same, but for the ids
\* of calls that have two or none, and for the "{}" that stands for no arguments.
Alike(streamed, whole) ==
  /\ Len(streamed) = Len(whole)
  /\ \A i \in DOMAIN streamed :
       /\ streamed[i].kind = whole[i].kind
       /\ streamed[i].call = whole[i].call
       /\ streamed[i].size = IF whole[i].size = Braces THEN 0 ELSE whole[i].size
       /\ streamed[i].kind = "tool" /\ OneId(streamed[i].call) =>
            streamed[i].id = whole[i].id

Whole == IF format = "chat" THEN chatResponse(parseOutput) ELSE anthropicResponse(parseOutput)

WholeCalls == IF format = "chat" THEN Whole.calls ELSE ToolsOf(Whole.content)

\* What the stream carries and the response has no place for, or the other way
\* round: refusals, which only parseOutput knows, and reasoning outside a summary.
OneSided ==
  \E i \in DOMAIN output : \E p \in ToSet(output[i].parts) : p \in {"refusal", "reasoning_text"}

\* What a response object cannot show, or does not tell apart.
Regular == odd \cap {"late", "misnamed", "repeated"} = {}

\* A client gets the same answer whether it streams or not, for every regular
\* response: as much text, and as much thinking but for the newlines between
\* summaries, the same calls in the same order with their arguments, however
\* these were mixed, and the same reason to stop.
SameAnswer ==
  Relayed /\ Regular /\ ~OneSided =>
    /\ Streamed.text = parseOutput.text
    /\ Streamed.thinking + Newlines = parseOutput.thinking
    /\ Alike(Streamed.calls, WholeCalls)
    /\ Streamed.reason = Whole.reason

\* An upstream that thinks, in one summary, then talks, then calls gives an
\* Anthropic client the same blocks either way.
SameBlocks ==
  LET rank == [reasoning |-> 1, message |-> 2, function_call |-> 3]
      ordered == \A i, j \in DOMAIN output :
                   i < j => rank[output[i].type] <= rank[output[j].type]
  IN  /\ Relayed /\ Regular /\ ~OneSided
      /\ format = "anthropic" /\ ordered /\ Newlines = 0 /\ output # <<>>
      => Alike(Started, Whole.content)

\* Three ways in which the two answers differ.  As much thinking, the newlines
\* between summaries and the reasoning outside of them included:
SameThinking == Relayed /\ Regular => Streamed.thinking = parseOutput.thinking

\* As much text, refusals included:
SameRefusal == Relayed /\ Regular => Streamed.text = parseOutput.text

\* A call has the same id in both:
SameIds ==
  Relayed /\ Regular =>
    \A i \in DOMAIN Streamed.calls : Streamed.calls[i].id = WholeCalls[i].id
=============================================================================
