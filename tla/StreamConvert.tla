---------------------------- MODULE StreamConvert ---------------------------
(***************************************************************************)
(* streamConverted and streamState in internal/proxy/stream.go: the events *)
(* of a Grok Responses stream, read one line at a time, become the chunks  *)
(* of an OpenAI chat completion or the events of an Anthropic message.     *)
(*                                                                         *)
(* The upstream stream may end anywhere, by its terminal event, by a clean *)
(* end of file or by an error, and any write to the client may fail.       *)
(* Events may follow the terminal one, calls may lack ids or share one,    *)
(* and arguments may name any call or none: "odd" remembers what the       *)
(* upstream did of this, for the properties, and restricts no step.  What  *)
(* was written is kept in "sent"; text, arguments and usage are left out,  *)
(* but each argument chunk remembers the call it belongs to upstream.      *)
(***************************************************************************)
EXTENDS Integers, Sequences, FiniteSets

CONSTANTS
  Calls,         \* the upstream's function calls
  Ids,           \* the id and the call_id that each of them comes with
  NoId,          \* an id that is missing
  NoItem,        \* no call
  MaxEvents      \* bound on the events read from the upstream

ASSUME StreamAssumption ==
  /\ NoItem \notin Calls
  /\ \A c \in Calls : DOMAIN Ids[c] = {"id", "call_id"}
  /\ MaxEvents \in Nat

VARIABLES
  format,        \* what the client asked for: "chat" or "anthropic"
  state,         \* streamState
  sent,          \* everything written to the client, in order
  phase,         \* "reading", "ended" or "broken"
  item,          \* upstream: the call whose output is being streamed
  events,        \* upstream: how many events it has sent
  odd            \* history: the oddities of the upstream so far

vars == <<format, state, sent, phase, item, events, odd>>

\* Events after the terminal one; arguments of a call that is not the current
\* item; arguments that do not name their call as its item did, or come before
\* it; and an item with an id that another one has.
Oddities == {"late", "mixed", "misnamed", "repeated"}

None == -1       \* openBlock when no block is open

\* One write: its event, the block or tool index it names, the kind of a block
\* or the reason of a finish, the call whose data it carries, and the id under
\* which it announces that call.
Event(name, index, kind, call) ==
  [name |-> name, index |-> index, kind |-> kind, call |-> call, id |-> NoId]

ToolStart(name, index, call, id) ==
  [name |-> name, index |-> index, kind |-> "tool", call |-> call, id |-> id]

Role == Event("role", None, "", NoItem)
BlockStop(i) == Event("block_stop", i, "", NoItem)

Init ==
  /\ format \in {"chat", "anthropic"}
  /\ state = [started |-> format = "anthropic", finished |-> FALSE,
              hadTool |-> FALSE, openBlock |-> None, blockKind |-> "",
              nextBlock |-> 0, toolIndexes |-> <<>>]
  /\ sent = IF format = "chat" THEN <<>>
            ELSE <<Event("message_start", None, "", NoItem)>>
  /\ phase = "reading"
  /\ item = NoItem
  /\ events = 0
  /\ odd = {}
-----------------------------------------------------------------------------
\* The writes of one method, and the phase that follows.  The first write that
\* fails ends the relay.
Write(writes, after) ==
  \/ /\ sent' = sent \o writes
     /\ phase' = after
  \/ \E n \in 0 .. Len(writes) - 1 :
       /\ sent' = sent \o SubSeq(writes, 1, n)
       /\ phase' = "broken"

\* Reads one event from the upstream.
Read(current, oddities) ==
  /\ phase = "reading"
  /\ events < MaxEvents
  /\ events' = events + 1
  /\ item' = current
  /\ odd' = odd \cup oddities
  /\ UNCHANGED format

Oddity(name, holds) == IF holds THEN {name} ELSE {}

\* No writer but finish looks at "finished".
Late == Oddity("late", state.finished)

EnsureChatStart == IF state.started THEN <<>> ELSE <<Role>>

CloseBlock ==
  IF state.openBlock = None THEN <<>> ELSE <<BlockStop(state.openBlock)>>

\* response.created or response.in_progress.
Created ==
  /\ Read(item, {})
  /\ Write(IF format = "chat" THEN EnsureChatStart ELSE <<>>, "reading")
  /\ state' = [state EXCEPT !.started = TRUE]

ChatDelta(kind) ==
  /\ format = "chat"
  /\ Read(NoItem, Late)
  /\ Write(Append(EnsureChatStart, Event("delta", None, kind, NoItem)), "reading")
  /\ state' = [state EXCEPT !.started = TRUE]

DeltaReusesBlock(kind) ==    \* mutant: any open block will do
  /\ format = "anthropic"
  /\ Read(NoItem, Late)
  /\ IF state.openBlock # None
     THEN /\ Write(<<Event("block_delta", state.openBlock, kind, NoItem)>>, "reading")
          /\ UNCHANGED state
     ELSE LET i == state.nextBlock
          IN  /\ Write(CloseBlock \o <<Event("block_start", i, kind, NoItem),
                                       Event("block_delta", i, kind, NoItem)>>, "reading")
              /\ state' = [state EXCEPT !.openBlock = i, !.blockKind = kind,
                                        !.nextBlock = i + 1]

\* A text or thinking delta: in the open block if it is of that kind, or in a
\* new block once the open one is closed.
AnthropicDelta(kind) ==
  /\ format = "anthropic"
  /\ Read(NoItem, Late)
  /\ IF state.openBlock # None /\ state.blockKind = kind
     THEN /\ Write(<<Event("block_delta", state.openBlock, kind, NoItem)>>, "reading")
          /\ UNCHANGED state
     ELSE LET i == state.nextBlock
          IN  /\ Write(CloseBlock \o <<Event("block_start", i, kind, NoItem),
                                       Event("block_delta", i, kind, NoItem)>>, "reading")
              /\ state' = [state EXCEPT !.openBlock = i, !.blockKind = kind,
                                        !.nextBlock = i + 1]

\* Write k announced call c to the client.
Announces(k, c) ==
  sent[k].name \in {"tool_start", "block_start"} /\ sent[k].call = c

First(x, y, z) == IF x # NoId THEN x ELSE IF y # NoId THEN y ELSE z

\* The id for a call: "call_%d" takes the number of the next block.
ToolId(c) == First(Ids[c].id, Ids[c].call_id, <<"call", state.nextBlock>>)

\* response.output_item.added with a function call, once for each call.
NewCall(c) ==
  /\ \A k \in DOMAIN sent : ~Announces(k, c)
  /\ Read(c, Late \cup Oddity("repeated", ToolId(c) \in DOMAIN state.toolIndexes))

WithTool(id, i) ==
  [state EXCEPT !.hadTool = TRUE,
                !.toolIndexes = [d \in DOMAIN @ \cup {id} |-> IF d = id THEN i ELSE @[d]]]

ChatStartTool(c) ==
  LET i == Cardinality(DOMAIN state.toolIndexes)
  IN  /\ format = "chat"
      /\ NewCall(c)
      /\ Write(Append(EnsureChatStart, ToolStart("tool_start", i, c, ToolId(c))), "reading")
      /\ state' = [WithTool(ToolId(c), i) EXCEPT !.started = TRUE]

StartToolInPlace(c) ==       \* mutant: nextBlock is not advanced
  LET i == state.nextBlock
  IN  /\ format = "anthropic"
      /\ NewCall(c)
      /\ Write(Append(CloseBlock, ToolStart("block_start", i, c, ToolId(c))), "reading")
      /\ state' = [WithTool(ToolId(c), i) EXCEPT !.openBlock = i, !.blockKind = "tool"]

AnthropicStartTool(c) ==
  LET i == state.nextBlock
  IN  /\ format = "anthropic"
      /\ NewCall(c)
      /\ Write(Append(CloseBlock, ToolStart("block_start", i, c, ToolId(c))), "reading")
      /\ state' = [WithTool(ToolId(c), i) EXCEPT !.openBlock = i, !.blockKind = "tool",
                                                 !.nextBlock = i + 1]

\* A map of Go: an id it does not have gives 0.
ToolIndex(id) ==
  IF id \in DOMAIN state.toolIndexes THEN state.toolIndexes[id] ELSE 0

ToolEvent(index, c) ==
  Event(IF format = "chat" THEN "tool_delta" ELSE "block_delta", index, "tool", c)

SendArguments(c, id, index) ==
  /\ Read(item, Late \cup Oddity("mixed", c # item)
                \cup Oddity("misnamed", \A k \in DOMAIN sent : Announces(k, c) => sent[k].id # id))
  /\ Write(<<ToolEvent(index, c)>>, "reading")
  /\ UNCHANGED state

ToolDeltaOfLast(c, id) ==    \* mutant: the index of the last block, not c's
  SendArguments(c, id, state.nextBlock)

\* response.function_call_arguments.delta: arguments of c, under its id, or its
\* call_id alone, or neither.
ToolDelta(c, id) == SendArguments(c, id, ToolIndex(id))

\* Events consume does not know, lines that are not data, malformed JSON and
\* empty deltas.
Ignored ==
  /\ Read(item, {})
  /\ UNCHANGED <<state, sent, phase>>
-----------------------------------------------------------------------------
Reason(incomplete) ==
  IF state.hadTool THEN "tool" ELSE IF incomplete THEN "length" ELSE "stop"

ChatFinish(incomplete) ==
  EnsureChatStart \o <<Event("finish", None, Reason(incomplete), NoItem),
                       Event("end", None, "", NoItem)>>

AnthropicFinish(incomplete) ==
  CloseBlock \o <<Event("finish", None, Reason(incomplete), NoItem),
                  Event("end", None, "", NoItem)>>

FinishAgain(incomplete, after) ==  \* mutant: finished is not looked at
  /\ Write(IF format = "chat" THEN ChatFinish(incomplete)
           ELSE AnthropicFinish(incomplete), after)
  /\ state' = [state EXCEPT !.finished = TRUE, !.started = TRUE,
                            !.openBlock = None, !.blockKind = ""]

Finish(incomplete, after) ==
  IF state.finished
  THEN phase' = after /\ UNCHANGED <<state, sent>>
  ELSE /\ Write(IF format = "chat" THEN ChatFinish(incomplete)
                ELSE AnthropicFinish(incomplete), after)
       /\ state' = [state EXCEPT !.finished = TRUE, !.started = TRUE,
                                 !.openBlock = None, !.blockKind = ""]

\* response.completed and response.failed, or response.incomplete.
Terminal(incomplete) ==
  /\ Read(NoItem, {})
  /\ Finish(incomplete, "reading")

\* The upstream closes the stream: finish is called, perhaps once more.
EndOfFile ==
  /\ phase = "reading"
  /\ Finish(FALSE, "ended")
  /\ UNCHANGED <<format, item, events, odd>>

\* The connection breaks, the client's timeout ends it, or a line is longer
\* than the scanner's buffer.
ReadError ==
  /\ phase = "reading"
  /\ phase' = "broken"
  /\ UNCHANGED <<format, state, sent, item, events, odd>>

Next ==
  \/ Created \/ Ignored \/ EndOfFile \/ ReadError
  \/ \E kind \in {"text", "thinking"} : ChatDelta(kind) \/ AnthropicDelta(kind)
  \/ \E c \in Calls :
       \/ ChatStartTool(c) \/ AnthropicStartTool(c)
       \/ \E id \in {Ids[c].id, Ids[c].call_id, NoId} : ToolDelta(c, id)
  \/ \E incomplete \in BOOLEAN : Terminal(incomplete)

Spec == Init /\ [][Next]_vars
-----------------------------------------------------------------------------
Names == {"role", "delta", "tool_start", "tool_delta", "message_start",
          "block_start", "block_delta", "block_stop", "finish", "end"}

TypeOK ==
  /\ format \in {"chat", "anthropic"}
  /\ state.started \in BOOLEAN /\ state.finished \in BOOLEAN /\ state.hadTool \in BOOLEAN
  /\ state.nextBlock \in Nat
  /\ state.openBlock \in {None} \cup 0 .. state.nextBlock - 1
  /\ state.blockKind \in {"", "text", "thinking", "tool"}
  /\ state.blockKind = "" <=> state.openBlock = None
  /\ \A id \in DOMAIN state.toolIndexes : state.toolIndexes[id] \in Nat
  /\ \A i \in DOMAIN sent : sent[i].name \in Names
  /\ phase \in {"reading", "ended", "broken"}
  /\ item \in Calls \cup {NoItem}
  /\ events \in 0 .. MaxEvents
  /\ odd \subseteq Oddities

Wrote(i, names) == sent[i].name \in names

\* The block that is open when write i is made, as the client sees it.
OpenFor(i) ==
  LET bounds == {k \in 1 .. i - 1 : Wrote(k, {"block_start", "block_stop"})}
  IN  IF bounds = {} THEN None
      ELSE LET last == CHOOSE k \in bounds : \A m \in bounds : m <= k
           IN  IF Wrote(last, {"block_start"}) THEN last ELSE None

\* The Anthropic events form content blocks: numbered 0, 1, ..., one open at a
\* time, each delta in the open block and of its kind, every block closed before
\* the message is finished.
BlocksFormed ==
  \A i \in DOMAIN sent :
    LET b == OpenFor(i)
    IN  /\ Wrote(i, {"block_delta", "block_stop"}) =>
             b # None /\ sent[b].index = sent[i].index
        /\ Wrote(i, {"block_delta"}) => sent[b].kind = sent[i].kind
        /\ Wrote(i, {"block_start", "finish", "end"}) => b = None
        /\ Wrote(i, {"block_start"}) =>
             sent[i].index = Cardinality({k \in 1 .. i - 1 : Wrote(k, {"block_start"})})

\* A client gets well formed blocks unless the upstream sends arguments of a
\* call that is not the current one, or that it does not name: also when the
\* stream is cut, when ids are repeated, and after the terminal event.
BlocksWellFormed == odd \cap {"mixed", "misnamed"} = {} => BlocksFormed

\* Arguments that name their call as its item did are enough for that.  They are
\* not: arguments of an earlier call go into its block, which is closed.
FormedIfNamed == "misnamed" \notin odd => BlocksFormed

\* Arguments of a call are sent under the index its own start announced, and
\* under no other call's.
ArgumentsSeparate ==
  \A i \in DOMAIN sent :
    Wrote(i, {"tool_delta", "block_delta"}) /\ sent[i].call # NoItem =>
      \E k \in 1 .. i - 1 :
        /\ Wrote(k, {"tool_start", "block_start"})
        /\ sent[k].call = sent[i].call /\ sent[k].index = sent[i].index
        /\ \A m \in DOMAIN sent :
             Wrote(m, {"tool_start", "block_start"}) /\ sent[m].index = sent[i].index
               => m = k

\* A client never joins the arguments of two calls, in whatever order and how
\* late they come, as long as no two calls have one id and the arguments name
\* their call as its item did.
ArgumentsReachTheirCall ==
  odd \cap {"misnamed", "repeated"} = {} => ArgumentsSeparate

\* It takes only arguments that name their call as its item did.  It does not: of
\* two calls with one id, the first gets the index of the second.
SeparateIfNamed == "misnamed" \notin odd => ArgumentsSeparate

\* After the end of a stream nothing is written.  It is: what the upstream sends
\* after its terminal event.
NothingAfterEnd == \A i \in DOMAIN sent : Wrote(i, {"end"}) => i = Len(sent)

\* Whatever the upstream does, a stream that is not cut is finished once, its
\* end follows at once, and it says it stopped for a tool exactly when it had
\* announced one.  It is opened once and first, unless arguments come before
\* their call; nothing follows the end but what the upstream sends after its own.
FinishedOnce ==
  LET last == Len(sent)
  IN  /\ \A i, j \in DOMAIN sent : Wrote(i, {"finish"}) /\ Wrote(j, {"finish"}) => i = j
      /\ \A i \in DOMAIN sent : Wrote(i, {"end"}) => i > 1 /\ Wrote(i - 1, {"finish"})
      /\ \A i \in DOMAIN sent : Wrote(i, {"finish"}) =>
           /\ i < last => Wrote(i + 1, {"end"})
           /\ sent[i].kind = "tool" <=>
                \E k \in 1 .. i - 1 : Wrote(k, {"tool_start", "block_start"})
                                       /\ sent[k].kind = "tool"
      /\ phase = "ended" => \E i \in DOMAIN sent : Wrote(i, {"end"})
      /\ "misnamed" \notin odd =>
           \A i \in DOMAIN sent : Wrote(i, {"role", "message_start"}) <=> i = 1
      /\ "late" \notin odd => NothingAfterEnd
=============================================================================
