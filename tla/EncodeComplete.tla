--------------------------- MODULE EncodeComplete ---------------------------
(***************************************************************************)
(* IR events become a client's whole answer: stream/complete.rs            *)
(* encode_response and stream/converse.rs encode_complete.  Each encoder   *)
(* walks the events once, filling accumulators, and then builds the body.  *)
(***************************************************************************)
EXTENDS DecodeComplete

\* The locals of the encoders: text not yet in a part, the parts (images in the
\* code), open_tools by index, done_tools, the fields beside the content by
\* kind of event, finish, usage, and whether encoding failed.
Acc0 == [text |-> <<>>, parts |-> <<>>, open |-> <<>>, done |-> <<>>,
         side |-> {}, finish |-> "", usage |-> <<>>, failed |-> FALSE]

Part(k, ns) == [k |-> k, ns |-> ns]
Flush(acc) ==
  IF acc.text = <<>> THEN acc
  ELSE [acc EXCEPT !.parts = Append(@, Part("text", acc.text)), !.text = <<>>]

-----------------------------------------------------------------------------
(* Calls are kept by index until the events end.                           *)

Blank == [id |-> "", args |-> <<>>, custom |-> FALSE]
Slot(acc, i) == IF i \in DOMAIN acc.open THEN acc.open[i] ELSE Blank
WithSlot(acc, i, tool) ==
  [acc EXCEPT !.open = [j \in DOMAIN acc.open \cup {i} |-> IF j = i THEN tool ELSE acc.open[j]]]

\* indexed_tool_start and note_converse_tool: another id on the index commits
\* the call that was there.
MutIndexedStart(acc, i, id, custom) ==
  LET old == Slot(acc, i) IN
  WithSlot(acc, i, [old EXCEPT !.id = IF @ = "" THEN id ELSE @, !.custom = custom])
IndexedStart(acc, i, id, custom) ==
  LET old == Slot(acc, i)
      taken == old.id # "" /\ id # "" /\ old.id # id
      slot == IF taken THEN Blank ELSE old IN
  WithSlot(IF taken THEN [acc EXCEPT !.done = Append(@, old)] ELSE acc,
           i, [slot EXCEPT !.id = IF @ = "" THEN id ELSE @, !.custom = custom])
\* indexed_tool_delta.
IndexedDelta(acc, i, e) ==
  WithSlot(acc, i, [Slot(acc, i) EXCEPT !.args = Append(@, [n |-> e.n, args |-> e.args])])
\* indexed_tool_finish: the committed calls, then the open ones by index.
IndexedFinish(acc) ==
  LET keys == SetToSortSeq(DOMAIN acc.open, <) IN
  acc.done \o [j \in DOMAIN keys |-> acc.open[keys[j]]]

-----------------------------------------------------------------------------
(* One event: what it does is told by the kinds that are text, that are    *)
(* parts, and that have a field of their own.  The rest has no slot.       *)

Feed(acc, e, texts, parts, sides) ==
  CASE e.k \in texts -> [acc EXCEPT !.text = Append(@, e.n)]
    [] e.k \in parts -> [Flush(acc) EXCEPT !.parts = Append(@, Part(e.k, <<e.n>>))]
    [] e.k \in sides /\ e.k = "sig" ->      \* one reasoning_signature: the last
         [acc EXCEPT !.side = {s \in @ : s[1] # "sig"} \cup {<<"sig", e.n>>}]
    [] e.k \in sides -> [acc EXCEPT !.side = @ \cup {<<e.k, e.n>>}]
    [] e.k \in {"start", "cstart"} -> IndexedStart(acc, e.i, e.id, e.k = "cstart")
    [] e.k = "args" -> IndexedDelta(acc, e.i, e)
    [] e.k = "usage" -> [acc EXCEPT !.usage = <<e.args>>]
    [] OTHER -> acc

\* chat.rs encode_finish and finish_after_tool.
ChatFinish(r, sawTool) ==
  CASE sawTool /\ r \in {"", "stop", "end_turn"} -> "tool_calls"
    [] r \in {"max_tokens"} -> "length"
    [] r \in {"failed", "end_turn", "stop_sequence"} -> "stop"
    [] OTHER -> r
\* messages.rs encode_stop_reason.
MessagesFinish(r) ==
  CASE r \in {"stop", "end_turn"} -> "end_turn"
    [] r \in {"length", "max_tokens"} -> "max_tokens"
    [] r \in {"tool_calls", "tool_use"} -> "tool_use"
    [] OTHER -> r
\* gemini.rs encode_finish.
GeminiFinish(r) ==
  CASE r \in {"length", "max_tokens"} -> "MAX_TOKENS"
    [] r = "content_filter" -> "SAFETY"
    [] r = "" -> ""
    [] OTHER -> "STOP"
\* responses_complete_status.
ResponsesFinish(r) ==
  CASE r = "failed" -> "failed"
    [] r \in {"length", "max_tokens", "content_filter"} -> "incomplete"
    [] OTHER -> "completed"
\* converse.rs finish_reason.
ConverseFinish(r, named) ==
  LET stop == CASE r \in {"tool_use", "tool_calls"} -> "tool_use"
                [] r \in {"max_tokens", "length"} -> "max_tokens"
                [] r \in {"content_filtered", "content_filter"} -> "content_filtered"
                [] r = "stop_sequence" -> "stop_sequence"
                [] OTHER -> "end_turn" IN
  IF named /\ stop = "end_turn" THEN "tool_use" ELSE stop

\* The events each encoder reads, one arm of its match after the other.
FeedChat(acc, e) ==
  IF e.k = "finish" THEN [acc EXCEPT !.finish = e.id]
  ELSE Feed(acc, e, {"text"}, Images, {"refusal", "think", "sig", "note", "audio", "transcript"})
FeedMessages(acc, e) ==
  IF e.k = "finish" THEN [acc EXCEPT !.finish = MessagesFinish(e.id)]
  ELSE Feed(acc, e, {"text", "transcript"}, Images, {"refusal", "think", "sig", "note"})
FeedGemini(acc, e) ==
  IF e.k = "finish" THEN [acc EXCEPT !.finish = GeminiFinish(e.id)]
  ELSE Feed(acc, e, {"text", "transcript"}, Images \cup {"audio"},
            {"refusal", "think", "sig", "note"})
FeedResponses(acc, e) ==
  IF e.k = "finish" THEN [acc EXCEPT !.finish = e.id]
  ELSE Feed(acc, e, {"text"}, Images, {"refusal", "think", "sig", "note", "audio", "transcript"})
\* Converse has no field for a refusal, flushes the text at a call, and fails on
\* an image it has no format for.
FeedConverse(acc, e) ==
  CASE e.k = "finish" -> [acc EXCEPT !.finish = e.id]
    [] e.k = "odd" -> [acc EXCEPT !.failed = TRUE]
    [] OTHER -> Feed(IF e.k \in {"start", "cstart"} THEN Flush(acc) ELSE acc, e,
                     {"text", "transcript", "refusal"}, {"image"}, {"think", "sig", "note", "audio"})
FeedTo(w, acc, e) ==
  CASE w = "chat" -> FeedChat(acc, e)
    [] w = "messages" -> FeedMessages(acc, e)
    [] w = "gemini" -> FeedGemini(acc, e)
    [] w = "responses" -> FeedResponses(acc, e)
    [] OTHER -> FeedConverse(acc, e)

-----------------------------------------------------------------------------
(* The body.                                                               *)

\* What the arguments of a call become: chat_tool_call_value and
\* responses_tool_call_value keep the string, messages_tool_use_value and
\* gemini_function_call_value parse it or send {}, Converse's tool_use parses it
\* or sends the string.
Parsed(tool) ==
  IF tool.custom THEN tool.args
  ELSE SelectSeq(tool.args, LAMBDA a : a.args # "bad")
OutCall(tool, args) == [id |-> tool.id, args |-> args, custom |-> tool.custom]
RawCalls(tools) == [j \in DOMAIN tools |-> OutCall(tools[j], tools[j].args)]
ParsedCalls(tools) == [j \in DOMAIN tools |-> OutCall(tools[j], Parsed(tools[j]))]

EncodeChatUsage(u) == [u EXCEPT !.in = Add(u.in, u.read), !.out = Add(u.out, u.think)]
EncodeAnthropicUsage(u) == [u EXCEPT !.out = Add(u.out, u.think), !.audio = 0]
EncodeResponsesUsage(u) == [EncodeChatUsage(u) EXCEPT !.audio = 0]
EncodeGeminiUsage(u) == [u EXCEPT !.in = Add(u.in, u.read), !.write = 0]
EncodeConverseUsage(u) == [u EXCEPT !.think = 0, !.audio = 0]

Body(content, calls, side, finish, usage) ==
  [content |-> content, calls |-> calls, side |-> side, finish |-> finish, usage |-> usage]
Mapped(usage, Enc(_)) == [j \in DOMAIN usage |-> Enc(usage[j])]

BodyChat(acc) ==
  LET tools == IndexedFinish(acc) IN
  Body(Flush(acc).parts, RawCalls(tools), acc.side,
       ChatFinish(acc.finish, tools # <<>>), Mapped(acc.usage, EncodeChatUsage))
BodyMessages(acc) ==
  LET refusal == \E s \in acc.side : s[1] = "refusal" IN
  Body(Flush(acc).parts, ParsedCalls(IndexedFinish(acc)), acc.side,
       IF refusal /\ acc.finish \in {"", "content_filter"} THEN "refusal" ELSE acc.finish,
       Mapped(acc.usage, EncodeAnthropicUsage))
BodyGemini(acc) ==
  Body(Flush(acc).parts, ParsedCalls(IndexedFinish(acc)), acc.side, acc.finish,
       Mapped(acc.usage, EncodeGeminiUsage))
BodyResponses(acc) ==
  Body(Flush(acc).parts, RawCalls(IndexedFinish(acc)), acc.side,
       ResponsesFinish(acc.finish), Mapped(acc.usage, EncodeResponsesUsage))
BodyConverse(acc) ==
  LET tools == IndexedFinish(acc) IN
  Body(Flush(acc).parts, RawCalls(tools), acc.side,
       ConverseFinish(acc.finish, tools # <<>>), Mapped(acc.usage, EncodeConverseUsage))
BodyOf(w, acc) ==
  CASE w = "chat" -> BodyChat(acc)
    [] w = "messages" -> BodyMessages(acc)
    [] w = "gemini" -> BodyGemini(acc)
    [] w = "responses" -> BodyResponses(acc)
    [] OTHER -> BodyConverse(acc)
=============================================================================
