--------------------------- MODULE DecodeComplete ---------------------------
(***************************************************************************)
(* A vendor's whole (not streamed) answer becomes IR events:               *)
(* stream/complete.rs decode_response, stream/converse.rs decode_complete  *)
(* and, for Gemini, the fan-out of one chunk (stream/mod.rs).              *)
(*                                                                         *)
(* A payload is a number, the position of the block in the answer.         *)
(***************************************************************************)
EXTENDS Naturals, Sequences, FiniteSets, SequencesExt

CONSTANTS U32Max      \* the largest token count

\* A block of the answer.  k is its kind: text, think (reasoning), sig (its
\* signature), image, odd (an image of a format Converse does not have), audio,
\* transcript, note (a citation), refusal, call, custom, own (a block only its
\* wire knows), shell (a type with nothing in it).  A call has an id, perhaps
\* empty; the index a Chat body gives it; and its arguments: "json", "none", or
\* "bad", a string that is not JSON.
Block(k, n, id, ix, args) == [k |-> k, n |-> n, id |-> id, ix |-> ix, args |-> args]
Calls == {"call", "custom"}
Images == {"image", "odd"}
Only(blocks, kinds) == SelectSeq(blocks, LAMBDA b : b.k \in kinds)
Without(blocks, kinds) == SelectSeq(blocks, LAMBDA b : b.k \notin kinds)

\* An IR event, as in StreamEvents, without the fields a whole answer leaves out.
Ev(k, i, n, id, args) == [k |-> k, i |-> i, n |-> n, id |-> id, args |-> args]

\* complete_chat_tool_call and its counterparts: start, arguments if any, end.
CallEvents(b, i, id) ==
  <<Ev(IF b.k = "custom" THEN "cstart" ELSE "start", i, b.n, id, "")>>
  \o (IF b.args = "none" THEN <<>> ELSE <<Ev("args", i, b.n, "", b.args)>>)
  \o <<Ev("end", 0, b.n, "", "")>>
BlockEvents(b, i, id) ==
  CASE b.k \in Calls -> CallEvents(b, i, id)
    [] b.k = "shell" -> <<>>
    [] OTHER -> <<Ev(b.k, 0, b.n, "", "")>>

\* The blocks in the order the decoder walks them; a call takes the next index.
InOrder(blocks, Id(_, _)) ==
  FlattenSeq([j \in DOMAIN blocks |->
    LET i == Len(Only(SubSeq(blocks, 1, j - 1), Calls)) IN
    BlockEvents(blocks[j], i, Id(blocks[j], i))])
OwnId(b, i) == b.id

-----------------------------------------------------------------------------
(* Is there anything in the answer for a caller to see?  If not, an error  *)
(* beside it refuses the body; a failed Responses turn may be refused with  *)
(* visible output too.                                                     *)

\* choice_visible and audio_visible.
ChatVisible == {"text", "refusal", "think", "audio", "transcript"} \cup Images \cup Calls
\* messages_content_visible: what decode_messages_complete has decoded so far.
MessagesVisible == {"text", "note", "think", "sig", "own", "call"} \cup Images
\* responses_has_visible_output.
ResponsesVisible == {"text", "refusal", "audio", "transcript", "think", "own"} \cup Images \cup Calls
\* candidate_visible.
GeminiVisible == {"text", "think", "audio", "own", "refusal", "call"} \cup Images
\* converse_block_visible; a stop reason is enough.
ConverseVisible == {"text", "think", "sig", "note", "audio", "own", "call"} \cup Images

VisibleKinds(w) ==
  CASE w = "chat" -> ChatVisible
    [] w = "messages" -> MessagesVisible
    [] w = "responses" -> ResponsesVisible
    [] w = "gemini" -> GeminiVisible
    [] OTHER -> ConverseVisible
\* json_has_completion.
HasCompletion(w, a) ==
  \/ \E j \in DOMAIN a.blocks : a.blocks[j].k \in VisibleKinds(w)
  \/ w = "converse" /\ a.finish # ""
\* plain_error_detail, responses_surface_error, gemini_error_detail and
\* complete_exception_detail: the decoder refuses the body.
BareError(w, a) == a.error /\ ~HasCompletion(w, a)
\* response.failed: text, calls, audio and reasoning summaries are not kept by the
\* terminal walk (responses_terminal_keeps_output), so with a failure_detail beside
\* them, and no item that is replayed as it is, the detail becomes the error.
FailedTurn(w, a) ==
  w = "responses" /\ a.finish = "failed" /\ a.error /\ Only(a.blocks, {"own"}) = <<>>
Refused(w, a) == BareError(w, a) \/ FailedTurn(w, a)

-----------------------------------------------------------------------------
(* The decoders.                                                           *)

\* decode_chat_complete reads the message's fields in its own order; a call has
\* the index the body gives it, 0 if none.
ChatBlocks(blocks) ==
  Only(blocks, {"think"}) \o Only(blocks, {"sig"}) \o Only(blocks, {"text"} \cup Images)
  \o Only(blocks, {"refusal"}) \o Only(blocks, {"note"}) \o Only(blocks, {"audio"})
  \o Only(blocks, {"transcript"}) \o Only(blocks, Calls)
DecodeChatComplete(blocks) ==
  LET bs == ChatBlocks(blocks) IN
  FlattenSeq([j \in DOMAIN bs |-> BlockEvents(bs[j], bs[j].ix, bs[j].id)])

\* decode_messages_complete: blocks in order, the refusal of stop_details last.
DecodeMessagesComplete(blocks) ==
  InOrder(Without(blocks, {"refusal"}) \o Only(blocks, {"refusal"}), OwnId)

\* complete_responses_output_events; replayed items come before them
\* (decode_terminal_events, then the splice of decode_responses_complete).
ResponsesOutputEvents(blocks) == InOrder(Without(blocks, {"own"}), OwnId)
DecodeResponsesComplete(blocks) ==
  InOrder(Only(blocks, {"own"}), OwnId) \o ResponsesOutputEvents(blocks)

\* gemini_call_id: a call without an id is named after its place.
GeminiCallId(b, i) == IF b.id = "" THEN <<"f#0", "f#1", "f#2">>[i + 1] ELSE b.id
\* gemini_part_events, then what fan_out_gemini_parts finds beside the parts.
GeminiPartEvents(blocks) == InOrder(Without(blocks, {"note", "refusal"}), GeminiCallId)
DecodeGeminiComplete(blocks) ==
  GeminiPartEvents(blocks) \o InOrder(Only(blocks, {"note"}) \o Only(blocks, {"refusal"}), OwnId)

\* decode_complete: everything in the order of the blocks.
DecodeConverseComplete(blocks) == InOrder(blocks, OwnId)

-----------------------------------------------------------------------------
(* Why the answer ended, in the vendor's words and in the IR's.            *)

VendorFinishes(w) ==
  CASE w = "chat" -> {"", "stop", "length", "tool_calls", "content_filter"}
    [] w = "messages" -> {"", "end_turn", "max_tokens", "tool_use", "refusal", "stop_sequence"}
    [] w = "responses" -> {"completed", "max_output_tokens", "content_filter", "failed"}
    [] w = "gemini" -> {"", "STOP", "MAX_TOKENS", "SAFETY", "blocked"}
    [] OTHER -> {"end_turn", "max_tokens", "tool_use", "content_filtered"}

\* chat.rs map_finish, messages.rs map_stop_reason, responses.rs
\* terminal_finish_reason, gemini.rs map_finish and map_block; Converse keeps
\* the vendor's word.
FinishFrom(w, r, hasCall) ==
  CASE w = "messages" /\ r = "end_turn" -> "stop"
    [] w = "messages" /\ r = "tool_use" -> "tool_calls"
    [] w = "messages" /\ r = "refusal" -> "content_filter"
    [] w = "responses" /\ r = "completed" -> "stop"
    [] w = "responses" /\ r = "max_output_tokens" -> "length"
    [] w = "gemini" /\ r = "STOP" -> IF hasCall THEN "tool_calls" ELSE "stop"
    [] w = "gemini" /\ r = "MAX_TOKENS" -> "max_tokens"
    [] w = "gemini" /\ r \in {"SAFETY", "blocked"} -> "content_filter"
    [] OTHER -> r

-----------------------------------------------------------------------------
(* Token counts (stream/usage.rs).  Chat, Responses and Gemini count       *)
(* cached tokens in the prompt, Messages and Converse beside it; all but   *)
(* Gemini count reasoning in the output.                                   *)

Sub(a, b) == IF a > b THEN a - b ELSE 0
Add(a, b) == IF a + b > U32Max THEN U32Max ELSE a + b

\* A vendor's counts: in, out, read (from the cache), write, think, audio.
Counts(in, out, read, write, think, audio) ==
  [in |-> in, out |-> out, read |-> read, write |-> write, think |-> think, audio |-> audio]

FromChat(u) == [u EXCEPT !.in = Sub(u.in, u.read), !.out = Sub(u.out, u.think)]
FromAnthropic(u) == [u EXCEPT !.out = Sub(u.out, u.think), !.audio = 0]
FromResponses(u) == [FromChat(u) EXCEPT !.audio = 0]
FromGemini(u) == [u EXCEPT !.in = Sub(u.in, u.read), !.write = 0]
FromConverse(u) == [u EXCEPT !.think = 0, !.audio = 0]
UsageFrom(w, u) ==
  CASE w = "chat" -> FromChat(u)
    [] w = "messages" -> FromAnthropic(u)
    [] w = "responses" -> FromResponses(u)
    [] w = "gemini" -> FromGemini(u)
    [] OTHER -> FromConverse(u)

\* decode_response_value.
Decode(w, blocks) ==
  CASE w = "chat" -> DecodeChatComplete(blocks)
    [] w = "messages" -> DecodeMessagesComplete(blocks)
    [] w = "responses" -> DecodeResponsesComplete(blocks)
    [] w = "gemini" -> DecodeGeminiComplete(blocks)
    [] OTHER -> DecodeConverseComplete(blocks)
=============================================================================
