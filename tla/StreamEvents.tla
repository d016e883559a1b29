---------------------------- MODULE StreamEvents ----------------------------
(***************************************************************************)
(* The IR events a stream decoder hands to the tool-call assembler and the *)
(* encoder (ir/mod.rs IrStreamEvent), and the wires they come from.        *)
(*                                                                         *)
(* A payload (text, an argument fragment, image bytes) is the position of  *)
(* its event in the upstream stream, so no two payloads are equal and the  *)
(* order of arrival is the order of the numbers.                           *)
(***************************************************************************)
EXTENDS Naturals, Sequences, FiniteSets

CONSTANTS Wires,      \* the dialects in play
          MaxIndex,   \* bound: tool calls per stream (upstream indexes 0..MaxIndex-1)
          Reasons     \* finish reasons, in the IR's vocabulary

AllWires == {"chat", "messages", "responses", "gemini", "converse"}

ASSUME WiresAssumption == Wires \subseteq AllWires
ASSUME MaxIndexAssumption == MaxIndex \in Nat \ {0}

Index == 0..(MaxIndex - 1)

\* The id the vendor gives the call at an index; "" is an absent string.
CallId == [i \in Index |-> <<"a", "b", "c", "d">>[i + 1]]
NoId == ""

\* Content, tool and bookkeeping events.  Protocol events are not among them:
\* they carry detail of their own wire and event_has_slot drops them here.
Content == {"text", "reasoning", "signature", "refusal", "image", "audio",
            "transcript", "annotation", "logprobs"}
Starts == {"start", "cstart"}          \* ToolCallStart, CustomToolCallStart
Fragments == {"args", "cargs"}         \* ToolCallArgDelta, CustomToolCallInputDelta
Notes == {"usage", "tier", "created", "metadata", "moderation",
          "stopseq", "container", "context", "diagnostics", "unknown"}
Kinds == Content \cup Starts \cup Fragments \cup Notes \cup {"end", "finish", "done"}

\* k kind, i upstream tool index, n payload, id call id ("" until it is sent),
\* name whether the name is present, r finish reason.
Event(k, i, n, id, name, r) ==
  [k |-> k, i |-> i, n |-> n, id |-> id, name |-> name, r |-> r]
Plain(k, n) == Event(k, 0, n, NoId, FALSE, "")
StartEv(k, i, n, id, name) == Event(k, i, n, id, name, "")
ArgsEv(k, i, n) == Event(k, i, n, NoId, FALSE, "")
FinishEv(r, n) == Event("finish", 0, n, NoId, FALSE, r)

-----------------------------------------------------------------------------
(* What each decoder can produce.                                          *)

\* Kinds of event each decoder emits.  "[DONE]" decodes on every wire, but only
\* three of the vendors end a stream with it or its like.
Everywhere == {"text", "reasoning", "signature", "image", "annotation",
               "start", "args", "usage", "tier", "unknown", "finish"}
OpenAI == {"refusal", "audio", "transcript", "logprobs", "cstart", "cargs",
           "created", "metadata", "moderation", "done"}
ChatDecodes == Everywhere \cup OpenAI
MessagesDecodes ==
  Everywhere \cup {"refusal", "stopseq", "container", "context", "diagnostics", "done"}
ResponsesDecodes == Everywhere \cup OpenAI \cup {"end"}
GeminiDecodes == Everywhere \cup {"refusal", "audio", "logprobs"}
ConverseDecodes == Everywhere \cup {"audio"}

\* decode_stream_events: dispatch on the upstream's wire.
Decodes(wire) ==
  CASE wire = "chat" -> ChatDecodes
    [] wire = "messages" -> MessagesDecodes
    [] wire = "responses" -> ResponsesDecodes
    [] wire = "gemini" -> GeminiDecodes
    [] OTHER -> ConverseDecodes

\* frame_is_terminal: the frame these events come from ends the answer.
IsTerminal(e) == e.k \in {"finish", "done"}

\* event_has_slot: an Unknown event only exists on two client wires.
HasSlot(wire, e) == e.k # "unknown" \/ wire \in {"messages", "responses"}
=============================================================================
