--------------------------- MODULE EncodeConverse ---------------------------
(***************************************************************************)
(* The Converse client's encoder: content blocks with explicit stops; text *)
(* and reasoning blocks have no start frame.                               *)
(***************************************************************************)
EXTENDS EncoderState

InConverseText == {"text", "transcript", "annotation"}
ConverseIgnored == {"logprobs", "created", "tier", "metadata", "moderation"}

\* close_converse: buffered custom input, then the stop.
CloseConverse(s) ==
  IF s.open = NoBlock THEN s
  ELSE LET b == s.open.b
           c == [s EXCEPT !.open = NoBlock, !.custom = Del(@, b)] IN
       Emit(EmitSome(c, "delta", b, CustomOf(s, b)), "stop", b, <<>>)

EnsureConverseBlock(s, kind) ==
  IF s.open.k = kind THEN s
  ELSE LET c == CloseConverse(s) IN
       [c EXCEPT !.nextBlock = @ + 1, !.open = [b |-> c.nextBlock, k |-> kind]]

ConverseContent(s, e) ==
  LET t == EnsureConverseBlock(s, IF e.k \in InConverseText THEN "text" ELSE "thinking") IN
  Emit(t, IF e.k \in {"signature", "annotation"} THEN "note" ELSE "delta",
       t.open.b, <<e.n>>)

\* A call that arrives while another is open waits for the end of the stream.
ConverseToolStart(s, e) ==
  LET a == AllocTool(s, e.i)
      enc == a.last[e.i]
      t == NoteCustom(a, enc, e) IN
  IF s.open.k = "tool"
    THEN [t EXCEPT !.heldEnc = Put(@, enc, [id |-> e.id, args |-> <<>>])]
    ELSE EmitTag([CloseConverse(t) EXCEPT !.open = [b |-> enc, k |-> "tool"]],
                 "start", enc, <<>>, e.id)

ConverseToolArgs(s0, e) ==
  LET t == ToolEnc(s0, e.i)
      s == t.s
      enc == t.enc IN
  CASE IsCustom(e) \/ enc \in DOMAIN s.custom -> AddCustom(s, enc, e)
    [] ~(IsCustom(e) \/ enc \in DOMAIN s.custom) /\ enc \in DOMAIN s.heldEnc ->
         [s EXCEPT !.heldEnc[enc].args = Append(@, e.n)]
    [] OTHER -> Emit(s, "delta", enc, <<e.n>>)

\* An image or a sound is a whole block; some image formats have no Converse
\* form and fail the stream before anything is closed.
ConverseMedia(s, e, ok) ==
  LET c == CloseConverse(s)
      b == c.nextBlock IN
  IF ~ok THEN [s EXCEPT !.failed = TRUE]
  ELSE Emit(Emit([c EXCEPT !.nextBlock = b + 1], "start", b, <<e.n>>), "stop", b, <<>>)

PushConverse(s, e, ok) ==
  CASE e.k \in InConverseText \cup {"reasoning", "signature"} -> ConverseContent(s, e)
    [] e.k \in Starts -> ConverseToolStart(s, e)
    [] e.k \in Fragments -> ConverseToolArgs(s, e)
    [] e.k = "end" -> CloseConverse(s)
    [] e.k \in {"image", "audio"} -> ConverseMedia(s, e, ok \/ e.k = "audio")
    [] e.k = "finish" -> [s EXCEPT !.finish = e.r]
    [] e.k = "usage" -> Emit(s, "usage", NoB, <<>>)
    [] e.k \in ConverseIgnored -> s
    [] OTHER -> Emit(s, "part", NoB, <<e.n>>)    \* a refusal: a delta with no block index

\* flush_converse_held: each waiting call as a whole block, in slot order.
HeldConverse(s, held, enc) ==
  LET n == IF CustomOf(s, enc) # <<>> THEN CustomOf(s, enc) ELSE held[enc].args
      opened == EmitTag(s, "start", enc, <<>>, held[enc].id) IN
  IF enc \notin DOMAIN held THEN s
  ELSE Emit([EmitSome(opened, "delta", enc, n) EXCEPT !.custom = Del(@, enc)], "stop", enc, <<>>)
FlushConverseHeld(s) ==
  LET after[b \in 0..s.nextBlock] ==
        IF b = 0 THEN [s EXCEPT !.heldEnc = <<>>]
        ELSE HeldConverse(after[b - 1], s.heldEnc, b - 1) IN
  after[s.nextBlock]

\* converse.rs finish_reason.
ConverseStop(r) ==
  CASE r \in {"tool_use", "tool_calls"} -> "tool_use"
    [] r \in {"max_tokens", "length"} -> "max_tokens"
    [] r \in {"content_filter", "content_filtered"} -> "content_filtered"
    [] r \in {"stop_sequence", "guardrail_intervened"} -> r
    [] OTHER -> "end_turn"

FinishConverse(s) ==
  EmitTag(FlushConverseHeld(CloseConverse(s)), "end", NoB, <<>>, ConverseStop(s.finish))
=============================================================================
