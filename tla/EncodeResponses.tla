-------------------------- MODULE EncodeResponses --------------------------
(***************************************************************************)
(* The Responses client's encoder: output items, one open at a time, each  *)
(* ended by a done event that repeats the whole item.                      *)
(***************************************************************************)
EXTENDS EncoderState

ResponsesQuiet == {"created", "tier", "metadata", "moderation"}
InTextItem == {"text", "refusal", "annotation", "image", "logprobs"}
InThinkingItem == {"reasoning", "signature"}

\* What an open item has collected: closed parts, running text or arguments,
\* refusal.
NewItem(id) == [id |-> id, parts |-> <<>>, text |-> <<>>, refusal |-> <<>>]
ItemPayload(it) == it.parts \o it.text \o it.refusal

\* close_item: output_item.done with everything the item collected.
CloseItem(s) ==
  IF s.open = NoBlock THEN s
  ELSE LET b == s.open.b
           n == IF b \in DOMAIN s.items THEN ItemPayload(s.items[b]) ELSE <<>> IN
       Emit([s EXCEPT !.open = NoBlock, !.items = Del(@, b)], "item", b, n)

EnsureItem(s, kind) ==
  IF s.open.k = kind THEN s
  ELSE LET c == CloseItem(s)
           b == c.nextBlock IN
       Emit([c EXCEPT !.nextBlock = b + 1, !.open = [b |-> b, k |-> kind],
                      !.items = Put(@, b, NewItem(NoId))],
            "start", b, <<>>)

\* Content: text and refusal run on, an image closes the text part before it,
\* annotations, logprobs and signatures only decorate the item.
ResponsesContent(s, e) ==
  LET t == EnsureItem(s, IF e.k \in InThinkingItem THEN "thinking" ELSE "text")
      b == t.open.b
      it == t.items[b]
      grown == CASE e.k \in {"text", "reasoning"} -> [it EXCEPT !.text = Append(@, e.n)]
                 [] e.k = "refusal" -> [it EXCEPT !.refusal = Append(@, e.n)]
                 [] e.k = "image" -> [it EXCEPT !.parts = it.parts \o it.text \o <<e.n>>,
                                                !.text = <<>>]
                 [] OTHER -> it
      f == IF e.k \in {"text", "reasoning", "refusal", "image"} THEN "delta" ELSE "note" IN
  Emit([t EXCEPT !.items = Put(@, b, grown)], f, b, <<e.n>>)

\* A function call waits while another call is open; a custom call never does.
MutWaits(s, e) == FALSE
Waits(s, e) == e.k = "start" /\ s.open.k \in {"tool", "custom"}

ResponsesToolStart(s, e) ==
  LET a == AllocTool(s, e.i)
      enc == a.last[e.i]
      t == [a EXCEPT !.items = Put(@, enc, NewItem(e.id)),
                     !.ids = IF e.k = "start" THEN Put(@, enc, e.id) ELSE @] IN
  IF Waits(s, e) THEN [t EXCEPT !.heldEnc = Put(@, enc, e.id)]
  ELSE EmitTag([CloseItem(t) EXCEPT
                  !.open = [b |-> enc, k |-> IF e.k = "start" THEN "tool" ELSE "custom"]],
               "start", enc, <<>>, e.id)

\* A fragment joins its item while that is still there; it goes out unless held.
ResponsesToolArgs(s0, e) ==
  LET t == ToolEnc(s0, e.i)
      enc == t.enc
      s == IF enc \in DOMAIN t.s.items
             THEN [t.s EXCEPT !.items[enc].text = Append(@, e.n)] ELSE t.s IN
  IF e.k = "args" /\ enc \in DOMAIN s.heldEnc THEN s
  ELSE Emit(s, "delta", enc, <<e.n>>)

PushResponses(s0, e) ==
  LET s == IF s0.started \/ e.k \in ResponsesQuiet THEN s0
           ELSE Emit([s0 EXCEPT !.started = TRUE], "head", NoB, <<>>) IN
  CASE e.k \in InTextItem \cup InThinkingItem -> ResponsesContent(s, e)
    [] e.k \in {"audio", "transcript"} -> Emit(s, "part", NoB, <<e.n>>)
    [] e.k \in Starts -> ResponsesToolStart(s, e)
    [] e.k \in Fragments -> ResponsesToolArgs(s, e)
    [] e.k = "end" -> CloseItem(s)
    [] e.k = "finish" -> [s EXCEPT !.finish = e.r]
    [] e.k = "usage" -> [s EXCEPT !.usage = TRUE]
    [] OTHER -> s

\* flush_responses_held: each waiting call as a whole item, in slot order.
HeldItem(s, held, enc) ==
  IF enc \notin held \/ enc \notin DOMAIN s.items THEN s
  ELSE LET it == s.items[enc]
           opened == EmitTag(s, "start", enc, <<>>, it.id)
           filled == EmitSome(opened, "delta", enc, it.text) IN
       Emit([filled EXCEPT !.items = Del(@, enc)], "item", enc, it.text)
FlushResponsesHeld(s) ==
  LET after[b \in 0..s.nextBlock] ==
        IF b = 0 THEN [s EXCEPT !.heldEnc = <<>>]
        ELSE HeldItem(after[b - 1], DOMAIN s.heldEnc, b - 1) IN
  after[s.nextBlock]

\* finish_responses: completed, incomplete or failed.
ResponseStatus(r) ==
  CASE r = "failed" -> "failed"
    [] r \in {"incomplete", "length", "max_tokens", "content_filter"} -> "incomplete"
    [] OTHER -> "completed"

FinishResponses(s) ==
  EmitTag(FlushResponsesHeld(CloseItem(s)), "end", NoB, <<>>, ResponseStatus(s.finish))
=============================================================================
