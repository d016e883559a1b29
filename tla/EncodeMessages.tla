--------------------------- MODULE EncodeMessages ---------------------------
(***************************************************************************)
(* The Messages client's encoder: one content block open at a time, so a   *)
(* second tool call is held and other content deferred while one is open.  *)
(***************************************************************************)
EXTENDS EncoderState

\* Recorded for the head or the tail; they do not open the message.
MessagesQuiet == {"tier", "stopseq", "container", "context", "diagnostics"}
Deferrable == {"text", "reasoning", "signature", "transcript", "annotation"}

MessagesStart(s) ==
  IF s.started THEN s ELSE Emit([s EXCEPT !.started = TRUE], "head", NoB, <<>>)

\* tool_start_frame, then the block is the open one.
OpenTool(s, enc, id) ==
  EmitTag([s EXCEPT !.open = [b |-> enc, k |-> "tool"], !.ids = Put(@, enc, id)],
          "start", enc, <<>>, id)

\* flush_held_tools: each held call as a whole block, in slot order.
HeldBlock(s, h) ==
  LET n == IF CustomOf(s, h.enc) # <<>> THEN CustomOf(s, h.enc) ELSE h.args
      opened == EmitTag(s, "start", h.enc, <<>>, h.id)
      closed == Emit(EmitSome(opened, "delta", h.enc, n), "stop", h.enc, <<>>) IN
  [closed EXCEPT !.closed = @ \cup {h.enc}, !.custom = Del(@, h.enc)]
HeldAt(s, held, b) ==
  IF \E h \in held : h.enc = b THEN HeldBlock(s, CHOOSE h \in held : h.enc = b) ELSE s
FlushHeldTools(s) ==
  LET after[b \in 0..s.nextBlock] ==
        IF b = 0 THEN [s EXCEPT !.held = <<>>] ELSE HeldAt(after[b - 1], Range(s.held), b - 1) IN
  after[s.nextBlock]

\* close_open: buffered custom input, the stop, then the calls that waited.
CloseOpen(s) ==
  IF s.open = NoBlock THEN FlushHeldTools(s)
  ELSE LET b == s.open.b
           shut == [s EXCEPT !.open = NoBlock, !.closed = @ \cup {b},
                             !.custom = Del(@, b)] IN
       FlushHeldTools(Emit(EmitSome(shut, "delta", b, CustomOf(s, b)), "stop", b, <<>>))

EnsureBlock(s, kind) ==
  IF s.open.k = kind THEN s
  ELSE LET c == CloseOpen(s)
           b == c.nextBlock IN
       Emit([c EXCEPT !.nextBlock = b + 1, !.open = [b |-> b, k |-> kind]],
            "start", b, <<>>)

ToolBlockOpen(s) == s.open.k = "tool" \/ s.held # <<>>

MessagesContent(s, e) ==
  LET kind == IF e.k \in {"reasoning", "signature"} THEN "thinking" ELSE "text"
      f == IF e.k \in {"signature", "annotation"} THEN "note" ELSE "delta"
      t == EnsureBlock(s, kind) IN
  Emit(t, f, t.open.b, <<e.n>>)

\* A tool start: a repeat of the open call, a new call on its index, more of a
\* held call, or a call that opens now or waits for the open one.
MessagesToolStart(s, e) ==
  LET sameOpen == s.open.k = "tool" /\ e.i \in DOMAIN s.last /\ s.last[e.i] = s.open.b
      a == AllocTool(s, e.i)
      enc == a.last[e.i] IN
  CASE sameOpen /\ e.id \in {NoId, s.ids[s.open.b]} -> NoteCustom(s, s.open.b, e)
    [] sameOpen /\ e.id \notin {NoId, s.ids[s.open.b]} ->
         LET c == AllocTool([CloseOpen(s) EXCEPT !.slots[e.i] = <<>>], e.i)
             new == c.last[e.i] IN
         OpenTool(NoteCustom(c, new, e), new, e.id)
    [] ~sameOpen /\ e.i \in DOMAIN s.held ->
         NoteCustom([s EXCEPT !.held[e.i].id = IF @ = NoId THEN e.id ELSE @],
                    s.held[e.i].enc, e)
    [] ~sameOpen /\ e.i \notin DOMAIN s.held /\ s.open.k = "tool" ->
         NoteCustom([a EXCEPT !.held = Put(@, e.i, [enc |-> enc, id |-> e.id, args |-> <<>>])],
                    enc, e)
    [] OTHER -> OpenTool(CloseOpen(NoteCustom(a, enc, e)), enc, e.id)

\* A fragment: to the open call, to the held one, or out unless its block has
\* been closed, in which case it is dropped.
MutMessagesToolArgs(s0, e) ==
  LET t == ToolEnc(s0, e.i)
      s == t.s
      enc == t.enc
      custom == IsCustom(e) \/ enc \in DOMAIN s.custom IN
  CASE s.open = [b |-> enc, k |-> "tool"] /\ custom -> AddCustom(s, enc, e)
    [] ~(s.open = [b |-> enc, k |-> "tool"] /\ custom) /\ e.i \in DOMAIN s.held ->
         LET h == s.held[e.i].enc IN
         IF IsCustom(e) \/ h \in DOMAIN s.custom THEN AddCustom(s, h, e)
         ELSE [s EXCEPT !.held[e.i].args = Append(@, e.n)]
    [] OTHER -> Emit(s, "delta", enc, <<e.n>>)
MessagesToolArgs(s0, e) ==
  LET t == ToolEnc(s0, e.i)
      s == t.s
      enc == t.enc
      custom == IsCustom(e) \/ enc \in DOMAIN s.custom IN
  CASE s.open = [b |-> enc, k |-> "tool"] /\ custom -> AddCustom(s, enc, e)
    [] ~(s.open = [b |-> enc, k |-> "tool"] /\ custom) /\ e.i \in DOMAIN s.held ->
         LET h == s.held[e.i].enc IN
         IF IsCustom(e) \/ h \in DOMAIN s.custom THEN AddCustom(s, h, e)
         ELSE [s EXCEPT !.held[e.i].args = Append(@, e.n)]
    [] OTHER -> IF enc \in s.closed THEN s ELSE Emit(s, "delta", enc, <<e.n>>)

\* An image is a whole block of its own.
MessagesImage(s, e) ==
  LET c == CloseOpen(s)
      b == c.nextBlock IN
  Emit(Emit([c EXCEPT !.nextBlock = b + 1], "start", b, <<e.n>>), "stop", b, <<>>)

PushMessages(s0, e) ==
  IF ~s0.started /\ e.k \in MessagesQuiet THEN s0
  ELSE LET s == MessagesStart(s0) IN
       CASE e.k \in Deferrable ->
              IF ToolBlockOpen(s) THEN [s EXCEPT !.deferred = Append(@, e)]
              ELSE MessagesContent(s, e)
         [] e.k \in Starts -> MessagesToolStart(s, e)
         [] e.k \in Fragments -> MessagesToolArgs(s, e)
         [] e.k = "image" -> MessagesImage(s, e)
         [] e.k = "refusal" -> [s EXCEPT !.refusal = Append(@, e.n)]
         [] e.k = "finish" -> [s EXCEPT !.finish = e.r]
         [] e.k = "usage" -> [s EXCEPT !.usage = TRUE]
         [] OTHER -> s

\* encode_stop_reason.
EncodeStopReason(r) ==
  CASE r \in {"stop", "end_turn"} -> "end_turn"
    [] r \in {"length", "max_tokens"} -> "max_tokens"
    [] r \in {"tool_calls", "tool_use"} -> "tool_use"
    [] OTHER -> r

\* Only a plain end becomes tool_use when a call was opened.
MutStopReason(s) ==
  IF s.used # {} THEN "tool_use" ELSE EncodeStopReason(s.finish)
StopReason(s) ==
  LET mapped == EncodeStopReason(s.finish) IN
  CASE s.refusal # <<>> /\ mapped \in {Unset, "content_filter"} -> "refusal"
    [] ~(s.refusal # <<>> /\ mapped \in {Unset, "content_filter"})
         /\ s.used # {} /\ mapped \in {Unset, "end_turn"} -> "tool_use"
    [] OTHER -> IF mapped = Unset THEN "end_turn" ELSE mapped

\* The tail: message_delta with the reason, message_stop.
MessagesTail(s) ==
  Emit(EmitTag(s, "final", NoB, s.refusal, StopReason(s)), "end", NoB, <<>>)
\* What was deferred, in the order it came.
PushDeferred(s) ==
  LET after[k \in 0..Len(s.deferred)] ==
        IF k = 0 THEN [s EXCEPT !.deferred = <<>>] ELSE PushMessages(after[k - 1], s.deferred[k]) IN
  after[Len(s.deferred)]

MutFinishMessages(s) == MessagesTail(CloseOpen(MessagesStart(s)))
\* finish_messages: close, let out what was deferred, close, then the tail.
FinishMessages(s) ==
  MessagesTail(CloseOpen(PushDeferred(CloseOpen(MessagesStart(s)))))
=============================================================================
