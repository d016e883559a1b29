----------------------------- MODULE EncodeChat -----------------------------
(***************************************************************************)
(* The Chat Completions client's encoder: chunks without blocks.  Function *)
(* calls get dense indexes; a custom call keeps its upstream index.        *)
(***************************************************************************)
EXTENDS EncoderState

PushChat(s0, e) ==
  LET s == IF s0.started THEN s0
           ELSE Emit([s0 EXCEPT !.started = TRUE], "head", NoB, <<>>) IN
  CASE e.k = "start" -> LET a == AllocTool(s, e.i) IN
                        EmitTag(a, "start", a.last[e.i], <<>>, e.id)
    [] e.k = "args" -> LET t == ToolEnc(s, e.i) IN Emit(t.s, "delta", t.enc, <<e.n>>)
    [] e.k = "cstart" -> EmitTag([s EXCEPT !.sawCustom = TRUE], "start", e.i, <<>>, e.id)
    [] e.k = "cargs" -> Emit([s EXCEPT !.sawCustom = TRUE], "delta", e.i, <<e.n>>)
    [] e.k = "finish" -> [s EXCEPT !.finish = e.r]
    [] e.k = "usage" -> [s EXCEPT !.usage = TRUE]
    [] e.k = "end" -> s
    [] e.k \in Content -> Emit(s, "part", NoB, <<e.n>>)
    [] OTHER -> Emit(s, "meta", NoB, <<>>)

\* chat.rs encode_finish and finish_after_tool.
EncodeFinish(r) ==
  CASE r \in {"max_tokens", "model_context_window_exceeded"} -> "length"
    [] r \in {"failed", "cancelled", "canceled", "end_turn", "stop_sequence",
              "pause_turn"} -> "stop"
    [] OTHER -> r
FinishAfterTool(r, sawTool) ==
  IF sawTool /\ r \in {"stop", "end_turn"} THEN "tool_calls" ELSE EncodeFinish(r)

\* finish_chat: the finish chunk when there is a reason, usage, [DONE].
FinishChat(s) ==
  LET sawTool == s.used # {} \/ s.sawCustom
      f == IF s.finish = Unset THEN s
           ELSE EmitTag(s, "final", NoB, <<>>, FinishAfterTool(s.finish, sawTool))
      u == IF s.usage THEN Emit(f, "usage", NoB, <<>>) ELSE f IN
  Emit(u, "end", NoB, <<>>)
=============================================================================
