---------------------------- MODULE EncodeGemini ----------------------------
(***************************************************************************)
(* The Gemini client's encoder: a function call is one part with complete  *)
(* arguments, so calls are collected and everything behind them waits.     *)
(***************************************************************************)
EXTENDS EncoderState

\* gemini_call_frame: an unnamed call is not sent.
CallFrame(s, c) == IF c.name THEN EmitTag(s, "call", NoB, c.args, c.id) ELSE s

\* hold_gemini_start: fill in a call that only has fragments, else replace.
HoldStart(s, e) ==
  LET prev == s.calls[e.i]
      fresh == [id |-> e.id, name |-> e.name, args |-> <<>>] IN
  IF e.i \notin DOMAIN s.calls THEN [s EXCEPT !.calls = Put(@, e.i, fresh)]
  ELSE IF prev.id = NoId /\ ~prev.name
    THEN [s EXCEPT !.calls[e.i].id = e.id, !.calls[e.i].name = e.name]
  ELSE CallFrame([s EXCEPT !.calls = Put(@, e.i, fresh)], prev)

\* append_gemini_args: a fragment stays on its own index, open or not.
MutAppendArgs(s, e) ==
  LET i == IF DOMAIN s.calls = {} THEN e.i ELSE CHOOSE j \in DOMAIN s.calls : TRUE IN
  IF i \in DOMAIN s.calls
    THEN [s EXCEPT !.calls[i].args = Append(@, e.n)]
    ELSE [s EXCEPT !.calls = Put(@, i, [id |-> NoId, name |-> FALSE, args |-> <<e.n>>])]
AppendArgs(s, e) ==
  IF e.i \in DOMAIN s.calls
    THEN [s EXCEPT !.calls[e.i].args = Append(@, e.n)]
    ELSE [s EXCEPT !.calls = Put(@, e.i, [id |-> NoId, name |-> FALSE, args |-> <<e.n>>])]

\* flush_gemini_calls: the calls in index order, then what waited behind them.
HeldCall(s, calls, i) == IF i \in DOMAIN calls THEN CallFrame(s, calls[i]) ELSE s
FlushCalls(s) ==
  LET after[i \in 0..MaxIndex] ==
        IF i = 0 THEN [s EXCEPT !.calls = <<>>, !.later = <<>>]
        ELSE HeldCall(after[i - 1], s.calls, i - 1) IN
  [after[MaxIndex] EXCEPT !.out = @ \o s.later]

\* gemini.rs encode_finish.
GeminiFinish(r) ==
  CASE r \in {"max_tokens", "length"} -> "MAX_TOKENS"
    [] r = "content_filter" -> "SAFETY"
    [] OTHER -> "STOP"

PushGemini(s, e) ==
  LET f == IF e.k \in Content THEN Frame("part", NoB, <<e.n>>, "")
           ELSE Frame(IF e.k = "usage" THEN "usage" ELSE "meta", NoB, <<>>, "") IN
  CASE e.k \in Starts -> HoldStart(s, e)
    [] e.k \in Fragments -> AppendArgs(s, e)
    [] e.k = "end" -> FlushCalls(s)
    [] e.k = "finish" -> EmitTag(FlushCalls(s), "final", NoB, <<>>, GeminiFinish(e.r))
    [] OTHER -> IF s.calls = <<>> THEN [s EXCEPT !.out = Append(@, f)]
                ELSE [s EXCEPT !.later = Append(@, f)]

FinishGemini(s) == Emit(FlushCalls(s), "end", NoB, <<>>)
=============================================================================
