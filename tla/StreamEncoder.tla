--------------------------- MODULE StreamEncoder ---------------------------
(***************************************************************************)
(* stream/encoder.rs StreamEncoder::push and finish: dispatch to the       *)
(* client's wire.  Nothing goes out after finish.                          *)
(***************************************************************************)
EXTENDS EncodeMessages, EncodeResponses, EncodeChat, EncodeConverse, EncodeGemini

Finish(s0) ==
  LET s == [s0 EXCEPT !.finished = TRUE] IN
  IF s0.finished THEN s0
  ELSE CASE s.wire = "messages" -> FinishMessages(s)
         [] s.wire = "responses" -> FinishResponses(s)
         [] s.wire = "chat" -> FinishChat(s)
         [] s.wire = "gemini" -> FinishGemini(s)
         [] OTHER -> FinishConverse(s)

\* Events only the Messages wire has a place for.
MessagesOnly == {"stopseq", "container", "context", "diagnostics"}

\* push; ok says whether a media format in e has a Converse form.
EncPush(s, e, ok) ==
  IF s.finished \/ s.failed THEN s
  ELSE CASE e.k = "unknown" -> Emit(s, "meta", NoB, <<>>)
         [] e.k = "done" -> Finish(s)
         [] e.k \in MessagesOnly /\ s.wire # "messages" -> s
         [] OTHER ->
              CASE s.wire = "messages" -> PushMessages(s, e)
                [] s.wire = "responses" -> PushResponses(s, e)
                [] s.wire = "chat" -> PushChat(s, e)
                [] s.wire = "gemini" -> PushGemini(s, e)
                [] OTHER -> PushConverse(s, e, ok)
=============================================================================
