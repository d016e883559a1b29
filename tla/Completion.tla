----------------------------- MODULE Completion -----------------------------
(***************************************************************************)
(* The whole answer of a vendor on its way to a client of another wire     *)
(* (proxy.rs handle, after the status is known to be a success).           *)
(***************************************************************************)
EXTENDS EncodeComplete

CONSTANTS AnswerWires,   \* the wires in play
          MaxBlocks      \* bound: blocks of an answer

Wires == {"chat", "messages", "responses", "gemini", "converse"}
ASSUME AnswerWiresAssumption == AnswerWires \subseteq Wires
ASSUME MaxBlocksAssumption == MaxBlocks \in Nat
ASSUME U32MaxAssumption == U32Max \in Nat

VARIABLES up, down,    \* the vendor's wire and the client's
          answer,      \* the vendor's body
          events,      \* what it decodes to
          body,        \* what the client gets
          stage        \* "received", "decoded", then "sent" or "refused"

-----------------------------------------------------------------------------
(* The answers a vendor can give.                                          *)

SendsBlocks(w) ==
  CASE w = "chat" -> ChatVisible \cup {"sig", "note", "shell"}
    [] w = "messages" -> MessagesVisible \cup {"refusal", "shell"}
    [] w = "responses" -> ResponsesVisible \cup {"note", "shell"}
    [] w = "gemini" -> GeminiVisible \cup {"sig", "note", "shell"}
    [] OTHER -> ConverseVisible \cup {"shell"}
\* Only two wires write the arguments as a string; Gemini may leave out the id.
ArgKinds(w) == IF w \in {"chat", "responses"} THEN {"json", "none", "bad"} ELSE {"json", "none"}
Variants(w) ==
  {Block(k, 0, "", 0, "") : k \in SendsBlocks(w) \ Calls}
  \cup {Block("call", 0, id, 0, args) :
          id \in {"id"} \cup (IF w = "gemini" THEN {""} ELSE {}), args \in ArgKinds(w)}
  \cup (IF "custom" \in SendsBlocks(w) THEN {Block("custom", 0, "id", 0, "bad")} ELSE {})

\* Payloads and ids are told apart by the place of their block.
Id(b, n) == IF b.id = "" THEN "" ELSE <<"a", "b", "c">>[n]
Placed(bs, indexed) ==
  [n \in DOMAIN bs |->
    [bs[n] EXCEPT !.n = n, !.id = Id(bs[n], n),
                  !.ix = IF indexed THEN Len(Only(SubSeq(bs, 1, n - 1), Calls)) ELSE 0]]

Zero == Counts(0, 0, 0, 0, 0, 0)
VendorCounts(w) ==
  {Counts(3, 4, 1, 1, IF w = "converse" THEN 0 ELSE 2, 1), Counts(U32Max, 1, 1, 0, 0, 0)}
Answer(bs, finish, usage, error) ==
  [blocks |-> bs, finish |-> finish, usage |-> usage, error |-> error]
PlainFinish(w) == CASE w = "chat" -> "stop" [] w = "responses" -> "completed"
                    [] w = "gemini" -> "STOP" [] OTHER -> "end_turn"

Answers(w) ==
  LET lists(n) == {Placed(bs, indexed) : bs \in BoundedSeq(Variants(w), n),
                                         indexed \in IF w = "chat" THEN BOOLEAN ELSE {FALSE}} IN
  {Answer(bs, PlainFinish(w), <<>>, FALSE) : bs \in lists(MaxBlocks)}
  \cup {Answer(bs, f, u, e) : bs \in lists(1), f \in VendorFinishes(w), e \in BOOLEAN,
                              u \in {<<>>} \cup {<<c>> : c \in VendorCounts(w)}}

-----------------------------------------------------------------------------
(* The steps.                                                              *)

HasCall(a) == Only(a.blocks, Calls) # <<>>
TailEvents(w, a) ==
  (IF a.finish = "" THEN <<>>
   ELSE <<Ev("finish", 0, 0, FinishFrom(w, a.finish, HasCall(a)), "")>>)
  \o [j \in DOMAIN a.usage |-> Ev("usage", 0, 0, "", UsageFrom(w, a.usage[j]))]

\* decode_response, or 502 with the vendor's message.
DecodeAnswer ==
  /\ stage = "received"
  /\ \/ /\ Refused(up, answer)
        /\ stage' = "refused"
        /\ UNCHANGED events
     \/ /\ ~Refused(up, answer)
        /\ stage' = "decoded"
        /\ events' = Decode(up, answer.blocks) \o TailEvents(up, answer)
  /\ UNCHANGED <<up, down, answer, body>>

\* encode_response_with_model, or 502 if the client's wire has no way to say it.
Filled(w, evs) == FoldLeft(LAMBDA acc, e : FeedTo(w, acc, e), Acc0, evs)
EncodeAnswer ==
  /\ stage = "decoded"
  /\ LET acc == Filled(down, events) IN
     \/ /\ acc.failed
        /\ stage' = "refused"
        /\ UNCHANGED body
     \/ /\ ~acc.failed
        /\ stage' = "sent"
        /\ body' = BodyOf(down, acc)
  /\ UNCHANGED <<up, down, answer, events>>

NoBody == Body(<<>>, <<>>, {}, "", <<>>)

-----------------------------------------------------------------------------
(* What must hold of an answer that was sent.                              *)

Payloads(bs) == [j \in DOMAIN bs |-> bs[j].n]
Content == {"text"} \cup Images
Shown == SelectSeq(FlattenSeq([j \in DOMAIN body.content |-> body.content[j].ns]),
                   LAMBDA n : answer.blocks[n].k \in Content)
ContentKept == Shown = Payloads(Only(answer.blocks, Content))

\* A string that is not JSON is lost to the two wires that need an object.
CallArgsKept(b, c) ==
  \/ Payloads(c.args) = (IF b.args = "none" THEN <<>> ELSE <<b.n>>)
  \/ /\ b.args = "bad" /\ b.k = "call"
     /\ down \in {"messages", "gemini"} /\ c.args = <<>>
CallsKept ==
  LET calls == Only(answer.blocks, Calls) IN
  /\ Len(body.calls) = Len(calls)
  /\ \A j \in DOMAIN calls : /\ body.calls[j].id = calls[j].id \/ calls[j].id = ""
                             /\ body.calls[j].custom = (calls[j].k = "custom")
                             /\ CallArgsKept(calls[j], body.calls[j])
  /\ \A i, j \in DOMAIN calls : i # j => body.calls[i].id # body.calls[j].id

\* Fields beside the content the client's wire has; of signatures there is one.
Fields(w) == {"think", "note"}
             \cup (IF w \in {"messages", "gemini", "converse"} THEN {} ELSE {"audio", "transcript"})
             \cup (IF w = "converse" THEN {"audio"} ELSE {"refusal"})
FieldsKept ==
  /\ \A n \in DOMAIN answer.blocks :
       answer.blocks[n].k \in Fields(down) => <<answer.blocks[n].k, n>> \in body.side
  /\ Only(answer.blocks, {"sig"}) # <<>> => \E s \in body.side : s[1] = "sig"

\* An answer that was cut off stays one, and only such a one becomes one; a turn
\* of calls that ended by itself asks for them.  encode_messages_complete does
\* not look for calls, so there only a vendor's own word for them counts.
CutWords == {"length", "max_tokens", "MAX_TOKENS", "max_output_tokens"}
Cut(w) == CASE w = "responses" -> {"incomplete"} [] OTHER -> CutWords
ToolWords == {"tool_use", "tool_calls", "STOP"}
EndWords(w) == ToolWords \cup (IF w = "messages" THEN {} ELSE {"stop", "end_turn", "completed"})
AskWords == {"tool_calls", "tool_use", "STOP", "completed"}
FinishKept ==
  /\ answer.finish \in CutWords => body.finish \in Cut(down)
  /\ body.finish \in Cut(down) =>
       \/ answer.finish \in CutWords
       \/ down = "responses" /\ answer.finish \in {"content_filter", "refusal", "SAFETY", "blocked"}
  /\ HasCall(answer) /\ answer.finish \in EndWords(down) => body.finish \in AskWords

\* The tokens a client is told it used are the vendor's, counted its way.
TotalIn(w, u) == IF w \in {"messages", "converse"} THEN Add(u.in, u.read) ELSE u.in
TotalOut(w, u) == IF w = "gemini" THEN Add(u.out, u.think) ELSE u.out
UsageKept ==
  \A j \in DOMAIN answer.usage :
    LET u == answer.usage[j]
        v == body.usage[j] IN
    /\ TotalIn(down, v) = TotalIn(up, u)
    /\ \/ TotalOut(down, v) = TotalOut(up, u)
       \/ down = "converse" /\ u.think > 0
    /\ v.read = u.read

\* Decoding a vendor's whole answer and encoding it for another wire keeps the
\* text and images in order, every call once with its id and arguments, the
\* fields the client's wire has, whether the answer was cut off, and the token
\* totals; a body that is only an error is refused, and no other but a failed turn of
\* Responses and a format the client's wire does not have (stream/complete.rs).
AnswerKept ==
  /\ stage = "sent" =>
       ContentKept /\ CallsKept /\ FieldsKept /\ FinishKept /\ UsageKept
  /\ stage = "sent" /\ answer.error =>
       \/ \E n \in DOMAIN answer.blocks : answer.blocks[n].k # "shell"
       \/ up = "converse" /\ answer.finish # ""
  /\ stage = "refused" =>
       \/ answer.error /\ ~HasCompletion(up, answer)
       \/ answer.error /\ up = "responses" /\ answer.finish = "failed"
       \/ down = "converse" /\ Only(answer.blocks, {"odd"}) # <<>>
=============================================================================
