----------------------------- MODULE MapMessages -----------------------------
(* Anthropic Messages requests: map/messages.rs.                           *)
EXTENDS RequestIR

\* decode_content_part, decode_image, decode_document.
MessagesSends == {"text", "blank", "imageUrl", "image", "void", "docData", "docSheet", "docText", "docUrl",
                  "docFile", "signed", "unsigned", "typed", "mfile"}

\* decode_tool_result: text beside another part stays in order, text alone is
\* one string.
ResultItem(b) ==
  LET inner == SelectSeq(b.in, LAMBDA p : p.t # "blank" \/ p.bp) IN
  IF \E i \in DOMAIN inner : inner[i].t # "text" \/ inner[i].bp
    THEN Item("output", b.n, b.id, inner, <<>>, b.at)
    ELSE Item("output", b.n, b.id, <<>>, Payloads(inner), b.at)

\* decode_assistant and decode_user: a tool block flushes the parts before it.
SplitTurn(kind, blocks, Special(_)) ==
  LET step(acc, b) ==
        IF b.t \in {"call", "result"}
          THEN [items |-> acc.items
                  \o (IF acc.parts = <<>> THEN <<>> ELSE <<TurnItem(kind, acc.parts)>>)
                  \o <<Special(b)>>,
                parts |-> <<>>]
          ELSE [acc EXCEPT !.parts = Append(@, Part(b.t, b.n, b.bp))]
      end == FoldLeft(step, [items |-> <<>>, parts |-> <<>>], blocks) IN
  end.items \o (IF end.parts = <<>> THEN <<>> ELSE <<TurnItem(kind, end.parts)>>)

ToolBlockItem(b) ==
  IF b.t = "result" THEN ResultItem(b) ELSE Item("call", b.n, b.id, <<>>, <<>>, b.at)

\* decode_message; decode_system makes one item per non-empty block.
DecodeMessages(m) ==
  IF m.role = "system"
    THEN LET bs == SelectSeq(m.blocks, LAMBDA b : b.t # "blank") IN
         [i \in DOMAIN bs |-> RoleItem("system", <<Part(bs[i].t, bs[i].n, FALSE)>>, <<bs[i].n>>)]
    ELSE SplitTurn(m.role, m.blocks, ToolBlockItem)

-----------------------------------------------------------------------------
\* encode_part and encode_document: white space is left out without a word.
MessagesPart(t) ==
  CASE t = "blank" -> "omit"
    [] t \in {"imageFile", "void", "docS3", "audio", "unsigned"} -> "drop"
    [] t \in {"gfile", "gtool", "video", "json"} -> "drop"
    [] OTHER -> "keep"

\* sanitize_messages_tool_use_id on the ids of the model: "." is not legal.
Sanitize(id) == IF id = "c.1" THEN "c_1" ELSE id

\* assign_messages_tool_use_id: the first id to claim a form keeps it, another
\* gets the first free suffix.
MutAssignId(ids, id) ==
  IF id \in DOMAIN ids THEN ids ELSE id :> Sanitize(id) @@ ids
AssignId(ids, id) ==
  LET base == Sanitize(id)
      form(k) == IF k = 1 THEN base ELSE base \o "_" \o ToString(k)
      used == {ids[d] : d \in DOMAIN ids}
      free == {k \in 1..(Cardinality(used) + 1) : form(k) \notin used}
      first == CHOOSE k \in free : \A j \in free : k <= j IN
  IF id \in DOMAIN ids THEN ids ELSE id :> form(first) @@ ids

\* tool_use_block.
ToolUse(s, item) ==
  LET ids == AssignId(s.ids, item.id) IN
  [s |-> [s EXCEPT !.ids = ids,
                   !.rep = @ \cup AttrLoss(item, "sig")
                     \cup (IF ids[item.id] # item.id THEN {Loss(item.n, "id", "Degrade")} ELSE {})],
   b |-> Block("call", ids[item.id], <<item.n>>, {})]

\* tool_result_block: bare text parts and JSON stay in part order, otherwise the
\* output text leads.
ToolResult(s, item) ==
  LET ids == AssignId(s.ids, item.id)
      ordered == HasBareText(item.parts)
      fate(t) == IF t = "json" THEN (IF ordered THEN "keep" ELSE "omit") ELSE MessagesPart(t)
      lead == IF ordered THEN <<>> ELSE FunctionOutputText(item)
      kept == SelectSeq(item.parts, LAMBDA p : Survives(fate(p.t))) IN
  [s |-> [s EXCEPT !.ids = ids,
                   !.rep = @ \cup PartLosses(item.parts, fate, FALSE)
                     \cup (IF ids[item.id] # item.id THEN {Loss(item.n, "id", "Degrade")} ELSE {})],
   b |-> Block("result", ids[item.id], lead \o Payloads(kept), Kept(item, "err"))]

\* encode_reasoning and reasoning_block: only a summary becomes thinking.
ThinkingBlock(s, item) ==
  IF "sum" \in item.at
    THEN [s |-> s, b |-> <<Block("thinking", "", <<item.n>>, {})>>]
    ELSE [s |-> Note(s, ItemLoss(item, "Degrade")), b |-> <<>>]

\* One absorbed item behind an assistant turn (encode_assistant) or behind a
\* user turn (encode_user).
Behind(s, item) ==
  CASE item.k = "reasoning" -> ThinkingBlock(s, item)
    [] item.k = "output" -> LET r == ToolResult(s, item) IN [s |-> r.s, b |-> <<r.b>>]
    [] OTHER -> LET r == ToolUse(s, item) IN [s |-> r.s, b |-> <<r.b>>]
Absorb(s, run) ==
  FoldLeft(LAMBDA acc, item : LET r == Behind(acc.s, item) IN [s |-> r.s, b |-> acc.b \o r.b],
           [s |-> s, b |-> <<>>], run)

AssistantTail == {"call", "custom", "reasoning"}

\* encode_assistant: content that comes to nothing is ".".
MessagesAssistant(s, item, run) ==
  LET parts == EncodeParts(item.parts, MessagesPart, FALSE)
      more == Absorb(Note(s, PartLosses(item.parts, MessagesPart, FALSE) \cup AttrLoss(item, "phase")), run)
      blocks == parts \o more.b IN
  PushTurn(more.s, "assistant", IF blocks = <<>> THEN <<Placeholder>> ELSE blocks)

\* encode_user and push_alternating_message.
MessagesUser(s, item, run) ==
  LET parts == EncodeParts(item.parts, MessagesPart, FALSE)
      more == Absorb(Note(s, PartLosses(item.parts, MessagesPart, FALSE)), run) IN
  PushRole(more.s, "user", (IF parts = <<>> THEN <<Placeholder>> ELSE parts) \o more.b)

\* encode_items.
MessagesItem(s, items, i) ==
  LET item == items[i]
      late == IF s.turns = <<>> THEN {} ELSE TurnLoss(item, "Degrade") IN
  CASE item.k \in {"system", "developer"} ->
         Note([s EXCEPT !.sys = Append(@, RoleBlock(item, FALSE))],
              RoleLoss(item, FALSE)
              \cup (IF item.k = "developer" THEN TurnLoss(item, "Degrade") ELSE late))
    [] item.k = "user" -> MessagesUser(s, item, RunAfter(items, i, {"output"}))
    [] item.k = "assistant" -> MessagesAssistant(s, item, RunAfter(items, i, AssistantTail))
    [] item.k = "output" ->
         IF Absorbed(items, i, {"output"}, "user") THEN s
         ELSE LET r == ToolResult(s, item) IN PushTurn(r.s, "user", <<r.b>>)
    [] item.k \in AssistantTail ->
         IF Absorbed(items, i, AssistantTail, "assistant") THEN s
         ELSE LET r == Behind(s, item) IN
              IF r.b = <<>> THEN r.s ELSE PushTurn(r.s, "assistant", r.b)
    [] item.k \in {"hosted", "unknown"} -> PushTurn(s, "raw", <<Block("raw", "", <<item.n>>, {})>>)
    [] OTHER -> Note(s, ItemLoss(item, "Drop"))   \* cache point, guard, tool change

\* messages_need_continue.
NeedsContinue(items) == items # <<>> /\ Last(items).k \in {"assistant", "call", "custom"}

MessagesEncode(items) ==
  LET s == EncodeItems(items, LAMBDA acc, i : MessagesItem(acc, items, i))
      t == IF NeedsContinue(items) THEN PushTurn(s, "user", <<Placeholder>>) ELSE s IN
  [ok |-> t.turns # <<>> \/ (t.sys = <<>> /\ ~Dropped(t)), s |-> t]
=============================================================================
