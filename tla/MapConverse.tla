----------------------------- MODULE MapConverse -----------------------------
(* Bedrock Converse requests: map/converse.rs.  Its tool results and turns *)
(* are split like those of Messages.                                       *)
EXTENDS RequestIR, MapMessages

\* decode_part, decode_document, decode_image, decode_audio.
ConverseSends == {"text", "blank", "image", "void", "docData", "docSheet", "docS3", "audio", "signed",
                  "unsigned", "video"}

\* tool_result_output: text beside another block stays in order.
ConverseResult(b) ==
  LET inner == SelectSeq(b.in, LAMBDA p : p.t # "blank") IN
  IF \E i \in DOMAIN inner : inner[i].t # "text"
    THEN Item("output", b.n, b.id, inner, <<>>, b.at)
    ELSE Item("output", b.n, b.id, <<>>, Payloads(inner), b.at)
ConverseToolItem(b) ==
  IF b.t = "result" THEN ConverseResult(b) ELSE Item("call", b.n, b.id, <<>>, <<>>, {})

\* decode_system (text, cache points and guards), decode_user, decode_assistant
\* and decode_system_role_tool_change.
DecodeConverse(m) ==
  LET b == m.blocks[1] IN
  CASE m.role = "system" /\ b.t = "text" -> <<RoleItem("system", <<Part("text", b.n, FALSE)>>, <<b.n>>)>>
    [] m.role = "system" -> <<Item(b.t, b.n, "", <<>>, <<>>, {})>>
    [] OTHER -> SplitTurn(m.role, m.blocks, ConverseToolItem)

-----------------------------------------------------------------------------
\* encode_part, encode_document, encode_image_url, encode_image_bytes and
\* encode_audio, for the formats Converse has and URLs that are not s3.
ConversePart(t) ==
  CASE t = "blank" -> "omit"
    [] t = "docText" -> "degrade"
    [] t \in {"imageUrl", "imageFile", "void", "docUrl", "docFile"} -> "drop"
    [] t \in {"typed", "mfile", "gfile", "gtool", "ginline", "json"} -> "drop"
    [] OTHER -> "keep"

\* The FunctionOutput arm: text parts win over the output text, and a result
\* that comes to nothing is ".".
ConverseResultPart(t) ==
  CASE t \in {"json", "ginline", "hint"} -> "keep"
    [] t \in {"audio", "signed", "unsigned"} -> "drop"
    [] OTHER -> ConversePart(t)
ConverseOutput(s, item) ==
  LET ordered == \E i \in DOMAIN item.parts : item.parts[i].t = "text"
      \* a wrapped part goes through encode_part, JSON aside
      fate(p) == IF p.bp /\ p.t # "json" THEN ConversePart(p.t) ELSE ConverseResultPart(p.t)
      lead == IF ordered THEN <<>> ELSE item.out
      kept == SelectSeq(item.parts, LAMBDA p : Survives(fate(p))) IN
  Note(PushRole(s, "user", <<Block("result", item.id, lead \o Payloads(kept), Kept(item, "err"))>>),
       UNION {PartLoss(item.parts[i], fate(item.parts[i]), FALSE) : i \in DOMAIN item.parts})

\* ensure_document_text: a document needs a text block in its turn.
TextTypes == {"text", "docText"}
WithDocumentText(blocks) ==
  LET has(ts) == \E i \in DOMAIN blocks : blocks[i].t \in ts IN
  IF has({"docData", "docSheet", "docS3"}) /\ ~has(TextTypes) THEN Append(blocks, Placeholder) ELSE blocks

\* Blocks for a user turn, joined to the last one.
MutConverseUser(s, blocks) ==
  IF s.turns # <<>> THEN JoinLast(s, blocks) ELSE PushTurn(s, "user", WithDocumentText(blocks))
ConverseUser(s, blocks) ==
  IF LastRole(s) = "user"
    THEN [s EXCEPT !.turns[Len(s.turns)].blocks = WithDocumentText(@ \o blocks)]
    ELSE PushTurn(s, "user", WithDocumentText(blocks))

\* The Assistant arm: documents and images move to a user turn.
MediaTypes == {"docData", "docSheet", "docS3", "image", "hint"}
ConverseAssistant(s, item) ==
  LET encoded == EncodeParts(item.parts, ConversePart, FALSE)
      media == SelectSeq(encoded, LAMBDA b : b.t \in MediaTypes)
      blocks == SelectSeq(encoded, LAMBDA b : b.t \notin MediaTypes)
      lost == PartLosses(item.parts, ConversePart, FALSE) \cup AttrLoss(item, "phase")
              \cup {Loss(media[i].ns[1], "turn", "Degrade") : i \in DOMAIN media}
      said == IF blocks = <<>> THEN s ELSE PushRole(s, "assistant", blocks) IN
  Note(IF media = <<>> THEN said ELSE ConverseUser(said, media), lost)

\* encode_items.  A reasoning item without a summary and a call's thought
\* signature are left out without a word.
ConverseItem(s, items, i) ==
  LET item == items[i]
      late == IF s.turns = <<>> THEN {} ELSE TurnLoss(item, "Degrade")
      user == EncodeParts(item.parts, ConversePart, FALSE) IN
  CASE item.k \in {"system", "developer"} ->
         Note(PushRoleText(s, item),
              RoleLoss(item, FALSE) \cup IF item.out = <<>> THEN {} ELSE late)
    [] item.k \in {"cache", "guard"} ->
         [s EXCEPT !.sys = Append(@, Block(item.k, "", <<item.n>>, {}))]
    [] item.k = "user" ->
         Note(IF user = <<>> THEN s ELSE ConverseUser(s, user),
              PartLosses(item.parts, ConversePart, FALSE))
    [] item.k = "assistant" -> ConverseAssistant(s, item)
    [] item.k \in {"call", "custom"} ->
         PushRole(s, "assistant", <<Block("call", item.id, <<item.n>>, {})>>)
    [] item.k = "output" -> ConverseOutput(s, item)
    [] item.k = "reasoning" ->
         IF "sum" \in item.at THEN PushRole(s, "assistant", <<Block("thought", "", <<item.n>>, {})>>) ELSE s
    [] item.k = "toolChange" -> PushTurn(s, "system", <<Block("toolChange", "", <<item.n>>, {})>>)
    [] OTHER -> Note(s, ItemLoss(item, "Drop"))

ConverseEncode(items) ==
  LET s == EncodeItems(items, LAMBDA acc, i : ConverseItem(acc, items, i)) IN
  [ok |-> s.turns # <<>>, s |-> s]
=============================================================================
