------------------------------ MODULE MapGemini ------------------------------
(* Gemini generateContent requests: map/gemini.rs.                         *)
EXTENDS RequestIR

\* decode_content: what a content part decodes to.
GeminiSends == {"text", "blank", "image", "void", "docData", "docUrl", "docFile", "audio",
                "signed", "unsigned", "gfile", "gtool", "hint"}

\* unmatched_call_id: the first call of that name, in the latest model turn,
\* that no function response has used.  User text that came with this response,
\* or with the ones before it, does not end the turn.
Boundary == {"user", "developer", "output", "system"}
TurnEnd(items, skipUser) ==
  LET is(j, k) == j >= 1 /\ items[j].k = k
      e1 == IF skipUser /\ is(Len(items), "user") THEN Len(items) - 1 ELSE Len(items)
      outs == {j \in 1..e1 : \A m \in j..e1 : items[m].k = "output"}
      e2 == e1 - Cardinality(outs) IN
  IF outs # {} /\ e2 >= 2 /\ is(e2, "user") /\ items[e2 - 1].k \notin Boundary
    THEN e2 - 1 ELSE e2
MutUnmatchedCall(items, name, skipUser) ==
  LET end == TurnEnd(items, skipUser)
      mine == {j \in 1..end : items[j].k = "call" /\ items[j].name = name
                              /\ \A m \in j..end : items[m].k \notin Boundary} IN
  IF mine = {} THEN name
  ELSE items[CHOOSE j \in mine : \A m \in mine : j <= m].id
UnmatchedCall(items, name, skipUser) ==
  LET end == TurnEnd(items, skipUser)
      used == {items[j].id : j \in {m \in DOMAIN items : items[m].k = "output"}}
      mine == {j \in 1..end : items[j].k = "call" /\ items[j].name = name /\ items[j].id \notin used
                              /\ \A m \in j..end : items[m].k \notin Boundary} IN
  IF mine = {} THEN name
  ELSE items[CHOOSE j \in mine : \A m \in mine : j <= m].id

\* decode_content: the parts before a call or a response are flushed; an id the
\* client left out is made from the name and the number of items so far, or
\* found by unmatched_call_id.
GeminiCallItem(items, b) ==
  Item("call", b.n, IF b.id = "" THEN b.name \o "#" \o ToString(Len(items)) ELSE b.id,
       <<>>, <<>>, b.at) @@ [name |-> b.name]
GeminiResultItem(items, b, skipUser) ==
  Item("output", b.n, IF b.id = "" THEN UnmatchedCall(items, b.name, skipUser) ELSE b.id,
       SelectSeq(b.in, LAMBDA p : p.t \in {"image", "docData", "ginline"}),
       Payloads(SelectSeq(b.in, LAMBDA p : p.t = "text")), {})
DecodeGemini(items, m) ==
  LET kind == m.role
      flushed(acc) == acc.items \o (IF acc.parts = <<>> THEN <<>> ELSE <<TurnItem(kind, acc.parts)>>)
      step(acc, b) ==
        CASE b.t = "call" ->
               [items |-> Append(flushed(acc), GeminiCallItem(flushed(acc), b)), parts |-> <<>>]
          [] b.t = "result" ->
               [items |-> Append(flushed(acc),
                                 GeminiResultItem(flushed(acc), b, kind = "user" /\ acc.parts # <<>>)),
                parts |-> <<>>]
          [] OTHER -> [acc EXCEPT !.parts = Append(@, Part(b.t, b.n, FALSE))] IN
  flushed(FoldLeft(step, [items |-> items, parts |-> <<>>], m.blocks))

-----------------------------------------------------------------------------
\* encode_parts and encode_document.
GeminiPart(t) ==
  CASE t \in {"docText", "imageUrl"} -> "degrade"
    [] t \in {"imageFile", "void", "docS3", "typed", "mfile", "video", "json"} -> "drop"
    [] OTHER -> "keep"

\* The FunctionOutput arm and function_response_inline: inline media of the types
\* a function response takes stays, other images and audio are dropped, and any
\* other part but text and JSON is not mentioned.
GeminiResultPart(t) ==
  CASE t \in {"image", "docData", "hint", "ginline"} -> "keep"
    [] t \in {"imageUrl", "imageFile", "void", "audio"} -> "drop"
    [] OTHER -> "omit"
GeminiOutput(s, item) ==
  LET bare == [item EXCEPT !.parts = [i \in DOMAIN @ |-> [@[i] EXCEPT !.bp = FALSE]]]
      media == SelectSeq(item.parts, LAMBDA p : GeminiResultPart(p.t) = "keep") IN
  Note(PushRole(s, "user", <<Block("result", item.id,
                                   FunctionOutputText(bare) \o Payloads(media), {})>>),
       AttrLoss(item, "err") \cup PartLosses(item.parts, GeminiResultPart, FALSE))

\* push_encoded_turn: a turn that comes to nothing is dropped, one with the last
\* role is joined to it.
GeminiTurn(s, role, item) ==
  LET blocks == EncodeParts(item.parts, GeminiPart, FALSE)
      lost == PartLosses(item.parts, GeminiPart, FALSE) IN
  IF blocks = <<>> THEN Note(s, lost \cup {Loss(0, "emptyTurn", "Drop")})
  ELSE Note(PushRole(s, role, blocks), lost)

\* encode.
GeminiItem(s, items, i) ==
  LET item == items[i]
      late == IF s.turns = <<>> /\ item.k = "system" THEN {} ELSE TurnLoss(item, "Degrade") IN
  CASE item.k \in {"system", "developer"} ->
         Note(PushRoleText(s, item), RoleLoss(item, FALSE) \cup late)
    [] item.k = "user" -> GeminiTurn(s, "user", item)
    [] item.k = "assistant" -> Note(GeminiTurn(s, "model", item), AttrLoss(item, "phase"))
    [] item.k \in {"call", "custom"} ->
         PushRole(s, "model", <<Block("call", item.id, <<item.n>>, Kept(item, "sig"))>>)
    [] item.k = "output" -> GeminiOutput(s, item)
    [] item.k = "reasoning" /\ "sum" \in item.at ->
         PushRole(s, "model", <<Block("thought", "", <<item.n>>, {})>>)
    [] item.k = "reasoning" ->
         Note(s, ItemLoss(item, "Drop") \cup {Loss(0, "reasoningOmitted", "Drop")})
    [] OTHER -> Note(s, ItemLoss(item, "Drop"))

\* Nothing but reasoning that had to be left out is still a request.
GeminiEncode(items) ==
  LET s == EncodeItems(items, LAMBDA acc, i : GeminiItem(acc, items, i))
      omittedOnly == /\ s.sys = <<>>
                     /\ Loss(0, "reasoningOmitted", "Drop") \in s.rep
                     /\ Loss(0, "emptyTurn", "Drop") \notin s.rep IN
  [ok |-> s.turns # <<>> \/ omittedOnly, s |-> s]
=============================================================================
