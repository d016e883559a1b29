---------------------------- MODULE MapResponses ----------------------------
(* OpenAI Responses requests: map/responses.rs.                            *)
EXTENDS RequestIR

\* decode_part and decode_image.
ResponsesSends == {"text", "blank", "imageUrl", "imageFile", "image", "void", "docData", "docSheet",
                   "docUrl", "docFile", "audio", "signed", "unsigned", "typed"}

\* decode_function_output: like a Messages tool result.
ResponsesResult(b) ==
  LET inner == SelectSeq(b.in, LAMBDA p : p.t # "blank" \/ p.bp) IN
  IF \E i \in DOMAIN inner : inner[i].t # "text" \/ inner[i].bp
    THEN Item("output", b.n, b.id, inner, <<>>, {})
    ELSE Item("output", b.n, b.id, <<>>, Payloads(inner), {})

\* decode_input_item and decode_message_item: one IR item per input item.  The
\* text of a role is that of its bare parts: parts_text sees no text behind a
\* breakpoint.
DecodeResponses(m) ==
  LET b == m.blocks[1]
      irs == [i \in DOMAIN m.blocks |-> Part(m.blocks[i].t, m.blocks[i].n, m.blocks[i].bp)] IN
  CASE m.role = "item" /\ b.t = "result" -> <<ResponsesResult(b)>>
    [] m.role = "item" -> <<Item(b.t, b.n, b.id, <<>>, <<>>, b.at)>>
    [] m.role = "assistant" ->
         <<Item("assistant", b.n, "", irs, <<>>, b.at)>>
    [] m.role \in {"system", "developer"} ->
         <<RoleItem(m.role, irs, Payloads(SelectSeq(irs, LAMBDA p : p.t = "text" /\ ~p.bp)))>>
    [] OTHER -> <<TurnItem(m.role, irs)>>

-----------------------------------------------------------------------------
\* encode_parts and encode_document.
ResponsesPart(t) ==
  CASE t = "docText" -> "degrade"
    [] t \in {"void", "signed", "unsigned", "docS3"} -> "drop"
    [] t \in Raws \ {"typed", "hint"} -> "drop"
    [] OTHER -> "keep"

\* encode_function_output: the parts of a tool result.
ResponsesResultPart(t) ==
  CASE t \in {"text", "image", "imageUrl", "imageFile", "docData", "docSheet", "docUrl", "docFile",
              "json", "hint", "ginline"} -> "keep"
    [] t = "docText" -> "degrade"
    [] OTHER -> "drop"
ResponsesOutput(s, item) ==
  LET ordered == HasBareText(item.parts)
      \* a wrapped part goes through encode_parts, JSON aside
      fate(p) == CASE p.t = "json" -> IF ordered THEN "keep" ELSE "omit"
                   [] p.bp -> ResponsesPart(p.t)
                   [] OTHER -> ResponsesResultPart(p.t)
      lead == IF ordered THEN <<>> ELSE FunctionOutputText(item)
      kept == SelectSeq(item.parts, LAMBDA p : Survives(fate(p))) IN
  Note(PushTurn(s, "item", <<Block("result", item.id, lead \o Payloads(kept), Breakpoints(kept))>>),
       AttrLoss(item, "err")
       \cup UNION {PartLoss(item.parts[i], fate(item.parts[i]), TRUE) : i \in DOMAIN item.parts})

\* peel_signed_thinking: each signed thought becomes a reasoning item ahead of
\* its message; nothing else is left of a message that was only thoughts.
ResponsesAssistant(s, item) ==
  LET thoughts == SelectSeq(item.parts, LAMBDA p : p.t = "signed" /\ ~p.bp)
      rest == SelectSeq(item.parts, LAMBDA p : ~(p.t = "signed" /\ ~p.bp))
      peeled == FoldLeft(LAMBDA acc, p : PushTurn(acc, "item", <<Block("reasoning", "", <<p.n>>, {})>>),
                         s, thoughts)
      message == Block("message", "", <<>>, Kept(item, "phase")) IN
  IF rest # <<>> \/ thoughts = <<>>
    THEN Note(PushTurn(peeled, "assistant", <<message>> \o EncodeParts(rest, ResponsesPart, TRUE)),
              PartLosses(rest, ResponsesPart, TRUE))
    ELSE Note(peeled, AttrLoss(item, "phase"))

\* encode_items: one input item per IR item; roles without a breakpoint become
\* the instructions.
ResponsesItem(s, items, i) ==
  LET item == items[i]
      late == IF s.turns = <<>> /\ item.k = "system" THEN {} ELSE TurnLoss(item, "Degrade") IN
  CASE item.k \in {"system", "developer"} /\ HasBreakpoint(item.parts) ->
         PushTurn(s, item.k, <<RoleBlock(item, TRUE)>>)
    [] item.k \in {"system", "developer"} ->
         Note([s EXCEPT !.sys = Append(@, RoleBlock(item, TRUE))], late)
    [] item.k = "user" ->
         Note(PushTurn(s, "user", EncodeParts(item.parts, ResponsesPart, TRUE)),
              PartLosses(item.parts, ResponsesPart, TRUE))
    [] item.k = "assistant" -> ResponsesAssistant(s, item)
    [] item.k \in {"call", "custom"} ->
         Note(PushTurn(s, "item", <<Block(item.k, item.id, <<item.n>>, {})>>), AttrLoss(item, "sig"))
    [] item.k = "output" -> ResponsesOutput(s, item)
    [] item.k \in {"reasoning", "hosted", "unknown"} ->
         PushTurn(s, "item", <<Block(item.k, "", <<item.n>>, {})>>)
    [] OTHER -> Note(s, ItemLoss(item, "Drop"))   \* cache point, guard, tool change

ResponsesEncode(items) ==
  LET s == EncodeItems(items, LAMBDA acc, i : ResponsesItem(acc, items, i)) IN
  [ok |-> s.turns # <<>>, s |-> s]
=============================================================================
