------------------------------- MODULE MapChat -------------------------------
(* Chat Completions requests: map/chat.rs.                                 *)
EXTENDS RequestIR

CallKinds == {"call", "custom"}

\* decode_part: a part of a type it does not know, without text, decodes to
\* nothing; everything else is one IrPart, wrapped if it has a breakpoint.
ChatSends == {"text", "blank", "imageUrl", "image", "void", "docData", "docSheet", "docFile", "audio",
              "signed", "unsigned"}

\* decode_message.
DecodeChat(m) ==
  LET calls == SelectSeq(m.blocks, LAMBDA b : b.t \in CallKinds)
      parts == SelectSeq(m.blocks, LAMBDA b : b.t \notin CallKinds)
      irs == [i \in DOMAIN parts |-> Part(parts[i].t, parts[i].n, parts[i].bp)]
      Calls == [i \in DOMAIN calls |->
                  Item(calls[i].t, calls[i].n, calls[i].id, <<>>, <<>>, {})]
      result == parts[1]
      inner == result.in IN
  CASE m.role \in {"system", "developer"} -> <<RoleItem(m.role, irs, Payloads(irs))>>
    [] m.role = "user" -> <<TurnItem("user", irs)>>
    [] m.role = "assistant" ->
         (IF parts # <<>> \/ calls = <<>> THEN <<TurnItem("assistant", irs)>> ELSE <<>>) \o Calls
    [] OTHER ->   \* "tool": with a breakpoint the parts stay, else the text is joined
         LET images == SelectSeq(inner, LAMBDA p : p.t \in {"image", "imageUrl"})
             texts == SelectSeq(inner, LAMBDA p : p.t = "text") IN
         <<IF HasBreakpoint(inner)
             THEN Item("output", result.n, result.id,
                       SelectSeq(inner, LAMBDA p : p.t \in {"text", "image", "imageUrl"}), <<>>, {})
             ELSE Item("output", result.n, result.id, images, Payloads(texts), {})>>

\* encode_parts and encode_document.
ChatPart(t) ==
  CASE t = "docText" -> "degrade"
    [] t \in {"imageFile", "void", "signed", "unsigned", "docUrl", "docS3"} -> "drop"
    [] t \in Raws \ {"hint"} -> "drop"
    [] OTHER -> "keep"

\* The FunctionOutput arm of encode_messages: an image, a document, a video or a
\* search result has no slot; a part of another type is not mentioned.
ChatResultPart(t) ==
  CASE t \in {"text", "json"} -> "keep"
    [] t \in {"image", "imageUrl", "imageFile", "void", "hint", "ginline", "video"} -> "drop"
    [] t \in Documents -> "drop"
    [] OTHER -> "omit"
ChatResultText(item) ==
  LET texts == SelectSeq(item.parts, LAMBDA p : p.t = "text")
      both == SelectSeq(item.parts, LAMBDA p : p.t \in {"text", "json"}) IN
  IF ~HasBreakpoint(item.parts) \/ texts = <<>> THEN FunctionOutputText(item)
  ELSE IF \E i \in DOMAIN item.parts : item.parts[i].t = "json" THEN Payloads(both)
  ELSE Payloads(texts)
ChatOutput(s, item) ==
  LET texts == SelectSeq(item.parts, LAMBDA p : p.t = "text") IN
  Note(PushTurn(s, "tool", <<Block("result", item.id, ChatResultText(item), Breakpoints(texts))>>),
       AttrLoss(item, "err")
       \cup UNION {PartLoss(item.parts[i], ChatResultPart(item.parts[i].t),
                            item.parts[i].t = "text") : i \in DOMAIN item.parts})

\* take_function_calls.
ChatCalls(calls) == [i \in DOMAIN calls |-> Block(calls[i].k, calls[i].id, <<calls[i].n>>, {})]
ChatCallLoss(calls) == UNION {AttrLoss(calls[i], "sig") : i \in DOMAIN calls}

\* encode_messages: one message per item; an assistant message and a lone call
\* take the calls behind them.
ChatItem(s, items, i) ==
  LET item == items[i]
      run == RunAfter(items, i, CallKinds)
      parts == EncodeParts(item.parts, ChatPart, TRUE)
      turn(role) == Note(PushTurn(s, role, parts), PartLosses(item.parts, ChatPart, TRUE)) IN
  CASE item.k \in {"system", "developer"} ->
         PushTurn(s, item.k, <<RoleBlock(item, TRUE)>>)
    [] item.k = "user" -> turn("user")
    [] item.k = "assistant" ->
         Note(JoinLast(turn("assistant"), ChatCalls(run)), AttrLoss(item, "phase") \cup ChatCallLoss(run))
    [] item.k \in CallKinds /\ ~Absorbed(items, i, CallKinds, "assistant")
                            /\ (i = 1 \/ items[i - 1].k \notin CallKinds) ->
         Note(PushTurn(s, "assistant", ChatCalls(<<item>> \o run)), ChatCallLoss(<<item>> \o run))
    [] item.k \in CallKinds -> s
    [] item.k = "output" -> ChatOutput(s, item)
    [] item.k = "reasoning" -> Note(s, ItemLoss(item, "Degrade"))
    [] OTHER -> Note(s, ItemLoss(item, "Drop"))   \* cache point, guard, hosted, unknown

ChatEncode(items) ==
  LET s == EncodeItems(items, LAMBDA acc, i : ChatItem(acc, items, i)) IN
  [ok |-> s.turns # <<>> \/ ~Dropped(s), s |-> s]
=============================================================================
