----------------------------- MODULE RequestMap -----------------------------
(***************************************************************************)
(* A request on its way from a client's wire to a vendor's: decode appends *)
(* the IR items of one message after the other (map/mod.rs decode), encode *)
(* turns the items into a body and a loss report (map/mod.rs encode).      *)
(***************************************************************************)
EXTENDS MapChat, MapResponses, MapGemini, MapConverse

CONSTANTS Clients,     \* wires a request may come from
          Vendors,     \* wires it may go to
          MaxWeight    \* bound: a plain message weighs 1, any other 2

AllWires == {"chat", "messages", "responses", "gemini", "converse"}
ASSUME WiresAssumption == Clients \subseteq AllWires /\ Vendors \subseteq AllWires
ASSUME WeightAssumption == MaxWeight \in Nat

VARIABLES src, dst,    \* the two wires
          msgs,        \* the client's messages, as sent
          items,       \* IrRequest.items
          phase,       \* "decode", then "done"
          out          \* encode's result: ok, and the body with its loss report
vars == <<src, dst, msgs, items, phase, out>>

-----------------------------------------------------------------------------
(* The messages a client can send.                                         *)

\* A block before it is given its payload numbers.
B(t) == [t |-> t, id |-> "", name |-> "", bp |-> FALSE, at |-> {}, in |-> <<>>]
Wrapped(t) == [B(t) EXCEPT !.bp = TRUE]
Call(id) == [B("call") EXCEPT !.id = id, !.name = "f"]
Result(id, in) == [B("result") EXCEPT !.id = id, !.name = "f", !.in = in]
Msg(role, blocks) == [role |-> role, blocks |-> blocks]

Sends(w) == CASE w = "chat" -> ChatSends
              [] w = "messages" -> MessagesSends
              [] w = "responses" -> ResponsesSends
              [] w = "gemini" -> GeminiSends
              [] OTHER -> ConverseSends
OpenAI == {"chat", "responses"}

\* Two ids that Messages' charset makes the same, and one that is what the
\* second of them is renamed to.  Gemini's clients may leave ids out.
Ids == {"c.1", "c_1"}
CallIds(w) == Ids \cup (IF w = "gemini" THEN {""} ELSE {})

\* What a tool result may hold beside its text.
ResultTypes(w) ==
  CASE w = "chat" -> {"image"}
    [] w = "messages" -> {"image", "docData", "docSheet", "docText", "docUrl", "typed"}
    [] w = "responses" -> {"image", "imageFile", "docData", "docSheet", "docFile"}
    [] w = "gemini" -> {"image", "docData", "ginline"}
    [] OTHER -> {"image", "docData", "docSheet", "docS3", "video", "json"}
ResultParts(w) ==
  {<<B("text")>>} \cup {<<B(t)>> : t \in ResultTypes(w)}
  \cup {<<B("text"), B(t)>> : t \in ResultTypes(w)}
  \cup (IF w \in OpenAI
          THEN {<<Wrapped("text")>>, <<B("text"), Wrapped("text")>>, <<Wrapped("image")>>,
                <<Wrapped("text"), B("image")>>}
          ELSE {})

ToolRole(w) == CASE w = "chat" -> "tool" [] w = "responses" -> "item" [] OTHER -> "user"
CallRole(w) == IF w = "responses" THEN "item" ELSE "assistant"

\* Everyday messages: text, calls and their answers.
Plain(w) ==
  {Msg("user", <<B("text")>>), Msg("assistant", <<B("text")>>)}
  \cup {Msg(CallRole(w), <<Call(id)>>) : id \in CallIds(w)}
  \cup {Msg(ToolRole(w), <<Result(id, <<B("text")>>)>>) : id \in CallIds(w)}

\* Parts an assistant turn may hold on each wire.
AssistantSends(w) ==
  CASE w \in OpenAI -> {"signed", "unsigned"}
    [] w = "messages" -> {"signed", "unsigned", "typed", "blank"}
    [] w = "gemini" -> {"signed", "unsigned", "image", "gtool", "void"}
    [] OTHER -> {"signed", "unsigned", "image", "docData", "video"}

Rich(w) ==
  {Msg("system", <<B("text")>>)}
  \* outside a tool result every wire treats a csv like a PDF
  \cup {Msg("user", <<B(t)>>) : t \in Sends(w) \ {"signed", "unsigned", "docSheet"}}
  \cup {Msg("user", <<B(t), B("text")>>) : t \in {"image", "docData"}}
  \cup {Msg("assistant", <<B(t)>>) : t \in AssistantSends(w)}
  \cup {Msg("assistant", <<B("text"), B(t)>>) : t \in AssistantSends(w)}
  \cup {Msg(ToolRole(w), <<Result("c_1", in)>>) : in \in ResultParts(w) \ {<<B("text")>>}}
  \cup (IF w \in OpenAI
          THEN {Msg("developer", <<B("text")>>), Msg("developer", <<Wrapped("text")>>),
                Msg("system", <<Wrapped("text")>>), Msg("system", <<B("text"), Wrapped("text")>>),
                Msg("user", <<Wrapped("text")>>),
                Msg("user", <<Wrapped("image"), B("text")>>),
                Msg(CallRole(w), <<[B("custom") EXCEPT !.id = "c_1"]>>)}
          ELSE {Msg("user", <<Result("c.1", <<B("text")>>), Result("c_1", <<B("text")>>), B("text")>>),
                Msg("user", <<B("text"), Result("c_1", <<B("text")>>)>>)})
  \cup (IF w = "responses" THEN {}
        ELSE {Msg("assistant", <<B("text"), Call("c_1")>>),
              Msg("assistant", <<Call("c.1"), Call("c_1")>>)})
  \cup (CASE w = "responses" ->
               {Msg("item", <<B("reasoning")>>), Msg("item", <<B("hosted")>>), Msg("item", <<B("unknown")>>),
                Msg("item", <<[B("reasoning") EXCEPT !.at = {"sum"}]>>),
                Msg("item", <<Call("c_1_2")>>),
                Msg("assistant", <<[B("text") EXCEPT !.at = {"phase"}]>>),
                Msg("assistant", <<[B("signed") EXCEPT !.at = {"phase"}]>>)}
          [] w = "gemini" ->
               {Msg("assistant", <<[Call("") EXCEPT !.at = {"sig"}]>>),
                Msg("assistant", <<Call(""), Call("")>>),
                Msg("user", <<Result("", <<B("text")>>), Result("", <<B("text")>>)>>),
                Msg("user", <<B("text"), Result("", <<B("text")>>), Result("", <<B("text")>>)>>)}
          [] w = "converse" ->
               {Msg("system", <<B(t)>>) : t \in {"cache", "guard", "toolChange"}}
               \cup {Msg("user", <<[Result("c_1", <<B("text")>>) EXCEPT !.at = {"err"}]>>)}
          [] w = "messages" ->
               {Msg("user", <<[Result("c_1", <<B("text")>>) EXCEPT !.at = {"err"}]>>)}
          [] OTHER -> {})

Weight(w, m) == IF m \in Plain(w) THEN 1 ELSE 2

\* Payload numbers in the order of sending.
Number(m, k) ==
  [m EXCEPT !.blocks = [j \in DOMAIN @ |->
     LET n == 10 * k + 3 * (j - 1) + 1
         b == [t |-> @[j].t, id |-> @[j].id, name |-> @[j].name, bp |-> @[j].bp, at |-> @[j].at] IN
     b @@ [n |-> n, in |-> [i \in DOMAIN @[j].in |-> Part(@[j].in[i].t, n + i, @[j].in[i].bp)]]]]

Total(w) == FoldLeft(LAMBDA a, m : a + m.w, 0, w)

-----------------------------------------------------------------------------
Init == /\ src \in Clients /\ dst \in Vendors
        /\ msgs = <<>> /\ items = <<>> /\ phase = "decode"
        /\ out = [ok |-> TRUE, s |-> Empty]

\* decode: the IR items of one message.
DecodeMessage(m) ==
  CASE src = "chat" -> items \o DecodeChat(m)
    [] src = "messages" -> items \o DecodeMessages(m)
    [] src = "responses" -> items \o DecodeResponses(m)
    [] src = "gemini" -> IF m.role = "system"
                           THEN items \o <<RoleItem("system", <<Part("text", m.blocks[1].n, FALSE)>>,
                                                <<m.blocks[1].n>>)>>
                           ELSE DecodeGemini(items, m)
    [] OTHER -> items \o DecodeConverse(m)

\* Where the wire has a system field, the system text comes first.
SystemFirst(m) == m.role = "system" /\ m.blocks[1].t # "toolChange" /\ src \notin OpenAI => msgs = <<>>

Receive ==
  /\ phase = "decode"
  /\ \E m \in Plain(src) \cup Rich(src) :
       /\ Total(msgs) + Weight(src, m) <= MaxWeight
       /\ SystemFirst(m)
       /\ LET sent == Number(m, Len(msgs) + 1) IN
          /\ msgs' = Append(msgs, sent @@ [w |-> Weight(src, m)])
          /\ items' = DecodeMessage(sent)
  /\ UNCHANGED <<src, dst, phase, out>>

\* encode: dispatch on the vendor's wire.
EncodeRequest(w, list) ==
  CASE w = "chat" -> ChatEncode(list)
    [] w = "messages" -> MessagesEncode(list)
    [] w = "responses" -> ResponsesEncode(list)
    [] w = "gemini" -> GeminiEncode(list)
    [] OTHER -> ConverseEncode(list)

Encode ==
  /\ phase = "decode" /\ msgs # <<>>
  /\ phase' = "done"
  /\ out' = EncodeRequest(dst, items)
  /\ UNCHANGED <<src, dst, msgs, items>>

Next == Receive \/ Encode
Spec == Init /\ [][Next]_vars

-----------------------------------------------------------------------------
(* Properties.                                                             *)

Sent == phase = "done" /\ out.ok
Turns == out.s.turns
\* The payloads of the body, in order: turns first, then the system blocks.
TurnPayloads == Flat([i \in DOMAIN Turns |->
                        Flat([j \in DOMAIN Turns[i].blocks |-> Turns[i].blocks[j].ns])])
SysPayloads == Flat([i \in DOMAIN out.s.sys |-> out.s.sys[i].ns])
Occurs(n, seq) == Cardinality({i \in DOMAIN seq : seq[i] = n})
BlocksOf(turn) == {turn.blocks[j] : j \in DOMAIN turn.blocks}
BodyBlocks == UNION {BlocksOf(Turns[i]) : i \in DOMAIN Turns}
              \cup {out.s.sys[i] : i \in DOMAIN out.s.sys}
BodyAttrs == UNION {b.at : b \in BodyBlocks}

\* What the client sent: payload, type, and the role or "result" it was sent in.
SentBlocks == UNION {{[b |-> msgs[i].blocks[j], role |-> msgs[i].role, i |-> i,
                       alone |-> Len(msgs[i].blocks) = 1] :
                        j \in DOMAIN msgs[i].blocks} : i \in DOMAIN msgs}
SentPayloads ==
  UNION {IF s.b.t = "result"
           THEN {[n |-> s.b.in[k].n, t |-> s.b.in[k].t, role |-> "result", bp |-> s.b.in[k].bp,
                  alone |-> Len(s.b.in) = 1] : k \in DOMAIN s.b.in}
           ELSE {[n |-> s.b.n, t |-> s.b.t, role |-> s.role, bp |-> s.b.bp, alone |-> s.alone]}
         : s \in SentBlocks}
SentAttrs == {<<p.n, "bp">> : p \in {q \in SentPayloads : q.bp}}
             \cup UNION {{<<s.b.n, a>> : a \in s.b.at \ {"sum"}} : s \in SentBlocks}

Reported(n, whats) == \E l \in out.s.rep : l.n = n /\ l.what \in whats /\ l.act \in {"Drop", "Degrade"}

\* The only content that is left out without a loss event: white space; the
\* marked text of a Responses role that is one part (responses.rs:306); in a
\* tool result, a part that is neither media nor document for Chat, and for Gemini
\* a raw block or a document that is not inline or not a PDF or plain text; and
\* for Converse reasoning that has no summary.
MarkedRole(p) == p.role \in {"system", "developer"} /\ p.bp
Unreported(p) ==
  \/ p.t = "blank"
  \/ src = "responses" /\ MarkedRole(p) /\ p.alone
  \/ dst = "chat" /\ p.role = "result" /\ p.t = "typed"
  \/ dst = "gemini" /\ p.role = "result" /\ p.t \in (Documents \ {"docData"}) \cup {"typed", "video"}
  \/ dst = "converse" /\ p.t = "reasoning"

\* Every payload of the client's messages is in the vendor's body exactly once,
\* or the loss report names it: what decode pulls apart and encode joins, moves
\* or turns into text is neither lost in silence nor sent twice.
ContentCarriedOrReported ==
  Sent => \A p \in SentPayloads :
            \/ Occurs(p.n, TurnPayloads) + Occurs(p.n, SysPayloads) = 1
            \/ Occurs(p.n, TurnPayloads) + Occurs(p.n, SysPayloads) = 0
               /\ (Reported(p.n, {"part", "item"}) \/ Unreported(p))

\* A cache breakpoint, an assistant phase, a failed tool's mark and a thought
\* signature are in the body or in the loss report; Converse alone leaves a
\* signature out without a word.
MarksCarriedOrReported ==
  Sent => \A a \in SentAttrs :
            \/ a \in BodyAttrs
            \/ Reported(a[1], {"part", "item", a[2]})
            \/ dst = "converse" /\ a[2] = "sig"

\* Payloads of different messages keep their order in the vendor's turns,
\* whatever was joined, absorbed or moved on the way.
OrderKept ==
  Sent => \A i, j \in DOMAIN TurnPayloads :
            i < j => TurnPayloads[i] \div 10 <= TurnPayloads[j] \div 10

\* No words are put in the other side's mouth: what the user and the tools said
\* is in user turns, what the assistant said in assistant turns, unless the
\* report says the block changed turns.
UserRoles == {"user", "tool", "item"}
AssistantRoles == {"assistant", "model", "item"}
RoleKept ==
  Sent => \A p \in SentPayloads : \A i \in DOMAIN Turns :
            (\E b \in BlocksOf(Turns[i]) : \E k \in DOMAIN b.ns : b.ns[k] = p.n) =>
              /\ p.role \in {"user", "result"} => Turns[i].role \in UserRoles
              /\ p.role = "assistant" => \/ Turns[i].role \in AssistantRoles
                                         \/ Reported(p.n, {"turn"})

\* Gemini and Converse reject two turns of one role in a row and turns without
\* content: the encoders join and drop turns so that neither reaches them.
\* Messages rejects turns without content.
TurnsAcceptable ==
  Sent => /\ dst \in {"gemini", "converse"} =>
               \A i \in 1..(Len(Turns) - 1) : Turns[i].role # Turns[i + 1].role \/ Turns[i].role = "system"
          /\ dst \in {"gemini", "converse", "messages"} =>
               \A i \in DOMAIN Turns : Turns[i].blocks # <<>>

\* The call a result answers, as the client means it: the latest call before it
\* with its id; without ids, the call at the same place among the calls of the
\* model turn (one or more assistant messages) that the message answers.
SentCalls == {s \in SentBlocks : s.b.t \in {"call", "custom"}}
InTurnBefore(s, i) == s.i < i /\ \A m \in s.i..(i - 1) : msgs[m].role = "assistant"
TurnCalls(i) == {c \in SentCalls : InTurnBefore(c, i)}
PlaceAmong(s, set) == Cardinality({r \in set : r.b.n < s.b.n})
Meant(res, call) ==
  IF res.b.id # ""
    THEN call.b.id = res.b.id /\ call.b.n < res.b.n
         /\ ~\E c \in SentCalls : c.b.id = res.b.id /\ c.b.n < res.b.n /\ c.b.n > call.b.n
    ELSE /\ call \in TurnCalls(res.i)
         /\ \A c \in TurnCalls(res.i) : c.b.id = ""
         /\ PlaceAmong(call, TurnCalls(res.i))
              = PlaceAmong(res, {s \in SentBlocks : s.i = res.i /\ s.b.t = "result"})
WireId(n) == LET b == CHOOSE x \in BodyBlocks : \E k \in DOMAIN x.ns : x.ns[k] = n IN b.id

\* A result reaches the vendor under the id of the call it answers.
ResultsAnswerTheirCalls ==
  Sent => \A res \in {s \in SentBlocks : s.b.t = "result"}, call \in SentCalls :
            Meant(res, call) /\ Occurs(res.b.n + 1, TurnPayloads) = 1
              => WireId(res.b.n + 1) = WireId(call.b.n)

\* Calls the client tells apart have different ids at the vendor, also where
\* the vendor's charset makes the ids the same.
CallIdsDistinct ==
  Sent => \A c, d \in SentCalls :
            c.b.id # "" /\ d.b.id # "" /\ c.b.id # d.b.id => WireId(c.b.n) # WireId(d.b.n)
=============================================================================
