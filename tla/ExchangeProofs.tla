--------------------------- MODULE ExchangeProofs ---------------------------
(***************************************************************************)
(* What the request side of Exchange promises, for every request a decoder *)
(* can produce: whatever fields are set together, however many tools there *)
(* are, and for every value of TokenCap, Limits and MaxTools.              *)
(*                                                                         *)
(* The state machine adds little: `sent` is what EncodeBody makes of       *)
(* `request` as long as the stage is "mapped" (ExchangeInv).  The work is  *)
(* in EncodeBody: a lemma per wire says what its encoder may leave out     *)
(* without a record, and FatesAreFollowed and WordsOfTheBody say that      *)
(* stripping, merging and forbidding fields afterwards lose nothing more.  *)
(***************************************************************************)
EXTENDS Exchange, FiniteSetTheorems, FunctionTheorems, SequenceTheorems, TLAPS

-----------------------------------------------------------------------------
(* Requests.                                                               *)

\* A request has the fields of a request and no other.
IsAsk(x) == x = Ask(x.word, x.num, x.model, x.tools, x.shape, x.profile)

\* Every request of the model is one that the client's decoder can produce.
LEMMA RequestsAreAsked ==
  ASSUME NEW c, NEW w, NEW x \in Requests(c, w)
  PROVE  IsAsk(x) /\ Decoded(c, x)
<1>1. Decoded(c, x)
  BY DEF Requests
<1>2. CASE x \in FieldRequests(c, w)
  BY <1>1, <1>2 DEF FieldRequests, Ask, IsAsk
<1>3. CASE x \in ToolRequests(c)
  <2>1. PICK word, tools, policy :
          x = Ask(word, Nothing, "plain", tools, {"user"}, ToolProfile(policy))
    BY <1>3 DEF ToolRequests
  <2> QED
    BY <1>1, <2>1 DEF Ask, IsAsk
<1>4. CASE x \in ProfileRequests(c)
  BY <1>1, <1>4 DEF ProfileRequests, Ask, IsAsk
<1>5. CASE x \in CacheRequests(c)
  BY <1>1, <1>5 DEF CacheRequests, Ask, IsAsk
<1> QED
  BY <1>2, <1>3, <1>4, <1>5 DEF Requests

\* strip_or_refuse_store takes `store` away at most, and touches nothing else.
LEMMA OnlyStoreIsStripped ==
  ASSUME NEW c, NEW r, IsAsk(r), Decoded(c, r)
  PROVE  LET s == WithoutStore(r) IN
         /\ Stripped(r) \subseteq {"store"}
         /\ DOMAIN s.word = DOMAIN r.word \ Stripped(r)
         /\ \A f \in DOMAIN s.word : s.word[f] = r.word[f]
         /\ s.num = r.num /\ s.model = r.model /\ s.tools = r.tools
         /\ s.shape = r.shape /\ s.profile = r.profile
BY DEF IsAsk, Ask, WithoutStore, Stripped

\* What is left is still a request the client could have made.
LEMMA StrippedIsDecoded ==
  ASSUME NEW c, NEW r, IsAsk(r), Decoded(c, r)
  PROVE  Decoded(c, WithoutStore(r))
<1> DEFINE s == WithoutStore(r)
<1>1. /\ Stripped(r) \subseteq {"store"}
      /\ DOMAIN s.word = DOMAIN r.word \ Stripped(r)
      /\ \A f \in DOMAIN s.word : s.word[f] = r.word[f]
      /\ s.num = r.num /\ s.tools = r.tools
  BY OnlyStoreIsStripped
<1>2. Decodes(c, s)
  <2>1. \A f : f # "store" => (IsSet(s, f) <=> IsSet(r, f))
    BY <1>1 DEF IsSet
  <2>2. \A f, v : f # "store" => (Says(s, f, v) <=> Says(r, f, v))
    BY <1>1 DEF Says
  <2> HIDE DEF s
  <2> QED
    BY <2>1, <2>2 DEF Decoded, Decodes
<1> QED
  BY <1>1, <1>2 DEF Decoded

\* The thinking budget of encode_thinking fits in a u32, wherever it comes from.
LEMMA BudgetIsANumber ==
  ASSUME NEW c, NEW r, Decoded(c, r)
  PROVE  Budget(r) \in 0..TokenCap
BY TokenCapAssumption DEF Decoded, Budget, IsSet, EffortBudget, ThinkingBudget, Numbers

\* No field has the value that stands for "not written".
LEMMA WordsAreWritten ==
  ASSUME NEW f, NEW v \in Words(f)
  PROVE  v # ""
BY DEF Words

-----------------------------------------------------------------------------
(* Words.                                                                  *)

\* Field f is in the loss report of body b.
Reports(b, f) == \E e \in b.rep : e[1] = f

\* encode does what the encoder of the wire decided: a loss is recorded, and a value
\* that is written stays in the body unless the profile writes its own over it
\* (merge_extra_body) or takes it out with a record (apply_forbidden_fields).
LEMMA FatesAreFollowed ==
  ASSUME NEW w, NEW c, NEW r, IsAsk(r), Decoded(c, r), NEW f
  PROVE  LET s == WithoutStore(r)
             b == EncodeBody(w, c, r)
             fate == FateOn(w, c, s, f) IN
         /\ f \in Stripped(r) => Reports(b, f)
         /\ f \in DOMAIN s.word \cup DOMAIN s.num /\ fate.act # "" => Reports(b, f)
         /\ f \in DOMAIN s.word /\ fate.to # "" =>
              \/ f \in DOMAIN b.word /\ b.word[f] \in {fate.to, "extra"}
              \/ Reports(b, f)
<1> DEFINE s == WithoutStore(r)
           b == EncodeBody(w, c, r)
           fates == [g \in DOMAIN s.word \cup DOMAIN s.num |-> FateOn(w, c, s, g)]
           word == MergeExtraBody(s, SentWords(w, s, fates))
           gone == Forbidden(w, s, word)
<1>1. /\ b.word = [g \in DOMAIN word \ gone |-> word[g]]
      /\ b.rep = {<<g, fates[g].act>> : g \in {h \in DOMAIN fates : fates[h].act # ""}}
                 \cup {<<g, "Drop">> : g \in Stripped(r) \cup gone}
  BY DEF EncodeBody
<1> HIDE DEF b
<1>2. f \in Stripped(r) \cup gone => Reports(b, f)
  <2> HIDE DEF fates, word, gone
  <2> SUFFICES ASSUME f \in Stripped(r) \cup gone PROVE <<f, "Drop">> \in b.rep
    BY DEF Reports
  <2> QED
    BY <1>1
<1>3. ASSUME f \in DOMAIN s.word \cup DOMAIN s.num, FateOn(w, c, s, f).act # ""
      PROVE  Reports(b, f)
  <2>1. f \in DOMAIN fates /\ fates[f] = FateOn(w, c, s, f)
    BY <1>3
  <2> HIDE DEF fates, word, gone
  <2>2. <<f, fates[f].act>> \in b.rep
    BY <1>1, <1>3, <2>1
  <2> QED
    BY <2>2 DEF Reports
<1>4. ASSUME f \in DOMAIN s.word, FateOn(w, c, s, f).to # ""
      PROVE  \/ f \in DOMAIN b.word /\ b.word[f] \in {FateOn(w, c, s, f).to, "extra"}
             \/ Reports(b, f)
  <2> DEFINE to == FateOn(w, c, s, f).to
  <2>2. f \in DOMAIN fates /\ fates[f].to = to
    BY <1>4
  <2>3. f \in DOMAIN SentWords(w, s, fates) /\ SentWords(w, s, fates)[f] = to
    <3> HIDE DEF fates, s, to
    <3> QED
      BY <1>4, <2>2 DEF SentWords, to
  <2>4. f \in DOMAIN word /\ word[f] \in {to, "extra"}
    <3> HIDE DEF fates, s, to
    <3> QED
      BY <2>3 DEF MergeExtraBody
  <2> HIDE DEF fates, s, word, gone
  <2> QED
    BY <1>1, <1>2, <2>4
<1> HIDE DEF s, fates, word, gone
<1>5. /\ f \in Stripped(r) => Reports(b, f)
      /\ f \in DOMAIN s.word \cup DOMAIN s.num /\ FateOn(w, c, s, f).act # "" => Reports(b, f)
      /\ f \in DOMAIN s.word /\ FateOn(w, c, s, f).to # "" =>
              \/ f \in DOMAIN b.word /\ b.word[f] \in {FateOn(w, c, s, f).to, "extra"}
              \/ Reports(b, f)
  BY <1>2, <1>3, <1>4
<1> QED
  BY <1>5 DEF s, b

\* There is no schema to annotate, or its loss is recorded.
SchemaLost(r, fate) == fate.act # "" \/ ~IsSet(r, "json_schema")

\* logprobs: false is left out, or top_logprobs turns it into true.
FalseLogprobs(r, f, fate) ==
  /\ f = "logprobs" /\ r.word[f] = "false"
  /\ IF IsSet(r, "top_logprobs") THEN fate.to = "true" ELSE TRUE

\* Chat changes or leaves out a field without a record only if it says logprobs: false,
\* is the format of an audio answer nobody asked for, or is a note to a lost schema.
LEMMA ChatKeepsWords ==
  ASSUME NEW c, NEW r, Decoded(c, r), NEW f \in DOMAIN r.word
  PROVE  LET fate == ChatFate(r.model, r, f) IN
         \/ fate.act # "" \/ fate.to = r.word[f]
         \/ FalseLogprobs(r, f, fate)
         \/ f = "audio_format" /\ ~ChatAudio(r)
         \/ f \in SchemaNotes /\ SchemaLost(r, ChatFate(r.model, r, "json_schema"))
<1>1. f = "logprobs" => r.word[f] \in {"true", "false"}
  BY DEF Decoded, Words
<1> QED
  BY <1>1 DEF ChatFate, KeptStop, LogprobsFate, Says, OfficialJsonSchema, SchemaNotes,
              KeptModalities, SchemaLost, FalseLogprobs, Keep, NoSlot, Lossy, Unsaid, Fate

\* Responses leaves only the notes to a lost schema without a record.
LEMMA ResponsesKeepsWords ==
  ASSUME NEW r, NEW f \in DOMAIN r.word
  PROVE  LET fate == ResponsesFate(r.model, r, f) IN
         \/ fate.act # "" \/ fate.to = r.word[f]
         \/ f \in SchemaNotes /\ SchemaLost(r, ResponsesFate(r.model, r, "json_schema"))
BY DEF ResponsesFate, OfficialJsonSchema, SchemaNotes, SchemaLost, KeepIf, Keep, NoSlot, Unsaid,
       Fate

\* Gemini: logprobs: false, and the schema's name, which has no slot.
LEMMA GeminiKeepsWords ==
  ASSUME NEW c, NEW r, Decoded(c, r), NEW f \in DOMAIN r.word
  PROVE  LET fate == GeminiFate(r, f) IN
         \/ fate.act # "" \/ fate.to = r.word[f]
         \/ FalseLogprobs(r, f, fate)
         \/ f = "json_schema_name"
<1>1. f = "logprobs" => r.word[f] \in {"true", "false"}
  BY DEF Decoded, Words
<1>2. f \notin Numbers
  BY DEF Decoded
<1>3. f # "max_reasoning_tokens" /\ f # "thinking_budget"
  BY <1>2 DEF Numbers
<1>4. CASE f \in {"logprobs", "json_schema", "output_modalities"}
  BY <1>1, <1>4 DEF GeminiFate, LogprobsFate, FalseLogprobs, Says, KeptModalities, KeepIf, Keep,
                    NoSlot, Lossy, Unsaid, Fate
<1>5. CASE f \notin {"logprobs", "json_schema", "output_modalities"}
  BY <1>3, <1>5 DEF GeminiFate, KeptStop, GeminiThinkingLevel, GeminiServiceTier, Keep, NoSlot,
                    Lossy, Fate
<1> QED
  BY <1>4, <1>5

\* Converse: the choice of a tool when there is none to choose from.
LEMMA ConverseKeepsWords ==
  ASSUME NEW c, NEW r, Decoded(c, r), NEW f \in DOMAIN r.word, NEW tools
  PROVE  LET fate == ConverseFate(r, f, tools) IN
         \/ fate.act # "" \/ fate.to = r.word[f]
         \/ f = "tool_choice" /\ tools = {}
<1>1. f = "json_object" => ~IsSet(r, "json_schema")
  BY DEF Decoded, Decodes, IsSet
<1> QED
  BY <1>1 DEF ConverseFate, KeptStop, ConverseEffort, ConverseServiceTier, ConverseToolChoice,
              KeepIf, Keep, NoSlot, Lossy, Unsaid, Fate

\* Messages: parallel_tool_calls: true, which is its default, and the name of a
\* lost schema.
LEMMA MessagesKeepsWords ==
  ASSUME NEW c, NEW r, Decoded(c, r), NEW f \in DOMAIN r.word, NEW shape, NEW same
  PROVE  LET fate == MessagesFate(r.model, r, f, shape, same) IN
         \/ fate.act # "" \/ fate.to = r.word[f]
         \/ f = "parallel_tool_calls" /\ r.word[f] = "true"
         \/ f = "json_schema_name"
              /\ SchemaLost(r, MessagesFate(r.model, r, "json_schema", shape, same))
<1>1. f \notin Numbers
  BY DEF Decoded
<1> QED
  BY <1>1 DEF MessagesFate, ThinkingFieldFate, ThinkingFields, Numbers, KeptStop,
              MessagesToolChoice, Parallel, Says, MessagesServiceTier, CacheFate, ObjectSchema, SchemaLost,
              KeepIf, Keep, NoSlot, Lossy, Unsaid, Fate

\* push_*: a tool that is not refused becomes a prepared one or a loss; on Converse
\* it is always the former.
LEMMA PushedOrTold ==
  ASSUME NEW w, NEW kind, NEW policy, NEW i
  PROVE  LET one == PushTool(w, kind, policy, i) IN
         /\ one.n \in 0..2
         /\ ~one.refused /\ one.n = 0 => w # "converse" /\ <<i, "Drop">> \in one.rep
BY DEF PushTool, PushNamespace, PushHosted, PushConverseTool, PushCustomTool, PushUnknown,
       PushFunction, AsItIs, Outcome, Refusal

\* prepare_tools: the same of the whole list, of any length.
LEMMA PreparedOrTold ==
  ASSUME NEW w, NEW tools, NEW policy, ~PrepareTools(w, tools, policy).refused,
         NEW i \in DOMAIN tools
  PROVE  LET ready == PrepareTools(w, tools, policy) IN
         \/ \E t \in ready.list : t.i = i
         \/ w # "converse" /\ \E e \in ready.rep : e[1] = i
<1> DEFINE one == [j \in DOMAIN tools |-> PushTool(w, tools[j], policy, j)]
           ready == PrepareTools(w, tools, policy)
<1>1. /\ ready.list = UNION {{Prepared(j, k, one[j].raw) : k \in 1..one[j].n} : j \in DOMAIN tools}
      /\ ready.rep = UNION {one[j].rep : j \in DOMAIN tools}
      /\ ~one[i].refused
  BY DEF PrepareTools
<1>2. /\ one[i].n \in 0..2
      /\ one[i].n = 0 => w # "converse" /\ <<i, "Drop">> \in one[i].rep
  BY <1>1, PushedOrTold
<1> HIDE DEF one, ready
<1>3. CASE one[i].n = 0
  <2>1. <<i, "Drop">> \in ready.rep
    BY <1>1, <1>2, <1>3
  <2> QED
    BY <1>2, <1>3, <2>1 DEF ready
<1>4. CASE one[i].n # 0
  <2>1. Prepared(i, 1, one[i].raw) \in ready.list
    BY <1>1, <1>2, <1>4
  <2> QED
    BY <2>1 DEF ready, Prepared
<1> QED
  BY <1>3, <1>4

\* On Gemini a raw tool that is not its own is only prepared under the profile that
\* passes tools through, and there every tool is one prepared tool: a client that
\* knows such tools has none that Gemini drops.
LEMMA UnfitToolsAreAlone ==
  ASSUME NEW c, NEW tools \in Seq(DecodedTools(c)), NEW policy, NEW i \in DOMAIN tools,
         tools[i] # "builtin", PushTool("gemini", tools[i], policy, i).raw,
         PushTool("gemini", tools[i], policy, i).n # 0,
         NEW j \in DOMAIN tools, ~PushTool("gemini", tools[j], policy, j).refused
  PROVE  PushTool("gemini", tools[j], policy, j).n = 1
<1>1. tools[i] \in DecodedTools(c) /\ tools[j] \in DecodedTools(c)
  OBVIOUS
<1>2. policy = "passthrough" /\ tools[i] \in {"namespace", "hollow", "hosted", "other"}
  BY <1>1 DEF PushTool, PushNamespace, PushHosted, PushConverseTool, PushCustomTool, PushUnknown,
              PushFunction, AsItIs, Outcome, Refusal, DecodedTools, ToolKinds
<1>3. tools[j] \notin {"point", "system"}
  BY <1>1, <1>2 DEF DecodedTools, ToolKinds
<1> QED
  BY <1>2, <1>3 DEF PushTool, PushNamespace, PushHosted, PushCustomTool, PushUnknown, PushFunction,
                    AsItIs, Outcome, Refusal

\* The place of the i-th of tools that are one prepared tool each.
LEMMA PlaceOfSingle ==
  ASSUME NEW n \in Nat, NEW raw, NEW i \in 1..n
  PROVE  Place({Prepared(j, 1, raw[j]) : j \in 1..n}, Prepared(i, 1, raw[i])) = i
<1> DEFINE list == {Prepared(j, 1, raw[j]) : j \in 1..n}
           t == Prepared(i, 1, raw[i])
           before == {s \in list : s.i < t.i \/ (s.i = t.i /\ s.nth <= t.nth)}
           F == [j \in 1..i |-> Prepared(j, 1, raw[j])]
<1>1. before = {Prepared(j, 1, raw[j]) : j \in 1..i}
  BY DEF Prepared
<1>2. F \in [1..i -> before]
  BY <1>1
<1>3. \A a, b \in 1..i : F[a] = F[b] => a = b
  BY DEF Prepared
<1>4. \A u \in before : \E a \in 1..i : F[a] = u
  BY <1>1
<1> HIDE DEF F, before
<1>5. F \in Bijection(1..i, before)
  BY <1>2, <1>3, <1>4, Fun_IsBij
<1>6. Cardinality(before) = i
  BY <1>5, FS_CountingElements DEF ExistsBijection
<1> QED
  BY <1>6 DEF before, Place

-----------------------------------------------------------------------------
(* The body.                                                               *)

\* `sent` is the body of a request that could be mapped.
BodyIsSent ==
  /\ up \in Wires /\ IsAsk(request) /\ Decoded(down, request)
  /\ sent = EncodeBody(up, down, request) /\ ~sent.refused

\* A body that is sent has no refused tool.
LEMMA ToolsAreReady ==
  ASSUME BodyIsSent
  PROVE  ~PrepareTools(up, request.tools, request.profile.policy).refused
<1> DEFINE s == WithoutStore(request)
<1>1. s.tools = request.tools /\ s.profile = request.profile
  BY OnlyStoreIsStripped DEF BodyIsSent
<1>2. ~PrepareTools(up, s.tools, s.profile.policy).refused
  BY DEF BodyIsSent, EncodeBody
<1> QED
  BY <1>1, <1>2

\* Every word of a request that is sent is carried, reported or excused.
LEMMA WordIsKept ==
  ASSUME BodyIsSent, NEW f \in DOMAIN request.word
  PROVE  WordKept(f)
<1> DEFINE s == WithoutStore(request)
           ready == PrepareTools(up, s.tools, s.profile.policy)
           shape == s.shape \cup (IF ready.list = {} THEN {} ELSE {"tools"})
           fate(g) == FateOn(up, down, s, g)
<1> USE DEF BodyIsSent
<1>1. /\ Stripped(request) \subseteq {"store"}
      /\ DOMAIN s.word = DOMAIN request.word \ Stripped(request)
      /\ \A g \in DOMAIN s.word : s.word[g] = request.word[g]
      /\ s.num = request.num /\ s.tools = request.tools /\ s.profile = request.profile
  BY OnlyStoreIsStripped
<1>2. Decoded(down, s)
  BY StrippedIsDecoded
<1>3. \A g : /\ g \in Stripped(request) => Reported(g)
             /\ g \in DOMAIN s.word \cup DOMAIN s.num /\ fate(g).act # "" => Reported(g)
             /\ g \in DOMAIN s.word /\ fate(g).to = s.word[g] => WordKept(g)
             /\ g \in DOMAIN s.word /\ fate(g).to = "true" =>
                  \/ WordKept(g)
                  \/ g \in DOMAIN sent.word /\ sent.word[g] = "true"
  <2> SUFFICES ASSUME NEW g
               PROVE  /\ g \in Stripped(request) => Reported(g)
                      /\ g \in DOMAIN s.word \cup DOMAIN s.num /\ fate(g).act # "" => Reported(g)
                      /\ g \in DOMAIN s.word /\ fate(g).to = s.word[g] => WordKept(g)
                      /\ g \in DOMAIN s.word /\ fate(g).to = "true" =>
                           \/ WordKept(g)
                           \/ g \in DOMAIN sent.word /\ sent.word[g] = "true"
    OBVIOUS
  <2>1. Reports(sent, g) <=> Reported(g)
    BY DEF Reports, Reported
  <2>2. g \in DOMAIN s.word => s.word[g] = request.word[g] /\ s.word[g] # ""
    <3> SUFFICES ASSUME g \in DOMAIN s.word PROVE s.word[g] = request.word[g] /\ s.word[g] # ""
      OBVIOUS
    <3>1. s.word[g] = request.word[g] /\ g \in DOMAIN request.word
      BY <1>1
    <3>2. request.word[g] \in Words(g)
      BY <3>1 DEF Decoded
    <3> QED
      BY <3>1, <3>2, WordsAreWritten
  <2>3. /\ g \in Stripped(request) => Reports(sent, g)
        /\ g \in DOMAIN s.word \cup DOMAIN s.num /\ fate(g).act # "" => Reports(sent, g)
        /\ g \in DOMAIN s.word /\ fate(g).to # "" =>
             \/ g \in DOMAIN sent.word /\ sent.word[g] \in {fate(g).to, "extra"}
             \/ Reports(sent, g)
    BY FatesAreFollowed
  <2> HIDE DEF s, fate
  <2> QED
    BY <2>1, <2>2, <2>3 DEF WordKept
<1>4. \A g : g # "store" => (IsSet(s, g) <=> IsSet(request, g))
  BY <1>1 DEF IsSet
<1>5. \A g, v : g # "store" => (Says(s, g, v) <=> Says(request, g, v))
  BY <1>1 DEF Says
<1>6. SchemaLost(s, fate("json_schema")) =>
        Reported("json_schema") \/ ~IsSet(request, "json_schema")
  BY <1>3, <1>4 DEF SchemaLost, IsSet
<1>7. SUFFICES ASSUME f \in DOMAIN s.word, fate(f).act = "", fate(f).to # s.word[f]
               PROVE  WordKept(f) \/ Moot(f) \/ WithTheSchema(f) \/ Overruled(f)
  BY <1>1, <1>3 DEF WordKept
<1>8. f # "max_tokens" /\ s.word[f] = request.word[f]
  BY <1>1, <1>2, <1>7 DEF Decoded, Numbers
<1>9. CASE up = "chat"
  <2>1. /\ fate(f) = ChatFate(s.model, s, f)
        /\ fate("json_schema") = ChatFate(s.model, s, "json_schema")
    BY <1>8, <1>9 DEF FateOn
  <2>2. ChatAudio(s) <=> ChatAudio(request)
    BY <1>4, <1>5 DEF ChatAudio
  <2> HIDE DEF s, fate
  <2> QED
    BY <1>2, <1>3, <1>4, <1>6, <1>7, <1>8, <1>9, <2>1, <2>2, ChatKeepsWords
       DEF Moot, WithTheSchema, Overruled, FalseLogprobs
<1>10. CASE up = "responses"
  <2>1. /\ fate(f) = ResponsesFate(s.model, s, f)
        /\ fate("json_schema") = ResponsesFate(s.model, s, "json_schema")
    BY <1>8, <1>10 DEF FateOn
  <2> HIDE DEF s, fate
  <2> QED
    BY <1>6, <1>7, <2>1, ResponsesKeepsWords DEF WithTheSchema
<1>11. CASE up = "gemini"
  <2>1. fate(f) = GeminiFate(s, f)
    BY <1>8, <1>11 DEF FateOn
  <2> HIDE DEF s, fate
  <2> QED
    BY <1>2, <1>3, <1>4, <1>7, <1>8, <1>11, <2>1, GeminiKeepsWords
       DEF Moot, WithTheSchema, SchemaNotes, Overruled, FalseLogprobs
<1>12. CASE up = "messages"
  <2> DEFINE same == down = up
  <2>1. /\ fate(f) = MessagesFate(s.model, s, f, shape, same)
        /\ fate("json_schema") = MessagesFate(s.model, s, "json_schema", shape, same)
    BY <1>12 DEF FateOn
  <2> HIDE DEF s, fate, shape, same
  <2> QED
    BY <1>2, <1>6, <1>7, <1>8, <1>12, <2>1, MessagesKeepsWords DEF Moot, WithTheSchema, SchemaNotes
<1>13. CASE up = "converse"
  <2>1. fate(f) = ConverseFate(s, f, ready.list)
    BY <1>8, <1>13 DEF FateOn
  <2>2. SUFFICES f = "tool_choice" /\ ready.list = {} => request.tools = <<>>
    <3> HIDE DEF s, fate, ready
    <3> QED
      BY <1>2, <1>7, <1>13, <2>1, ConverseKeepsWords DEF Moot
  <2>3. ~ready.refused
    BY <1>1, ToolsAreReady
  <2>4. ready.list = {} => DOMAIN s.tools = {}
    BY <1>13, <2>3, PreparedOrTold
  <2>5. request.tools \in Seq(DecodedTools(down))
    BY DEF Decoded
  <2>6. request.tools # <<>> => 1 \in DOMAIN request.tools
    BY <2>5, EmptySeq, LenProperties
  <2> QED
    BY <1>1, <2>4, <2>6
<1> QED
  BY <1>9, <1>10, <1>11, <1>12, <1>13 DEF Wires

\* The body's number slots hold what the encoder decided on.
LEMMA NumbersOfTheBody ==
  ASSUME NEW w, NEW r
  PROVE  LET num == SentNumbers(w, r) IN
         /\ \A n : SentLimit(w, r) = {n} => "max_tokens" \in DOMAIN num /\ num["max_tokens"] = n
         /\ \A n : SentBudget(w, r) = {n} => "budget" \in DOMAIN num /\ num["budget"] = n
<1>1. ASSUME NEW n, SentLimit(w, r) = {n}
      PROVE  "max_tokens" \in DOMAIN SentNumbers(w, r) /\ SentNumbers(w, r)["max_tokens"] = n
  BY <1>1 DEF SentNumbers
<1>2. ASSUME NEW n, SentBudget(w, r) = {n}
      PROVE  "budget" \in DOMAIN SentNumbers(w, r) /\ SentNumbers(w, r)["budget"] = n
  BY <1>2 DEF SentNumbers
<1> QED
  BY <1>1, <1>2

\* Every number of a request that is sent is carried or reported: the token limit in
\* its own slot, both reasoning numbers in the budget.
LEMMA NumberIsKept ==
  ASSUME BodyIsSent, NEW f \in DOMAIN request.num
  PROVE  NumberKept(f)
<1> DEFINE s == WithoutStore(request)
           fate == FateOn(up, down, s, f)
<1> USE DEF BodyIsSent
<1>1. s.num = request.num /\ f \in DOMAIN s.num
  BY OnlyStoreIsStripped
<1>2. Decoded(down, s) /\ f \in Numbers
  BY StrippedIsDecoded DEF Decoded
<1>3. fate.act # "" => Reported(f)
  <2>1. Reports(sent, f) <=> Reported(f)
    BY DEF Reports, Reported
  <2> QED
    BY <1>1, <2>1, FatesAreFollowed
<1>4. sent.num = SentNumbers(up, s)
  BY DEF EncodeBody
<1> HIDE DEF s, BodyIsSent
<1>5. CASE f = "max_tokens"
  <2>1. CASE up = "messages" /\ TooSmall(s)
    BY <1>3, <1>5, <2>1 DEF fate, FateOn, MessagesFate, MessagesDrops, MessagesRejects,
         ThinkingFields, ThinkingFieldFate, Lossy, Fate, NumberKept, CacheKeys, ChatSamplingExtras, ChatLogitBias,
         NAndPenalties, GeminiOnly, OutputModalities, Labels, ConverseOnly, ResponsesOnly
  <2>2. CASE ~(up = "messages" /\ TooSmall(s))
    <3>1. SentLimit(up, s) = {request.num[f]}
      BY <1>1, <1>5, <2>2 DEF SentLimit, MessagesMaxTokens, IsSet
    <3> QED
      BY <1>4, <1>5, <3>1, NumbersOfTheBody DEF NumberKept
  <2> QED
    BY <2>1, <2>2
<1>6. CASE f \in {"max_reasoning_tokens", "thinking_budget"}
  <2>1. SUFFICES ASSUME fate.act = ""
                 PROVE  SentBudget(up, s) = {request.num[f]}
    <3> HIDE DEF fate
    <3>1. CASE fate.act # ""
      BY <1>3, <3>1 DEF NumberKept
    <3>2. CASE fate.act = ""
      <4>1. SentBudget(up, s) = {request.num[f]}
        BY <2>1, <3>2
      <4> QED
        BY <1>4, <1>6, <4>1, NumbersOfTheBody DEF NumberKept
    <3> QED
      BY <3>1, <3>2
  <2>2. up \notin {"chat", "responses", "converse"}
    BY <1>6, <2>1 DEF FateOn, ChatFate, ChatDrops, ResponsesFate, ResponsesDrops, ConverseFate,
         ConverseDrops, NoSlot, Fate
  <2>3. CASE up = "gemini"
    BY <1>1, <1>6, <2>1, <2>3 DEF FateOn, GeminiFate, SentBudget, GeminiBudget, IsSet, KeepIf,
         NoSlot, Fate
  <2>4. CASE up = "messages"
    <3>1. fate = ThinkingFieldFate(s, f)
      BY <1>6, <2>1, <2>4 DEF FateOn, MessagesFate, ThinkingFields, NoSlot, Fate
    <3>2. Thinking(s) \notin {"native", "disabled"} /\ s.num[f] = Budget(s)
      <4> HIDE DEF fate
      <4> QED
        BY <1>6, <2>1, <3>1 DEF ThinkingFieldFate, NoSlot, Lossy, Fate
    <3>3. Thinking(s) = "enabled"
      BY <1>1, <1>6, <3>2 DEF Thinking, AsksForThinking, IsSet
    <3> QED
      BY <1>1, <2>4, <3>2, <3>3 DEF SentBudget
  <2> QED
    BY <2>2, <2>3, <2>4 DEF BodyIsSent, Wires
<1> QED
  BY <1>2, <1>5, <1>6 DEF Numbers

\* Every tool of a request that is sent is carried or reported.
LEMMA ToolIsKept ==
  ASSUME BodyIsSent, NEW i \in DOMAIN request.tools
  PROVE  ToolKept(i)
<1> DEFINE s == WithoutStore(request)
           ready == PrepareTools(up, request.tools, request.profile.policy)
           none == Says(s, "tool_choice", "none")
           encoded == EncodeTools(up, request.tools, ready, none)
<1> USE DEF BodyIsSent
<1>1. /\ s.tools = request.tools /\ s.profile = request.profile
      /\ Stripped(request) \subseteq {"store"}
      /\ DOMAIN s.word = DOMAIN request.word \ Stripped(request)
  BY OnlyStoreIsStripped
<1>2. sent.tools = encoded.sent /\ sent.toolRep = encoded.rep
  BY <1>1 DEF EncodeBody
<1>3. \/ \E t \in ready.list : t.i = i
      \/ up # "converse" /\ \E e \in ready.rep : e[1] = i
  BY ToolsAreReady, PreparedOrTold
<1>4. CASE up = "gemini"
  <2> HIDE DEF ready, none
  <2>1. CASE \E e \in ready.rep : e[1] = i
    BY <1>2, <1>4, <2>1 DEF ToolKept, EncodeTools, GeminiTools
  <2>2. ASSUME NEW t \in ready.list, t.i = i
        PROVE  ToolKept(i)
    <3>1. CASE ~t.raw \/ request.tools[t.i] = "builtin"
      <4>1. i \in encoded.sent
        BY <1>4, <2>2, <3>1 DEF EncodeTools, GeminiTools
      <4> QED
        BY <1>2, <4>1 DEF ToolKept
    <3>2. CASE ~(~t.raw \/ request.tools[t.i] = "builtin")
      <4>1. <<Place(ready.list, t), "Drop">> \in encoded.rep
        BY <1>4, <2>2, <3>2 DEF EncodeTools, GeminiTools
      <4>2. Place(ready.list, t) = i
        <5> DEFINE tools == request.tools
                   one == [j \in DOMAIN tools |-> PushTool(up, tools[j], request.profile.policy, j)]
                   raw == [j \in DOMAIN tools |-> one[j].raw]
        <5>1. /\ ready.list = UNION {{Prepared(j, k, one[j].raw) : k \in 1..one[j].n} : j \in DOMAIN tools}
              /\ ready.refused = \E j \in DOMAIN tools : one[j].refused
          BY DEF ready, PrepareTools
        <5>2. tools \in Seq(DecodedTools(down)) /\ DOMAIN tools = 1..Len(tools) /\ Len(tools) \in Nat
          BY DEF Decoded
        <5>3. \A j \in DOMAIN tools : ~one[j].refused
          BY <5>1, ToolsAreReady DEF ready
        <5>4. \A j \in DOMAIN tools : one[j].n \in 0..2
          BY PushedOrTold
        <5>5. one[i].n # 0 /\ t.raw = one[i].raw /\ t.nth \in 1..one[i].n /\ t = Prepared(i, t.nth, one[i].raw)
          <6> HIDE DEF one, tools
          <6> QED
            BY <2>2, <5>1, <5>4 DEF Prepared
        <5>6. \A j \in DOMAIN tools : one[j].n = 1
          <6> SUFFICES ASSUME NEW j \in DOMAIN tools PROVE one[j].n = 1
            OBVIOUS
          <6>1. /\ tools[i] # "builtin" /\ one[i].raw /\ one[i].n # 0
                /\ one[i] = PushTool("gemini", tools[i], request.profile.policy, i)
                /\ one[j] = PushTool("gemini", tools[j], request.profile.policy, j)
                /\ ~one[j].refused
            BY <1>4, <2>2, <3>2, <5>3, <5>5
          <6> HIDE DEF one, tools
          <6> QED
            BY <5>2, <6>1, UnfitToolsAreAlone DEF tools
        <5>7. ready.list = {Prepared(j, 1, raw[j]) : j \in 1..Len(tools)} /\ t = Prepared(i, 1, raw[i])
          <6>1. \A j \in DOMAIN tools : raw[j] = one[j].raw
            OBVIOUS
          <6> HIDE DEF one, tools, raw
          <6>2. i \in DOMAIN tools
            BY DEF tools
          <6> QED
            BY <5>1, <5>2, <5>5, <5>6, <6>1, <6>2
        <5> HIDE DEF raw
        <5> QED
          BY <5>2, <5>7, PlaceOfSingle
      <4> QED
        BY <1>2, <4>1, <4>2 DEF ToolKept
    <3> QED
      BY <3>1, <3>2
  <2> QED
    BY <1>3, <2>1, <2>2
<1>5. CASE up = "converse" /\ none
  <2>1. ready.list # {} /\ "tool_choice" \in DOMAIN s.word
    BY <1>3, <1>5 DEF Says
  <2>2. FateOn(up, down, s, "tool_choice").act # ""
    BY <1>1, <1>5, <2>1 DEF FateOn, ConverseFate, ConverseToolChoice, NoSlot, Lossy, Fate, Says
  <2>3. Reported("tool_choice")
    <3>1. Reports(sent, "tool_choice")
      BY <2>1, <2>2, FatesAreFollowed
    <3> QED
      BY <3>1 DEF Reports, Reported
  <2> QED
    BY <1>5, <2>3 DEF ToolKept
<1>6. CASE up # "gemini" /\ ~(up = "converse" /\ none)
  <2> HIDE DEF ready, none
  <2>1. encoded.sent = {t.i : t \in ready.list} /\ encoded.rep = ready.rep
    BY <1>6 DEF EncodeTools
  <2> HIDE DEF encoded
  <2> QED
    BY <1>2, <1>3, <2>1 DEF ToolKept
<1> QED
  BY <1>4, <1>5, <1>6

\* No client sets the body's `thinking` word by itself: it is encode_thinking's.
LEMMA ThinkingIsNoField ==
  ASSUME NEW c
  PROVE  "thinking" \notin Reads(c)
<1>1. "thinking" \notin ChatReads \cup ResponsesReads \cup MessagesReads \cup GeminiReads
                      \cup ConverseReads
  BY DEF ChatReads, ResponsesReads, MessagesReads, GeminiReads, ConverseReads, Everywhere, Session,
         SchemaNotes, NAndPenalties, OutputModalities, CacheKeys, Labels, ChatSamplingExtras,
         ChatLogitBias, ResponsesOnly, MessagesOnly, GeminiOnly, ConverseOnly
<1> QED
  BY <1>1 DEF Reads

\* Without a profile that writes fields of its own, every word of the body comes
\* from a field of the request or was added by the Messages encoder.
LEMMA WordsOfTheBody ==
  ASSUME BodyIsSent, request.profile.extra = {}, NEW f \in DOMAIN sent.word
  PROVE  LET s == WithoutStore(request)
             fate == FateOn(up, down, s, f) IN
         \/ f \in DOMAIN s.word \cup DOMAIN s.num /\ sent.word[f] = fate.to /\ fate.to # ""
         \/ /\ f \in Added(up, s)
            /\ sent.word[f] = AddedWord(s, f)
<1> DEFINE s == WithoutStore(request)
           fates == [g \in DOMAIN s.word \cup DOMAIN s.num |-> FateOn(up, down, s, g)]
           own == {g \in DOMAIN fates : fates[g].to # ""}
           words == SentWords(up, s, fates)
           word == MergeExtraBody(s, words)
<1>1. f \in DOMAIN word /\ sent.word[f] = word[f]
  BY DEF BodyIsSent, EncodeBody
<1>2. s.profile.extra = {}
  BY OnlyStoreIsStripped DEF BodyIsSent
<1>3. f \in DOMAIN words /\ sent.word[f] = words[f]
  <2> HIDE DEF s, words
  <2> QED
    BY <1>1, <1>2 DEF MergeExtraBody
<1>4. /\ DOMAIN words = own \cup Added(up, s)
      /\ words[f] = IF f \in own THEN fates[f].to
                    ELSE AddedWord(s, f)
  <2> HIDE DEF s, fates
  <2> QED
    BY <1>3 DEF SentWords
<1>5. CASE f \in own
  <2>1. /\ f \in DOMAIN s.word \cup DOMAIN s.num
        /\ fates[f] = FateOn(up, down, s, f) /\ fates[f].to # ""
    BY <1>5
  <2> HIDE DEF fates, words, own
  <2> QED
    BY <1>3, <1>4, <1>5, <2>1
<1>6. CASE f \notin own
  <2> HIDE DEF fates, words, own
  <2> QED
    BY <1>3, <1>4, <1>6
<1> QED
  BY <1>5, <1>6

\* The token limit is positive and, with thinking enabled, leaves room beside the
\* budget, also where budget + 4096 saturates.
LEMMA MessagesLimit ==
  ASSUME NEW c, NEW r, Decoded(c, r), ~RefusedNumber("messages", r.model, r)
  PROVE  /\ MessagesMaxTokens(r) > 0
         /\ Thinking(r) = "enabled" =>
              MessagesMaxTokens(r) > Budget(r) \/ Budget(r) = TokenCap
<1>1. Budget(r) \in 0..TokenCap
  BY BudgetIsANumber
<1>2. "max_tokens" \in DOMAIN r.num => r.num["max_tokens"] \in 1..TokenCap
  BY TokenCapAssumption DEF Decoded, RefusedNumber
<1>3. IsSet(r, "max_tokens") <=> "max_tokens" \in DOMAIN r.num
  BY DEF Decoded, IsSet, Numbers
<1> QED
  BY <1>1, <1>2, <1>3, TokenCapAssumption
     DEF MessagesMaxTokens, TooSmall, Raised, Number, CompletionTokens

\* With thinking enabled no sampling field is written and no tool is forced; a
\* model that rejects a forced choice is only sent one by a client of the same wire.
LEMMA MessagesWords ==
  ASSUME NEW c, NEW r, Decoded(c, r), NEW f \in DOMAIN r.word \cup DOMAIN r.num,
         NEW shape, NEW same \in BOOLEAN
  PROVE  LET to == MessagesFate(r.model, r, f, shape, same).to IN
         /\ f \in {"temperature", "top_p", "top_k"} /\ Thinking(r) = "enabled" => to = ""
         /\ f = "tool_choice"
              /\ (Thinking(r) = "enabled" \/ (RejectsForcedToolChoice(r.model) /\ ~same))
              => ~Forced(to)
<1>1. CASE f \in {"temperature", "top_p", "top_k"}
  BY <1>1 DEF MessagesFate, MessagesRejects, NoSlot, Fate
<1>2. CASE f = "tool_choice"
  BY <1>2 DEF MessagesFate, MessagesToolChoice, ThinkingFields, NoSlot, Lossy, Keep, Fate, Forced
<1> QED
  BY <1>1, <1>2

\* A body for Anthropic is one it takes, whatever fields were set together.
LEMMA MessagesBodyIsAccepted ==
  ASSUME BodyIsSent, up = "messages", request.profile.extra = {}
  PROVE  /\ "max_tokens" \in DOMAIN sent.num /\ sent.num["max_tokens"] > 0
         /\ "thinking" \in DOMAIN sent.word /\ sent.word["thinking"] = "enabled" =>
              /\ sent.num["max_tokens"] > sent.num["budget"] \/ sent.num["budget"] = TokenCap
              /\ DOMAIN sent.word \cap {"temperature", "top_p", "top_k"} = {}
              /\ "tool_choice" \in DOMAIN sent.word => ~Forced(sent.word["tool_choice"])
         /\ RejectsForcedToolChoice(request.model) /\ down # up
              /\ "tool_choice" \in DOMAIN sent.word => ~Forced(sent.word["tool_choice"])
<1> DEFINE s == WithoutStore(request)
           ready == PrepareTools(up, s.tools, s.profile.policy)
           shape == s.shape \cup (IF ready.list = {} THEN {} ELSE {"tools"})
           same == down = up
           fate(f) == MessagesFate(s.model, s, f, shape, same)
<1>1. Decoded(down, s) /\ s.model = request.model
  BY StrippedIsDecoded, OnlyStoreIsStripped DEF BodyIsSent
<1>2. ~RefusedNumber("messages", s.model, s) /\ sent.num = SentNumbers("messages", s)
  BY DEF BodyIsSent, EncodeBody
<1>3. "max_tokens" \in DOMAIN sent.num /\ sent.num["max_tokens"] = MessagesMaxTokens(s)
  <2>1. SentLimit("messages", s) = {MessagesMaxTokens(s)}
    BY DEF SentLimit
  <2> QED
    BY <1>2, <2>1, NumbersOfTheBody
<1>4. Thinking(s) = "enabled" => sent.num["budget"] = Budget(s)
  <2>1. Thinking(s) = "enabled" => SentBudget("messages", s) = {Budget(s)}
    BY DEF SentBudget
  <2> QED
    BY <1>2, <2>1, NumbersOfTheBody
<1>5. ASSUME NEW f \in DOMAIN sent.word
      PROVE  \/ /\ f \in DOMAIN s.word \cup DOMAIN s.num
                /\ sent.word[f] = fate(f).to /\ fate(f).to # ""
             \/ /\ f \in Added(up, s)
                /\ sent.word[f] = AddedWord(s, f)
  <2>1. FateOn(up, down, s, f) = fate(f)
    BY DEF FateOn
  <2> QED
    BY <2>1, WordsOfTheBody
<1>6. "thinking" \in DOMAIN sent.word => sent.word["thinking"] = Thinking(s)
  <2>1. "thinking" \notin DOMAIN s.word \cup DOMAIN s.num
    BY <1>1, ThinkingIsNoField DEF Decoded
  <2> HIDE DEF s, fate
  <2> QED
    BY <1>5, <2>1 DEF AddedWord
<1>7. "tool_choice" \in DOMAIN sent.word
        /\ (Thinking(s) = "enabled" \/ (RejectsForcedToolChoice(s.model) /\ ~same))
        => ~Forced(sent.word["tool_choice"])
  <2>1. same \in BOOLEAN
    OBVIOUS
  <2>2. ~Forced("auto")
    BY DEF Forced
  <2>3. AddedWord(s, "tool_choice") = "auto"
    BY DEF AddedWord
  <2> HIDE DEF s, shape, same
  <2> QED
    BY <1>1, <1>5, <2>1, <2>2, <2>3, MessagesWords
<1>8. ASSUME Thinking(s) = "enabled", NEW f \in {"temperature", "top_p", "top_k"}
      PROVE  f \notin DOMAIN sent.word
  <2>1. same \in BOOLEAN
    OBVIOUS
  <2>2. f \notin Added(up, s)
    BY DEF Added
  <2>3. f \in DOMAIN s.word \cup DOMAIN s.num => fate(f).to = ""
    <3> HIDE DEF s, shape, same
    <3> QED
      BY <1>1, <1>8, <2>1, MessagesWords
  <2> HIDE DEF s, fate
  <2> QED
    BY <1>5, <2>2, <2>3
<1>9. /\ MessagesMaxTokens(s) > 0
      /\ Thinking(s) = "enabled" => MessagesMaxTokens(s) > Budget(s) \/ Budget(s) = TokenCap
  BY <1>1, <1>2, MessagesLimit
<1> HIDE DEF s
<1> QED
  BY <1>1, <1>3, <1>4, <1>6, <1>7, <1>8, <1>9

-----------------------------------------------------------------------------
(* The exchange.                                                           *)

\* Until it is posted, the request is what the client's decoder made of it, and
\* once mapped `sent` is its body.
ExchangeInv ==
  /\ up \in Wires
  /\ stage = "asked" => IsAsk(request) /\ Decoded(down, request)
  /\ stage = "mapped" => BodyIsSent

\* ExchangeInv is an invariant: it is inductive as it stands, since only MapFields
\* writes `sent` before the request is forgotten.
LEMMA ExchangeInvHolds == Spec => []ExchangeInv
<1>1. Init => ExchangeInv
  BY AnswerWiresAssumption, RequestsAreAsked DEF Init, ExchangeInv
<1>2. ExchangeInv /\ [Next]_vars => ExchangeInv'
  <2> SUFFICES ASSUME ExchangeInv, [Next]_vars PROVE ExchangeInv'
    OBVIOUS
  <2>1. CASE MapFields
    BY <2>1 DEF MapFields, ExchangeInv, BodyIsSent
  <2>2. CASE Post
    BY <2>2 DEF Post, ExchangeInv
  <2>3. CASE VendorAnswers
    BY <2>3 DEF VendorAnswers, ExchangeInv
  <2>4. CASE DecodeAnswer /\ UNCHANGED requestVars
    BY <2>4 DEF DecodeAnswer, ExchangeInv
  <2>5. CASE EncodeAnswer /\ UNCHANGED requestVars
    BY <2>5 DEF EncodeAnswer, ExchangeInv
  <2>6. CASE UNCHANGED vars
    BY <2>6 DEF vars, ExchangeInv, BodyIsSent
  <2> QED
    BY <2>1, <2>2, <2>3, <2>4, <2>5, <2>6 DEF Next
<1> QED
  BY <1>1, <1>2, PTL DEF Spec

\* For every request a decoder can produce, whatever fields it sets together (the
\* run only combines those of one group), the body that is sent loses nothing
\* without a record and is one Anthropic takes (encode of map/mod.rs).
THEOREM EveryDecodedRequest ==
  BodyIsSent /\ stage = "mapped" => FieldCarriedOrReported /\ MessagesAccepted
BY WordIsKept, NumberIsKept, ToolIsKept, MessagesBodyIsAccepted
   DEF FieldCarriedOrReported, MessagesAccepted

\* In every exchange each field and each tool of a request that is sent on reaches
\* the vendor as it was or is in the loss report.
THEOREM FieldsReachTheVendorOrTheReport == Spec => []FieldCarriedOrReported
<1>1. ExchangeInv => FieldCarriedOrReported
  BY EveryDecodedRequest DEF ExchangeInv, FieldCarriedOrReported
<1> QED
  BY <1>1, ExchangeInvHolds, PTL

\* In every exchange with Anthropic the body is one it takes (room for an answer
\* beside the thinking budget, no sampling and no forced tool with thinking).
THEOREM AnthropicTakesTheBody == Spec => []MessagesAccepted
<1>1. ExchangeInv => MessagesAccepted
  BY EveryDecodedRequest DEF ExchangeInv, MessagesAccepted
<1> QED
  BY <1>1, ExchangeInvHolds, PTL

=============================================================================
