------------------------------ MODULE Exchange ------------------------------
(***************************************************************************)
(* One exchange that is not streamed: the client's fields and tools are    *)
(* mapped to the vendor's wire (map/mod.rs encode), the request is sent,   *)
(* and the vendor's whole answer comes back the other way.                 *)
(***************************************************************************)
EXTENDS Completion, MessagesSampling, ToolDefs, TLC

CONSTANTS Limits,     \* token limits a client may ask for, in units of 2048
          MaxTools    \* bound: tools of a request

ASSUME LimitsAssumption == Limits \subseteq Nat
ASSUME MaxToolsAssumption == MaxTools \in Nat

VARIABLES request,   \* the client's request and the profile it is sent under
          sent       \* the vendor's body and the loss report
requestVars == <<request, sent>>
vars == <<up, down, answer, events, body, stage, request, sent>>

-----------------------------------------------------------------------------
(* The requests.                                                           *)

Nothing == [x \in {} |-> ""]
Numbers == {"max_tokens", "max_reasoning_tokens", "thinking_budget"}
Words(f) ==
  CASE f = "temperature" -> {"low", "high", "bad"}
    [] f \in {"top_p", "frequency_penalty", "presence_penalty", "n"} -> {"low", "bad"}
    [] f = "stop" -> {"text", "mixed", "blank"}
    [] f = "tool_choice" -> {"none", "required", "named"}
    [] f \in {"parallel_tool_calls", "include_thoughts", "logprobs"} -> {"true", "false"}
    [] f = "reasoning_effort" -> {"none", "low", "medium", "high", "xhigh", "x-high"}
    [] f = "service_tier" -> {"auto", "default", "flex", "other"}
    [] f = "json_schema" -> {"object", "other"}
    [] f = "output_modalities" -> {"text", "audio", "image", "both"}
    [] f = "cache" -> {"5m", "1h"}
    [] OTHER -> {"set"}

Profile(policy, forbids, hard, extra) ==
  [policy |-> policy, forbids |-> forbids, hard |-> hard, extra |-> extra]
ToolProfile(policy) == Profile(policy, {}, TRUE, {})
DefaultProfile == ToolProfile("hard-error")
Ask(word, num, model, tools, shape, profile) ==
  [word |-> word, num |-> num, model |-> model, tools |-> tools, shape |-> shape,
   profile |-> profile]

\* The assignments to some of the fields of a set.
Partial(fs, values(_)) ==
  FoldSet(LAMBDA f, gs : gs \cup {(f :> v) @@ g : v \in values(f), g \in gs}, {Nothing}, fs)
Assignments(fs) ==
  {[word |-> w, num |-> n] : w \in Partial(fs \ Numbers, Words),
                             n \in Partial(fs \cap Numbers, LAMBDA f : Limits)}
\* The body's numbers as the client's decoder reads them.
ReadNumbers(c, r) ==
  [r EXCEPT !.num = [f \in {g \in DOMAIN @ : ReadNumber(c, @[g]) # {}} |->
                       CHOOSE n \in ReadNumber(c, @[f]) : TRUE]]
Singles(fs) == UNION {Assignments({f}) : f \in fs}

\* Fields that are looked at together by some encoder.
Groups == {{"temperature", "top_p", "stop", "logprobs", "top_logprobs", "reasoning_effort"},
           {"json_schema", "json_object"} \cup SchemaNotes,
           OutputModalities \cup {"multi_speaker_speech"},
           {"max_tokens", "max_reasoning_tokens", "thinking_budget", "include_thoughts",
            "reasoning_effort"},
           {"messages_thinking", "include_thoughts", "max_reasoning_tokens", "temperature",
            "top_k", "tool_choice", "parallel_tool_calls"}}
Models(w) == CASE w \in {"chat", "responses"} -> {"plain", "o1", "o3", "gpt5", "gpt5.1"}
               [] w = "messages" -> {"plain", "claude55"} [] OTHER -> {"plain"}

FieldRequests(c, w) ==
  {Ask(r.word, r.num, m, <<>>, {"user"}, DefaultProfile) :
     r \in {ReadNumbers(c, a) : a \in Singles(Reads(c))
                                     \cup UNION {Assignments(g \cap Reads(c)) : g \in Groups}},
     m \in Models(w)}
ToolChoices == {Nothing} \cup [{"tool_choice"} -> {"none", "named"}]
ToolRequests(c) ==
  {Ask(w, Nothing, "plain", tools, {"user"}, ToolProfile(policy)) :
     w \in ToolChoices, tools \in BoundedSeq(DecodedTools(c), MaxTools), policy \in Policies}
ProfileRequests(c) ==
  {Ask(r.word, r.num, "plain", <<>>, {"user"}, Profile("hard-error", forbids, hard, extra)) :
     r \in Assignments({"store", "temperature"} \cap Reads(c)),
     forbids \in SUBSET {"store", "temperature"}, hard \in BOOLEAN,
     extra \in SUBSET {"store", "temperature"}}
CacheRequests(c) ==
  {Ask(r.word, Nothing, "plain", tools, shape, DefaultProfile) :
     r \in Assignments({"cache"} \cap Reads(c)), tools \in {<<>>, <<"function">>},
     shape \in SUBSET {"system", "user"}}
\* What the decoder of the client's wire can have made of a body: every word and
\* every number is one it reads, with a value of its field, as are the tools.
Decoded(c, x) ==
  /\ DOMAIN x.word \subseteq Reads(c) \ Numbers /\ DOMAIN x.num \subseteq Reads(c) \cap Numbers
  /\ \A f \in DOMAIN x.word : x.word[f] \in Words(f)
  /\ \A f \in DOMAIN x.num : x.num[f] \in 0..TokenCap
  /\ x.tools \in Seq(DecodedTools(c))
  /\ Decodes(c, x)
Requests(c, w) ==
  {x \in FieldRequests(c, w) \cup ToolRequests(c) \cup ProfileRequests(c) \cup CacheRequests(c) :
     Decoded(c, x)}

-----------------------------------------------------------------------------
(* encode of map/mod.rs.                                                   *)

\* strip_or_refuse_store
Stripped(r) == {"store"} \cap r.profile.forbids \cap DOMAIN r.word
WithoutStore(r) ==
  [r EXCEPT !.word = [f \in DOMAIN r.word \ Stripped(r) |-> r.word[f]]]

FateOn(w, c, r, f) ==
  LET ready == PrepareTools(w, r.tools, r.profile.policy)
      shape == r.shape \cup (IF ready.list = {} THEN {} ELSE {"tools"}) IN
  IF w = "messages" THEN MessagesFate(r.model, r, f, shape, c = w)
  ELSE IF f = "max_tokens" THEN Keep("")
  ELSE IF w = "chat" THEN ChatFate(r.model, r, f)
  ELSE IF w = "responses" THEN ResponsesFate(r.model, r, f)
  ELSE IF w = "gemini" THEN GeminiFate(r, f)
  ELSE ConverseFate(r, f, ready.list)

\* The body's numbers: the token limit and the thinking budget.
SentLimit(w, r) ==
  IF w = "messages" THEN {MessagesMaxTokens(r)}
  ELSE {r.num[f] : f \in {"max_tokens"} \cap DOMAIN r.num}
SentBudget(w, r) ==
  IF w = "messages" /\ Thinking(r) = "enabled" THEN {Budget(r)}
  ELSE IF w = "gemini" THEN GeminiBudget(r) ELSE {}
SentNumbers(w, r) ==
  LET slot(s) == IF s = "budget" THEN SentBudget(w, r) ELSE SentLimit(w, r) IN
  [s \in {t \in {"max_tokens", "budget"} : slot(t) # {}} |-> CHOOSE n \in slot(s) : TRUE]

\* The body's words: the fields' own; on Messages the thinking object and the choice
\* that carries disable_parallel_tool_use; on Chat and Gemini the logprobs that
\* top_logprobs needs.
Added(w, r) ==
  (IF w = "messages" /\ Thinking(r) # "off" THEN {"thinking"} ELSE {})
  \cup (IF w = "messages" /\ AddsChoice(r) THEN {"tool_choice"} ELSE {})
  \cup (IF /\ w \in {"chat", "gemini"} /\ IsSet(r, "top_logprobs")
           /\ w = "chat" => "logprobs" \notin ChatRejects(r.model, r)
        THEN {"logprobs"} ELSE {})
AddedWord(r, f) ==
  CASE f = "thinking" -> Thinking(r) [] f = "logprobs" -> "true" [] OTHER -> "auto"
SentWords(w, r, fates) ==
  LET own == {f \in DOMAIN fates : fates[f].to # ""} IN
  [f \in own \cup Added(w, r) |->
     IF f \in own THEN fates[f].to ELSE AddedWord(r, f)]

\* merge_extra_body writes over the body's top-level keys, apply_forbidden_fields
\* looks at them last.
TopLevel(w) == CASE w \in {"chat", "responses"} -> {"store", "temperature"}
                 [] w = "messages" -> {"temperature"} [] w = "gemini" -> {"store"} [] OTHER -> {}
MergeExtraBody(r, word) ==
  [f \in r.profile.extra \cup DOMAIN word |-> IF f \in r.profile.extra THEN "extra" ELSE word[f]]
Forbidden(w, r, word) ==
  r.profile.forbids \cap DOMAIN word \cap (TopLevel(w) \cup r.profile.extra)

EncodeBody(w, c, r0) ==
  LET r == WithoutStore(r0)
      ready == PrepareTools(w, r.tools, r.profile.policy)
      fates == [f \in DOMAIN r.word \cup DOMAIN r.num |-> FateOn(w, c, r, f)]
      tools == EncodeTools(w, r.tools, ready, Says(r, "tool_choice", "none"))
      word == MergeExtraBody(r, SentWords(w, r, fates))
      gone == Forbidden(w, r, word) IN
  [refused |-> \/ r.profile.hard /\ (Stripped(r0) \cup gone) # {}
               \/ ready.refused \/ RefusedNumber(w, r.model, r),
   word |-> [f \in DOMAIN word \ gone |-> word[f]],
   num |-> SentNumbers(w, r),
   tools |-> tools.sent,
   rep |-> {<<f, fates[f].act>> : f \in {g \in DOMAIN fates : fates[g].act # ""}}
           \cup {<<f, "Drop">> : f \in Stripped(r0) \cup gone},
   toolRep |-> tools.rep]

-----------------------------------------------------------------------------
(* The steps.                                                              *)

NoRequest == Ask(Nothing, Nothing, "plain", <<>>, {}, DefaultProfile)
NoSent == [refused |-> FALSE, word |-> Nothing, num |-> Nothing, tools |-> {}, rep |-> {},
           toolRep |-> {}]
NoAnswer == Answer(<<>>, "", <<>>, FALSE)

Init ==
  /\ up \in AnswerWires /\ down \in AnswerWires
  /\ request \in Requests(down, up)
  /\ sent = NoSent /\ answer = NoAnswer /\ events = <<>> /\ body = NoBody /\ stage = "asked"

\* 400 for a request that cannot be mapped.
MapFields ==
  /\ stage = "asked"
  /\ sent' = EncodeBody(up, down, request)
  /\ stage' = IF sent'.refused THEN "rejected" ELSE "mapped"
  /\ UNCHANGED <<up, down, answer, events, body, request>>

\* The request is on its way and its representation is dropped.
Post ==
  /\ stage = "mapped" /\ up # down
  /\ stage' = "posted"
  /\ request' = NoRequest /\ sent' = NoSent
  /\ UNCHANGED <<up, down, answer, events, body>>

\* The vendor answers (external).
VendorAnswers ==
  /\ stage = "posted"
  /\ answer' \in Answers(up)
  /\ stage' = "received"
  /\ UNCHANGED <<up, down, events, body, request, sent>>

Next ==
  \/ MapFields \/ Post \/ VendorAnswers
  \/ DecodeAnswer /\ UNCHANGED requestVars
  \/ EncodeAnswer /\ UNCHANGED requestVars

Spec == Init /\ [][Next]_vars

-----------------------------------------------------------------------------
(* Properties of the request.                                              *)

Reported(f) == \E e \in sent.rep : e[1] = f
\* Losses without a record that take nothing from the request: a default that is
\* spelt out, a format without audio, a choice without tools.
Moot(f) ==
  \/ f = "logprobs" /\ request.word[f] = "false" /\ ~IsSet(request, "top_logprobs")
  \/ f = "parallel_tool_calls" /\ up = "messages" /\ request.word[f] = "true"
  \/ f = "audio_format" /\ up = "chat" /\ ~ChatAudio(request)
  \/ f = "tool_choice" /\ up = "converse" /\ request.tools = <<>>
\* Losses without a record of their own: the schema's notes when the schema is
\* reported or there is none, and its name on Gemini.
WithTheSchema(f) ==
  /\ f \in SchemaNotes
  /\ \/ Reported("json_schema") \/ ~IsSet(request, "json_schema")
     \/ up = "gemini" /\ f = "json_schema_name"

\* A value that is changed without a record: logprobs: false beside a top_logprobs,
\* which the tests want to turn them on (tests/request_maps.rs:7630).
Overruled(f) ==
  /\ f = "logprobs" /\ up \in {"chat", "gemini"} /\ IsSet(request, "top_logprobs")
  /\ f \in DOMAIN sent.word /\ sent.word[f] = "true"

WordKept(f) ==
  \/ f \in DOMAIN sent.word /\ sent.word[f] \in {request.word[f], "extra"}
  \/ Reported(f) \/ Moot(f) \/ WithTheSchema(f) \/ Overruled(f)
NumberKept(f) ==
  LET slot == IF f = "max_tokens" THEN f ELSE "budget" IN
  (slot \in DOMAIN sent.num /\ sent.num[slot] = request.num[f]) \/ Reported(f)
\* A lost tool is reported under its own index; on Converse `none` takes all away.
ToolKept(i) ==
  \/ i \in sent.tools
  \/ \E e \in sent.toolRep : e[1] = i
  \/ up = "converse" /\ Reported("tool_choice")

\* Every field and every tool the decoder has read from a request that is sent on
\* reaches the vendor as it was or is in the loss report, a tool under its own index
\* (Gemini's encoder counts the prepared ones); what can do neither is refused (encode of
\* map/mod.rs; docs/ARCHITECTURE.md: "Every map returns a LossReport").
FieldCarriedOrReported ==
  stage = "mapped" =>
    /\ \A f \in DOMAIN request.word : WordKept(f)
    /\ \A f \in DOMAIN request.num : NumberKept(f)
    /\ \A i \in DOMAIN request.tools : ToolKept(i)

\* A body for Anthropic is one it takes: with thinking enabled there is room for
\* an answer beside the budget, no sampling is set and no tool is forced,
\* whatever the client asked for and whatever was put back for a client of the
\* same wire; there is always a token limit (encode_thinking and the omit_*
\* functions of map/messages.rs).  Profiles that write fields of their own into
\* the body, and a budget of u32::MAX, are excepted.
MessagesAccepted ==
  stage = "mapped" /\ up = "messages" /\ request.profile.extra = {} =>
    /\ "max_tokens" \in DOMAIN sent.num /\ sent.num["max_tokens"] > 0
    /\ "thinking" \in DOMAIN sent.word /\ sent.word["thinking"] = "enabled" =>
         /\ sent.num["max_tokens"] > sent.num["budget"] \/ sent.num["budget"] = TokenCap
         /\ DOMAIN sent.word \cap {"temperature", "top_p", "top_k"} = {}
         /\ "tool_choice" \in DOMAIN sent.word => ~Forced(sent.word["tool_choice"])
    /\ RejectsForcedToolChoice(request.model) /\ down # up /\ "tool_choice" \in DOMAIN sent.word
         => ~Forced(sent.word["tool_choice"])

=============================================================================
