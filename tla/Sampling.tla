------------------------------ MODULE Sampling ------------------------------
(***************************************************************************)
(* The request fields beside the messages (IrSampling): which of them each *)
(* client's decoder reads and what each vendor's encode_sampling does with *)
(* them.  A request `r` has words, numbers and a model; a field that is    *)
(* not set is not in the function's domain.                                *)
(*                                                                         *)
(* Token numbers are in units of 2048, so 4096 is 2 and 10240 is 5.        *)
(***************************************************************************)
EXTENDS Naturals, FiniteSets

CONSTANT TokenCap   \* u32::MAX in units of 2048
\* Above the largest budget of an effort (65536, EffortBudget).
ASSUME TokenCapAssumption == TokenCap \in Nat /\ TokenCap >= 32

IsSet(r, f) == f \in DOMAIN r.word \cup DOMAIN r.num
Says(r, f, v) == f \in DOMAIN r.word /\ r.word[f] = v
Number(r, f) == IF f \in DOMAIN r.num THEN r.num[f] ELSE 0

\* What becomes of a field: the value written ("" for none) and the LossAction
\* recorded ("" for none).
Fate(act, to) == [act |-> act, to |-> to]
Keep(v) == Fate("", v)
Lossy(v) == Fate("Degrade", v)
NoSlot == Fate("Drop", "")
Unsaid == Fate("", "")
KeepIf(p, v) == IF p THEN Keep(v) ELSE NoSlot

-----------------------------------------------------------------------------
(* The fields, grouped as the helpers of map/mod.rs drop them.             *)

ResponsesOnly ==
  {"truncation", "max_tool_calls", "background", "conversation", "responses_context_management"}
ChatLogitBias == {"logit_bias", "prediction", "web_search_options"}
ChatSamplingExtras ==
  {"prompt_cache_mode", "prompt_cache_ttl", "moderation_model", "moderation_input",
   "moderation_output", "include_obfuscation"}
GeminiOnly ==
  {"media_resolution", "image_config", "audio_transcription_config", "translation_config",
   "affective_dialog", "enhanced_civic_answers", "multi_speaker_speech", "cached_content",
   "safety_settings", "request_labels"}
NAndPenalties == {"frequency_penalty", "presence_penalty", "seed", "n"}
OutputModalities == {"output_modalities", "audio_voice", "audio_format"}
MessagesOnly ==
  {"inference_geo", "previous_message_id", "container", "context_management", "mcp_servers"}
ConverseOnly ==
  {"performance_latency", "response_field_paths", "additional_request_fields",
   "prompt_variables", "guardrail"}
CacheKeys == {"prompt_cache_key", "prompt_cache_retention"}
Labels == {"verbosity", "safety_identifier"}
SchemaNotes == {"json_schema_name", "json_schema_strict", "json_schema_description"}
Everywhere == {"temperature", "top_p", "max_tokens", "stop", "tool_choice", "service_tier",
               "reasoning_effort", "json_schema"}
Session == {"parallel_tool_calls", "store", "stream"}

-----------------------------------------------------------------------------
(* decode_sampling of the five wires: the fields each fills, and what it   *)
(* makes of them.                                                          *)

ChatReads ==
  Everywhere \cup Session \cup SchemaNotes \cup NAndPenalties \cup OutputModalities
  \cup CacheKeys \cup Labels \cup ChatSamplingExtras \cup ChatLogitBias
  \cup {"previous_response_id", "max_reasoning_tokens", "json_object", "logprobs",
        "top_logprobs", "user", "metadata"}
ResponsesReads ==
  Everywhere \cup Session \cup SchemaNotes \cup CacheKeys \cup Labels
  \cup ChatSamplingExtras \cup ResponsesOnly
  \cup {"previous_response_id", "max_reasoning_tokens", "include_thoughts", "json_object",
        "include", "top_logprobs", "user", "metadata"}
MessagesReads ==
  Everywhere \cup Session \cup MessagesOnly
  \cup {"previous_response_id", "top_k", "cache", "include_thoughts", "max_reasoning_tokens",
        "messages_thinking", "json_schema_name", "user"}
GeminiReads ==
  Everywhere \cup Session \cup NAndPenalties \cup GeminiOnly
  \cup {"top_k", "include_thoughts", "thinking_budget", "json_schema_name", "json_object",
        "logprobs", "top_logprobs", "output_modalities", "audio_voice"}
ConverseReads ==
  Everywhere \cup ConverseOnly \cup {"json_schema_name", "json_schema_description", "metadata"}
Reads(w) == CASE w = "chat" -> ChatReads [] w = "responses" -> ResponsesReads
              [] w = "messages" -> MessagesReads [] w = "gemini" -> GeminiReads
              [] OTHER -> ConverseReads

\* A number of the client's body: u32_field reads none above u32::MAX, while Converse
\* casts with `as u32`, which keeps the low 32 bits.
ReadNumber(w, n) == IF w = "converse" THEN {n % (TokenCap + 1)} ELSE {n} \cap 0..TokenCap

\* The decoders' own rules: one response format, top_logprobs implies logprobs,
\* thinking is one of three objects on Messages, a summary can only be asked for
\* on Responses, the schema is an object where it is not a string.
Decodes(w, r) ==
  /\ IsSet(r, "json_object") => ~IsSet(r, "json_schema")
  /\ w \in {"chat", "gemini"} /\ IsSet(r, "top_logprobs") => IsSet(r, "logprobs")
  /\ w \in {"messages", "gemini"} =>
       (IsSet(r, "json_schema_name") <=> IsSet(r, "json_schema"))
  /\ w \notin {"chat", "responses"} => ~Says(r, "json_schema", "other")
  /\ w = "converse" => ~Says(r, "tool_choice", "none")
  /\ w = "responses" => ~Says(r, "include_thoughts", "false")
  /\ w = "gemini" => ~(IsSet(r, "multi_speaker_speech") /\ IsSet(r, "audio_voice"))
  /\ w = "messages" =>
       /\ IsSet(r, "max_reasoning_tokens") => Says(r, "include_thoughts", "true")
       /\ IsSet(r, "messages_thinking") => ~IsSet(r, "include_thoughts")

-----------------------------------------------------------------------------
(* What the model's family refuses, and the ranges.                        *)

UsesMaxCompletionTokens(m) == m \in {"o1", "o3", "gpt5", "gpt5.1"}
ChatStopUnsupported(m) == m = "o3"
Gpt5SamplingParamsRejected(m, r) ==
  \/ m = "gpt5"
  \/ m = "gpt5.1" /\ IsSet(r, "reasoning_effort") /\ ~Says(r, "reasoning_effort", "none")
RejectsForcedToolChoice(m) == m = "claude55"

OutOfRange(r, most) ==
  \/ Says(r, "temperature", "bad") \/ Says(r, "top_p", "bad")
  \/ most = 1 /\ Says(r, "temperature", "high")
RefusedNumber(w, m, r) ==
  \/ "max_tokens" \in DOMAIN r.num /\ r.num["max_tokens"] = 0
  \/ w = "chat" /\ \/ ~UsesMaxCompletionTokens(m) /\ OutOfRange(r, 2)
                   \/ Says(r, "frequency_penalty", "bad") \/ Says(r, "presence_penalty", "bad")
                   \/ Says(r, "n", "bad")
  \/ w = "responses" /\ ~Gpt5SamplingParamsRejected(m, r) /\ OutOfRange(r, 2)
  \/ w \in {"messages", "converse"} /\ OutOfRange(r, 1)

\* "mixed" has an empty stop sequence beside a real one, "blank" only empty ones.
KeptStop(v) ==
  IF v = "text" THEN Keep(v) ELSE IF v = "mixed" THEN Fate("Drop", "text") ELSE NoSlot
\* "both" asks for text and an image.
KeptModalities(v, known) ==
  IF v \in known \/ (v = "both" /\ "image" \in known) THEN Keep(v)
  ELSE IF v = "both" THEN Lossy("text") ELSE NoSlot
\* top_logprobs turns them on, whatever logprobs says.
LogprobsFate(r) ==
  IF Says(r, "logprobs", "true") \/ IsSet(r, "top_logprobs") THEN Keep("true") ELSE Unsaid
ObjectSchema(r) == Says(r, "json_schema", "object")
OfficialJsonSchema(r, f) ==
  IF ObjectSchema(r) /\ IsSet(r, "json_schema_name") THEN Keep(r.word[f])
  ELSE IF f = "json_schema" THEN NoSlot ELSE Unsaid

-----------------------------------------------------------------------------
(* Chat.                                                                   *)

ChatDrops ==
  {"top_k", "cache", "max_reasoning_tokens", "include_thoughts", "include", "thinking_budget",
   "messages_thinking"}
  \cup GeminiOnly \cup MessagesOnly \cup ConverseOnly \cup ResponsesOnly

ChatRejects(m, r) ==
  (IF UsesMaxCompletionTokens(m) THEN {"temperature", "top_p"} ELSE {})
  \cup (IF ChatStopUnsupported(m) THEN {"stop"} ELSE {})
  \cup (IF Gpt5SamplingParamsRejected(m, r)
          /\ (Says(r, "logprobs", "true") \/ IsSet(r, "top_logprobs"))
        THEN {"logprobs", "top_logprobs"} ELSE {})

\* encode_output_modalities_and_audio: the format goes with the audio object.
ChatAudio(r) == IsSet(r, "audio_voice") \/ Says(r, "output_modalities", "audio")

ChatFate(m, r, f) ==
  IF f \in ChatDrops \cup ChatRejects(m, r) THEN NoSlot
  ELSE IF f = "stop" THEN KeptStop(r.word[f])
  ELSE IF f = "previous_response_id" THEN Lossy("")
  ELSE IF f = "logprobs" THEN LogprobsFate(r)
  ELSE IF f \in SchemaNotes \cup {"json_schema"} THEN OfficialJsonSchema(r, f)
  ELSE IF f = "output_modalities" THEN KeptModalities(r.word[f], {"text", "audio"})
  ELSE IF f = "audio_format" /\ ~ChatAudio(r) THEN Unsaid
  ELSE Keep(r.word[f])

-----------------------------------------------------------------------------
(* Responses.                                                              *)

ResponsesDrops ==
  {"top_k", "stop", "cache", "max_reasoning_tokens", "thinking_budget", "messages_thinking",
   "logprobs"}
  \cup NAndPenalties \cup GeminiOnly \cup OutputModalities \cup ChatLogitBias
  \cup MessagesOnly \cup ConverseOnly

ResponsesRejects(m, r) ==
  IF Gpt5SamplingParamsRejected(m, r) THEN {"temperature", "top_p", "top_logprobs"} ELSE {}

ResponsesFate(m, r, f) ==
  IF f \in ResponsesDrops \cup ResponsesRejects(m, r) THEN NoSlot
  ELSE IF f = "include_thoughts" THEN KeepIf(r.word[f] = "true", r.word[f])
  ELSE IF f \in SchemaNotes \cup {"json_schema"} THEN OfficialJsonSchema(r, f)
  ELSE Keep(r.word[f])

-----------------------------------------------------------------------------
(* Gemini.                                                                 *)

GeminiDrops ==
  {"parallel_tool_calls", "previous_response_id", "cache", "stream", "include", "user",
   "metadata", "audio_format", "json_schema_strict", "json_schema_description",
   "messages_thinking"}
  \cup CacheKeys \cup ChatSamplingExtras \cup ChatLogitBias \cup Labels
  \cup MessagesOnly \cup ConverseOnly \cup ResponsesOnly

GeminiServiceTier(v) ==
  IF v = "flex" THEN Keep(v) ELSE IF v \in {"default", "auto"} THEN Lossy("standard") ELSE NoSlot
GeminiThinkingLevel(v) == IF v \in {"xhigh", "x-high"} THEN Lossy("high") ELSE Keep(v)

GeminiFate(r, f) ==
  IF f \in GeminiDrops THEN NoSlot
  ELSE IF f = "stop" THEN KeptStop(r.word[f])
  ELSE IF f = "logprobs" THEN LogprobsFate(r)
  ELSE IF f = "reasoning_effort" THEN GeminiThinkingLevel(r.word[f])
  ELSE IF f = "json_schema" THEN KeepIf(ObjectSchema(r), r.word[f])
  ELSE IF f = "json_schema_name" THEN Unsaid
  ELSE IF f = "output_modalities" THEN KeptModalities(r.word[f], {"text", "audio", "image"})
  ELSE IF f = "service_tier" THEN GeminiServiceTier(r.word[f])
  ELSE IF f = "max_reasoning_tokens" THEN KeepIf(~IsSet(r, "thinking_budget"), "")
  ELSE IF f = "thinking_budget" THEN Keep("")
  ELSE Keep(r.word[f])

\* thinkingConfig.thinkingBudget.
GeminiBudget(r) ==
  IF IsSet(r, "thinking_budget") THEN {r.num["thinking_budget"]}
  ELSE {r.num[f] : f \in {"max_reasoning_tokens"} \cap DOMAIN r.num}

-----------------------------------------------------------------------------
(* Converse.                                                               *)

ConverseDrops ==
  {"top_k", "store", "previous_response_id", "stream", "cache", "include", "user",
   "parallel_tool_calls", "include_thoughts", "thinking_budget", "max_reasoning_tokens",
   "json_schema_strict", "messages_thinking", "logprobs", "top_logprobs"}
  \cup CacheKeys \cup ChatSamplingExtras \cup ChatLogitBias \cup NAndPenalties \cup GeminiOnly
  \cup OutputModalities \cup Labels \cup MessagesOnly \cup ResponsesOnly

ConverseServiceTier(v) ==
  IF v \in {"flex", "default"} THEN Keep(v) ELSE IF v = "auto" THEN Lossy("default") ELSE NoSlot
ConverseEffort(v) ==
  IF v \in {"low", "medium", "high", "xhigh"} THEN Keep(v)
  ELSE IF v = "x-high" THEN Lossy("xhigh") ELSE NoSlot

\* The tool choice is part of toolConfig, which is only there with tools.
ConverseToolChoice(v, tools) ==
  IF tools = {} THEN Unsaid ELSE IF v = "none" THEN Lossy("") ELSE Keep(v)

ConverseFate(r, f, tools) ==
  IF f \in ConverseDrops THEN NoSlot
  ELSE IF f = "stop" THEN KeptStop(r.word[f])
  ELSE IF f \in {"json_schema", "json_schema_name", "json_schema_description"}
    THEN KeepIf(ObjectSchema(r), r.word[f])
  ELSE IF f = "json_object" THEN KeepIf(IsSet(r, "json_schema"), "")
  ELSE IF f = "reasoning_effort" THEN ConverseEffort(r.word[f])
  ELSE IF f = "service_tier" THEN ConverseServiceTier(r.word[f])
  ELSE IF f = "tool_choice" THEN ConverseToolChoice(r.word[f], tools)
  ELSE Keep(r.word[f])

=============================================================================
