-------------------------- MODULE MessagesSampling --------------------------
(***************************************************************************)
(* encode_sampling of map/messages.rs: the wire on which the fields depend *)
(* on each other, because Anthropic refuses a request whose thinking,      *)
(* token limit, sampling and tool choice do not fit together.              *)
(***************************************************************************)
EXTENDS Sampling

CompletionTokens == 2   \* MESSAGES_DEFAULT_COMPLETION_TOKENS, 4096
ThinkingBudget == 5     \* MESSAGES_DEFAULT_THINKING_BUDGET, 10240
EffortBudget(v) ==
  IF v = "low" THEN 2 ELSE IF v = "high" THEN 16
  ELSE IF v \in {"xhigh", "x-high"} THEN 32 ELSE ThinkingBudget

MessagesDrops ==
  {"store", "top_logprobs", "logprobs", "metadata", "json_schema_strict",
   "json_schema_description", "include", "json_object"}
  \cup CacheKeys \cup ChatSamplingExtras \cup ChatLogitBias \cup NAndPenalties \cup GeminiOnly
  \cup OutputModalities \cup Labels \cup ConverseOnly \cup ResponsesOnly

-----------------------------------------------------------------------------
(* encode_thinking.                                                        *)

AsksForThinking(r) ==
  \E f \in {"include_thoughts", "reasoning_effort", "max_reasoning_tokens", "thinking_budget"} :
    IsSet(r, f)
Thinking(r) ==
  IF IsSet(r, "messages_thinking") THEN "native"
  ELSE IF Says(r, "include_thoughts", "false") THEN "disabled"
  ELSE IF AsksForThinking(r) THEN "enabled" ELSE "off"

Budget(r) ==
  IF IsSet(r, "max_reasoning_tokens") THEN r.num["max_reasoning_tokens"]
  ELSE IF IsSet(r, "thinking_budget") THEN r.num["thinking_budget"]
  ELSE IF IsSet(r, "reasoning_effort") THEN EffortBudget(r.word["reasoning_effort"])
  ELSE ThinkingBudget

\* budget.saturating_add(4096)
Raised(budget) == IF budget + CompletionTokens > TokenCap THEN TokenCap
                  ELSE budget + CompletionTokens

MutTooSmall(r) == Thinking(r) = "enabled" /\ Number(r, "max_tokens") < Budget(r)
TooSmall(r) == Thinking(r) = "enabled" /\ Number(r, "max_tokens") <= Budget(r)
MessagesMaxTokens(r) ==
  IF TooSmall(r) THEN Raised(Budget(r))
  ELSE IF IsSet(r, "max_tokens") THEN r.num["max_tokens"] ELSE CompletionTokens

ThinkingFieldFate(r, f) ==
  IF f = "max_tokens" THEN (IF TooSmall(r) THEN Lossy("") ELSE Keep(""))
  ELSE IF f = "messages_thinking" THEN Keep(r.word[f])
  ELSE IF f = "include_thoughts" THEN KeepIf(Thinking(r) # "native", r.word[f])
  ELSE IF f = "reasoning_effort" THEN KeepIf(~Says(r, "include_thoughts", "false"), r.word[f])
  ELSE IF Thinking(r) \in {"native", "disabled"} THEN NoSlot
  ELSE IF r.num[f] = Budget(r) THEN Keep("") ELSE Lossy("")
ThinkingFields == {"max_tokens", "messages_thinking", "include_thoughts", "reasoning_effort",
                   "max_reasoning_tokens", "thinking_budget"}

-----------------------------------------------------------------------------
(* Tool choice.                                                            *)

Forced(v) == v \in {"required", "named"}
\* omit_sampling_rejected_by_thinking, then omit_forced_tool_choice_rejected_by_model,
\* which the proxy takes back for a client of the same wire.
MessagesToolChoice(m, r, same) ==
  LET v == r.word["tool_choice"] IN
  IF Forced(v) /\ (Thinking(r) = "enabled" \/ (RejectsForcedToolChoice(m) /\ ~same))
  THEN Lossy("auto") ELSE Keep(v)

\* encode_disable_parallel_tool_use: `true` is the default and is not written
\* unless there is a tool_choice object; `false` creates one.
Parallel(r) ==
  IF Says(r, "parallel_tool_calls", "true") /\ ~IsSet(r, "tool_choice") THEN Unsaid
  ELSE Keep(r.word["parallel_tool_calls"])
AddsChoice(r) == Says(r, "parallel_tool_calls", "false") /\ ~IsSet(r, "tool_choice")

MessagesServiceTier(v) ==
  IF v = "auto" THEN Keep(v) ELSE IF v = "default" THEN Lossy("standard_only") ELSE NoSlot

-----------------------------------------------------------------------------
(* apply_cache_breakpoints: the places that get a cache_control.  `shape`   *)
(* holds the parts of the body that can carry one; a long ttl has to sit    *)
(* early, so it prefers the tools.                                          *)

CacheTags(ttl, shape) ==
  IF ttl = "1h" /\ "tools" \in shape
  THEN {"tools"} \cup (IF "system" \in shape THEN {"system"} ELSE {"user"} \cap shape)
  ELSE {"system", "user"} \cap shape
CacheFate(ttl, shape) == IF CacheTags(ttl, shape) = {} THEN NoSlot ELSE Keep(ttl)

-----------------------------------------------------------------------------
MessagesRejects(r) ==
  IF Thinking(r) = "enabled" THEN {"temperature", "top_p", "top_k"} ELSE {}

MessagesFate(m, r, f, shape, same) ==
  IF f \in MessagesDrops \cup MessagesRejects(r) THEN NoSlot
  ELSE IF f \in ThinkingFields THEN ThinkingFieldFate(r, f)
  ELSE IF f = "stop" THEN KeptStop(r.word[f])
  ELSE IF f = "tool_choice" THEN MessagesToolChoice(m, r, same)
  ELSE IF f = "parallel_tool_calls" THEN Parallel(r)
  ELSE IF f = "service_tier" THEN MessagesServiceTier(r.word[f])
  ELSE IF f = "previous_response_id" THEN Lossy("")
  ELSE IF f = "json_schema" THEN KeepIf(ObjectSchema(r), r.word[f])
  ELSE IF f = "json_schema_name" THEN KeepIf(~ObjectSchema(r), "")
  ELSE IF f = "cache" THEN CacheFate(r.word[f], shape)
  ELSE Keep(r.word[f])

=============================================================================
