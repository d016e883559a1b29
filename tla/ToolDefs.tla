------------------------------ MODULE ToolDefs ------------------------------
(***************************************************************************)
(* Tool definitions (map/tools.rs): what a client's `tools` decode to, and *)
(* what prepare_tools and the vendor's encoder make of them under the      *)
(* profile's tool_type_policy.  Wires are "chat", "messages", "responses", *)
(* "gemini" and "converse"; a tool is told apart by its place.             *)
(***************************************************************************)
EXTENDS Naturals, FiniteSets

\* "strict" is a function with a strict flag, "unnamed" one without a name,
\* "namespace" holds two functions, "hollow" none; "builtin" is one of Gemini's,
\* "point" Converse's cache point, "system" its system tool.
ToolKinds == {"function", "strict", "unnamed", "namespace", "hollow", "hosted", "custom",
              "other", "builtin", "point", "system"}
Policies == {"passthrough", "flatten-namespace", "hard-error"}

\* decode_tool, gemini.rs decode_tools and converse.rs decode.
DecodedTools(w) ==
  CASE w = "gemini" -> {"function", "unnamed", "builtin"}
    [] w = "converse" -> {"function", "strict", "unnamed", "point", "system"}
    [] OTHER -> ToolKinds \ {"builtin", "point", "system"}

-----------------------------------------------------------------------------
(* prepare_tools.  One tool becomes `n` prepared ones, which are functions   *)
(* or raw JSON, with its losses, or the request is refused.                  *)

Outcome(n, raw, losses) == [n |-> n, raw |-> raw, rep |-> losses, refused |-> FALSE]
Refusal == [n |-> 0, raw |-> FALSE, rep |-> {}, refused |-> TRUE]
AsItIs == Outcome(1, TRUE, {})

KeepsStrict(w) == w \in {"chat", "responses", "converse"}
StrictLoss(w, i) == IF KeepsStrict(w) THEN {} ELSE {<<i, "Drop">>}

PushFunction(w, kind, i) ==
  IF kind = "unnamed" THEN Refusal
  ELSE Outcome(1, FALSE, IF kind = "strict" THEN StrictLoss(w, i) ELSE {})

MutPushNamespace(w, kind, policy, i) ==
  IF policy = "passthrough" \/ (policy = "hard-error" /\ w = "responses") THEN AsItIs
  ELSE IF policy = "flatten-namespace" THEN Outcome(2, FALSE, {<<i, "Degrade">>})
  ELSE Outcome(0, FALSE, {})
PushNamespace(w, kind, policy, i) ==
  IF policy = "passthrough" \/ (policy = "hard-error" /\ w = "responses") THEN AsItIs
  ELSE IF policy = "flatten-namespace" /\ kind = "namespace"
    THEN Outcome(2, FALSE, {<<i, "Degrade">>})
  ELSE Refusal

PushCustomTool(w, i) ==
  IF w \in {"chat", "responses"} THEN AsItIs ELSE Outcome(1, FALSE, {<<i, "Degrade">>})

PushHosted(w, policy, i) ==
  IF policy = "passthrough" \/ w = "responses" THEN AsItIs ELSE Refusal

PushConverseTool(w, i) ==
  IF w = "converse" THEN AsItIs ELSE Outcome(0, TRUE, {<<i, "Drop">>})

PushUnknown(policy) == IF policy = "passthrough" THEN AsItIs ELSE Refusal

PushTool(w, kind, policy, i) ==
  IF kind \in {"namespace", "hollow"} THEN PushNamespace(w, kind, policy, i)
  ELSE IF kind = "hosted" THEN PushHosted(w, policy, i)
  ELSE IF kind \in {"point", "system"} THEN PushConverseTool(w, i)
  ELSE IF kind = "custom" THEN PushCustomTool(w, i)
  ELSE IF kind \in {"other", "builtin"} THEN PushUnknown(policy)
  ELSE PushFunction(w, kind, i)

\* A prepared tool: the place of the client's tool it comes from, which of the
\* tools made of that one it is, and whether it is raw.
Prepared(i, nth, raw) == [i |-> i, nth |-> nth, raw |-> raw]
\* The vector as the set of its members, each with its place; the first error
\* refuses the whole request.
PrepareTools(w, tools, policy) ==
  LET one == [i \in DOMAIN tools |-> PushTool(w, tools[i], policy, i)] IN
  [list |-> UNION {{Prepared(i, k, one[i].raw) : k \in 1..one[i].n} : i \in DOMAIN tools},
   rep |-> UNION {one[i].rep : i \in DOMAIN tools},
   refused |-> \E i \in DOMAIN tools : one[i].refused]
Place(list, t) == Cardinality({s \in list : s.i < t.i \/ (s.i = t.i /\ s.nth <= t.nth)})

-----------------------------------------------------------------------------
(* The vendor's list.  Gemini has no slot for raw tools other than its own   *)
(* and reports the place in the prepared list; Converse has no "none", so    *)
(* that choice takes the tools away.                                         *)

GeminiTools(tools, ready) ==
  LET fits(t) == ~t.raw \/ tools[t.i] = "builtin" IN
  [sent |-> {t.i : t \in {u \in ready.list : fits(u)}},
   rep |-> ready.rep
           \cup {<<Place(ready.list, t), "Drop">> : t \in {u \in ready.list : ~fits(u)}}]

EncodeTools(w, tools, ready, none) ==
  IF w = "gemini" THEN GeminiTools(tools, ready)
  ELSE [sent |-> IF w = "converse" /\ none THEN {} ELSE {t.i : t \in ready.list},
        rep |-> ready.rep]

=============================================================================
