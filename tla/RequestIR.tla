------------------------------ MODULE RequestIR ------------------------------
(***************************************************************************)
(* The request side of the intermediate representation: what a client's    *)
(* message decodes to, the body an encoder builds and the loss report.     *)
(*                                                                         *)
(* A payload is a number, the position of the block in the client's        *)
(* request, so no two payloads are equal and their order is the client's.  *)
(***************************************************************************)
EXTENDS Naturals, Sequences, FiniteSets, SequencesExt, TLC

\* IrPart: what a content part is.  "blank" is white space, "void" media with
\* empty data, "imageFile" an image that is only a file id; "docData" an inline
\* PDF or plain text, "docSheet" an inline csv or docx.  Raw parts are told
\* apart by the wire that wrote them: "typed" and "mfile" (a Files API image)
\* have a JSON `type`, "gfile" and "gtool" are Gemini's, "hint" is Gemini's
\* inline image with a media hint, "ginline" its named image in a function
\* response, "video" any of Converse's objects, "json" a JSON tool result.
Documents == {"docData", "docSheet", "docText", "docUrl", "docS3", "docFile"}
Raws == {"typed", "mfile", "gfile", "gtool", "hint", "ginline", "video", "json"}
PartTypes == {"text", "blank", "imageUrl", "imageFile", "image", "void",
              "signed", "unsigned", "audio"} \cup Documents \cup Raws

\* bp: the part is wrapped in a prompt-cache breakpoint.
Part(t, n, bp) == [t |-> t, n |-> n, bp |-> bp]

\* IrItem.  `out` is the payloads of its text, where it has one beside its parts
\* (FunctionOutput.output, System.text, Developer.text); `at` holds
\* the optional attributes: phase, err (is_error), sig (thought signature), bp,
\* sum (the reasoning has a summary).
Item(k, n, id, parts, out, at) ==
  [k |-> k, n |-> n, id |-> id, parts |-> parts, out |-> out, at |-> at]
TurnItem(k, parts) == Item(k, 0, "", parts, <<>>, {})

\* A block of the body: its kind, call id, payloads, and the attributes it kept,
\* each as <<payload, attribute>>.
Block(t, id, ns, at) == [t |-> t, id |-> id, ns |-> ns, at |-> at]
Turn(role, blocks) == [role |-> role, blocks |-> blocks]
Placeholder == Block("text", "", <<>>, {})

\* LossReport: what happened to a payload or to one of its attributes.
Loss(n, what, act) == [n |-> n, what |-> what, act |-> act]

\* The encoder's accumulators: system blocks, turns, loss report, and the tool
\* ids already given out (messages.rs tool_ids).
Empty == [sys |-> <<>>, turns |-> <<>>, rep |-> {}, ids |-> <<>>]

Note(s, losses) == [s EXCEPT !.rep = @ \cup losses]
PushTurn(s, role, blocks) == [s EXCEPT !.turns = Append(@, Turn(role, blocks))]
LastRole(s) == IF s.turns = <<>> THEN "" ELSE Last(s.turns).role
JoinLast(s, blocks) == [s EXCEPT !.turns[Len(s.turns)].blocks = @ \o blocks]
\* gemini.rs push_role_part and its counterparts in converse.rs.
MutPushRole(s, role, blocks) == PushTurn(s, role, blocks)
PushRole(s, role, blocks) ==
  IF LastRole(s) = role THEN JoinLast(s, blocks) ELSE PushTurn(s, role, blocks)

-----------------------------------------------------------------------------
(* Helpers shared by the encoders (map/mod.rs).                            *)

\* What an encoder does with a part: keep it, keep its text ("degrade"), drop it
\* with a loss event, or leave it out without one ("omit").
Survives(fate) == fate \in {"keep", "degrade"}

\* apply_prompt_cache: a breakpoint on a wire without the field is a drop.
PartLoss(p, fate, keepsBp) ==
  (CASE fate = "keep" -> {}
     [] fate = "degrade" -> {Loss(p.n, "part", "Degrade")}
     [] fate = "drop" -> {Loss(p.n, "part", "Drop")}
     [] OTHER -> {})
  \cup (IF p.bp /\ ~(keepsBp /\ Survives(fate)) THEN {Loss(p.n, "bp", "Drop")} ELSE {})

Breakpoints(parts) == {<<parts[i].n, "bp">> : i \in {j \in DOMAIN parts : parts[j].bp}}
PartBlock(p, keepsBp) ==
  Block(p.t, "", <<p.n>>, IF keepsBp THEN Breakpoints(<<p>>) ELSE {})

\* encode_parts of a wire: `fate` is its table of part types.
EncodeParts(parts, Fate(_), keepsBp) ==
  LET kept == SelectSeq(parts, LAMBDA p : Survives(Fate(p.t))) IN
  [i \in DOMAIN kept |-> PartBlock(kept[i], keepsBp)]
PartLosses(parts, Fate(_), keepsBp) ==
  UNION {PartLoss(parts[i], Fate(parts[i].t), keepsBp) : i \in DOMAIN parts}

Payloads(parts) == [i \in DOMAIN parts |-> parts[i].n]

\* function_output_text: bare text parts and JSON in order, else the output
\* string followed by the JSON.
MutFunctionOutputText(item) == item.out
FunctionOutputText(item) ==
  LET bare(p) == p.t = "text" /\ ~p.bp
      json(p) == p.t = "json" IN
  IF \E i \in DOMAIN item.parts : bare(item.parts[i])
    THEN Payloads(SelectSeq(item.parts, LAMBDA p : bare(p) \/ json(p)))
    ELSE item.out \o Payloads(SelectSeq(item.parts, json))

HasBareText(parts) == \E i \in DOMAIN parts : parts[i].t = "text" /\ ~parts[i].bp
HasBreakpoint(parts) == \E i \in DOMAIN parts : parts[i].bp

\* A system or developer role: role_content_parts keeps several parts, one with a
\* breakpoint, as they are; any other role is the text its wire's parts_text made.
RoleItem(k, parts, text) ==
  Item(k, 0, "", parts, IF Len(parts) > 1 /\ HasBreakpoint(parts) THEN Payloads(parts) ELSE text, {})

\* system_role_text and note_role_breakpoint: the role's text, its breakpoint
\* lost on a wire without the field.
RoleBlock(item, keepsBp) ==
  Block("text", "", item.out,
        IF keepsBp THEN Breakpoints(item.parts) ELSE {})
MutRoleLoss(item, keepsBp) == {}
RoleLoss(item, keepsBp) ==
  IF keepsBp THEN {}
  ELSE {Loss(item.parts[i].n, "bp", "Drop") :
          i \in {j \in DOMAIN item.parts : item.parts[j].bp}}

\* Gemini and Converse leave out a role without text.
PushRoleText(s, item) ==
  IF item.out = <<>> THEN s ELSE [s EXCEPT !.sys = Append(@, RoleBlock(item, FALSE))]

Kept(item, at) == IF at \in item.at THEN {<<item.n, at>>} ELSE {}
\* drop_assistant_phase, and the is_error and thought-signature drops.
AttrLoss(item, at) ==
  IF at \in item.at THEN {Loss(item.n, at, "Drop")} ELSE {}
ItemLoss(item, act) == {Loss(item.n, "item", act)}
\* Losing a turn's place in the list loses no payload.
TurnLoss(item, act) ==
  {Loss(item.parts[i].n, "turn", act) : i \in DOMAIN item.parts}

\* dropped_details.
Dropped(s) == \E l \in s.rep : l.act = "Drop"

\* The items after i that are all of the given kinds.
MutRunAfter(items, i, kinds) ==
  SelectSeq(SubSeq(items, i + 1, Len(items)), LAMBDA item : item.k \in kinds)
RunAfter(items, i, kinds) ==
  LET js == {j \in (i + 1)..Len(items) : \A m \in (i + 1)..j : items[m].k \in kinds} IN
  SubSeq(items, i + 1, i + Cardinality(js))
\* Item i was taken by the turn an earlier item opened.
Absorbed(items, i, kinds, head) ==
  \E j \in 1..(i - 1) : /\ items[j].k = head
                        /\ \A m \in (j + 1)..i : items[m].k \in kinds

\* The encoders' loop over the items.
EncodeItems(items, Enc(_, _)) ==
  FoldLeft(Enc, Empty, [i \in DOMAIN items |-> i])
Flat(seqs) == FlattenSeq(seqs)
=============================================================================
