---------------------------- MODULE EncoderState ----------------------------
(***************************************************************************)
(* The state every wire's encoder shares (stream/encoder.rs StreamEncoder),*)
(* its tool-slot allocation, and the frames it puts out.  An encoder step  *)
(* is an operator from state to state that appends to s.out.               *)
(*                                                                         *)
(* A frame is reduced to its role: head, start/delta/note/stop of block b, *)
(* item (a finished Responses item with all it holds), call (a whole       *)
(* Gemini function call), part (content outside any block), final (the     *)
(* reason the answer ended), usage, meta, end, error.  n lists the         *)
(* payloads it carries; tag is a call's id or a reason.                    *)
(***************************************************************************)
EXTENDS StreamEvents, SequencesExt

NoBlock == [b |-> 0, k |-> "none"]
NoB == 99
Unset == ""

\* A reason the upstream gives is never the mark that it gave none.
ASSUME ReasonsAssumption == Unset \notin Reasons

EncInit(wire) ==
  [wire |-> wire, started |-> FALSE, finished |-> FALSE, failed |-> FALSE,
   nextBlock |-> 0, open |-> NoBlock, finish |-> Unset, usage |-> FALSE,
   used |-> {}, sawCustom |-> FALSE, nextTool |-> 0,
   slots |-> [i \in Index |-> <<>>], gotArg |-> {},
   last |-> <<>>,      \* last_tool: upstream index -> slot
   ids |-> <<>>,       \* tool_ids: slot -> call id
   items |-> <<>>,     \* tool_items, text_items...: open Responses items
   held |-> <<>>,      \* held_tools, by upstream index (Messages)
   heldEnc |-> <<>>,   \* responses_held, converse_held: by slot
   calls |-> <<>>,     \* gemini_open_calls, by upstream index
   later |-> <<>>,     \* gemini_deferred
   deferred |-> <<>>, closed |-> {}, custom |-> <<>>, refusal |-> <<>>,
   out |-> <<>>]

\* HashMap insert and remove.
Put(m, k, v) == [x \in DOMAIN m \cup {k} |-> IF x = k THEN v ELSE m[x]]
Del(m, k) == Restrict(m, DOMAIN m \ {k})

Frame(f, b, n, tag) == [f |-> f, b |-> b, n |-> n, tag |-> tag]
Emit(s, f, b, n) == [s EXCEPT !.out = Append(@, Frame(f, b, n, ""))]
EmitTag(s, f, b, n, tag) == [s EXCEPT !.out = Append(@, Frame(f, b, n, tag))]
EmitSome(s, f, b, n) == IF n = <<>> THEN s ELSE Emit(s, f, b, n)

IsCustom(e) == e.k \in {"cstart", "cargs"}

-----------------------------------------------------------------------------
\* alloc_tool: Chat numbers calls densely, the others number blocks.  The slot
\* queue of the index restarts when its newest call already has arguments.
\* (next_tool is above every used slot, so the scan for a free one ends there.)
AllocTool(s, i) ==
  LET enc == IF s.wire = "chat" THEN s.nextTool ELSE s.nextBlock
      q == s.slots[i]
      keep == IF q # <<>> /\ Last(q) \in s.gotArg THEN <<>> ELSE q IN
  [s EXCEPT !.nextBlock = IF s.wire = "chat" THEN @ ELSE @ + 1,
            !.nextTool = IF @ > enc THEN @ ELSE enc + 1,
            !.used = @ \cup {enc},
            !.slots[i] = Append(keep, enc),
            !.last = Put(@, i, enc)]

\* tool_enc: the oldest slot of the index takes the fragment; a queue of two or
\* more advances.  A fragment with no call at all allocates one.
ToolEnc(s, i) ==
  LET q == s.slots[i] IN
  IF q = <<>> /\ i \notin DOMAIN s.last
    THEN LET a == AllocTool(s, i) IN [s |-> a, enc |-> a.last[i]]
    ELSE LET enc == IF q # <<>> THEN Head(q) ELSE s.last[i] IN
         [s |-> [s EXCEPT !.gotArg = @ \cup {enc},
                          !.slots[i] = IF Len(q) > 1 THEN Tail(q) ELSE q],
          enc |-> enc]

\* note_custom_slot, and the buffer a custom tool's input collects in.
NoteCustom(s, enc, e) ==
  IF IsCustom(e) /\ enc \notin DOMAIN s.custom
    THEN [s EXCEPT !.custom = Put(@, enc, <<>>)] ELSE s
AddCustom(s, enc, e) ==
  [s EXCEPT !.custom = Put(@, enc, IF enc \in DOMAIN @ THEN Append(@[enc], e.n) ELSE <<e.n>>)]
CustomOf(s, enc) == IF enc \in DOMAIN s.custom THEN s.custom[enc] ELSE <<>>
=============================================================================
