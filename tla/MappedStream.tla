---------------------------- MODULE MappedStream ----------------------------
(***************************************************************************)
(* proxy.rs MappedStream and map_sse_stream: an upstream stream on one     *)
(* wire becomes the client's stream on another.  Each upstream event goes  *)
(* through the tool-call assembler and the client wire's encoder; the end  *)
(* of the body closes the client's stream, or reports it incomplete.       *)
(*                                                                         *)
(* A frame that decodes to several events is the same events one by one,   *)
(* because no step looks at frame boundaries; the read batches of          *)
(* push_frames are likewise invisible (what came before an error is sent). *)
(***************************************************************************)
EXTENDS StreamEncoder, ToolCallAssembler

CONSTANTS Clients,    \* client wires (state.from)
          Upstreams,  \* upstream wires (target)
          MaxWeight,  \* bound: the events of a stream, weighed by Weight
          Core,       \* the kinds of event explored in depth
          Breaks      \* "error", "gone": how a stream may break

ASSUME ClientsAssumption == Clients \subseteq AllWires /\ Upstreams \subseteq AllWires
ASSUME BoundsAssumption == MaxWeight \in Nat /\ Core \subseteq Kinds

VARIABLES from,      \* the client's wire
          target,    \* the upstream's wire, never the same
          sent,      \* history: the upstream's events so far
          asm,       \* ToolCallAssembler
          enc,       \* StreamEncoder, with the frames sent to the client
          terminal,  \* saw_terminal
          phase      \* "open", "done", "gone"

vars == <<from, target, sent, asm, enc, terminal, phase>>

Init ==
  /\ from \in Clients
  /\ target \in Upstreams \ {from}
  /\ sent = <<>>
  /\ asm = AsmInit
  /\ enc = EncInit(from)
  /\ terminal = FALSE
  /\ phase = "open"

-----------------------------------------------------------------------------
(* What a vendor's stream may contain next.                                *)

Seen(kinds) == {j \in DOMAIN sent : sent[j].k \in kinds}
Begun(i) == \E j \in Seen(Starts \cup Fragments) : sent[j].i = i
Custom(i) == \E j \in Seen({"cstart", "cargs"}) : sent[j].i = i
\* What an event takes from the bound: the end nothing, Core kinds one.
Weight(e) == IF IsTerminal(e) THEN 0 ELSE IF e.k \in Core THEN 1 ELSE 2
Spent == Cardinality({j \in DOMAIN sent : Weight(sent[j]) > 0})
           + Cardinality({j \in DOMAIN sent : Weight(sent[j]) > 1})

LastIs(kinds) == sent # <<>> /\ Last(sent).k \in kinds
OnIndex(i) == Last(sent).i = i

\* Chat sends calls by index, in any interleaving, ids and names apart, before
\* and after anything else.  The others send one block or item after another:
\* a start at a fresh index, its fragments, for Responses its end.  Gemini
\* sends a call's arguments once, with its start.
ChatMay(e) == TRUE
BlockMay(e) ==
  CASE e.k \in Starts -> e.id # NoId /\ e.name /\ ~Begun(e.i)
                          /\ (target = "responses" => ~LastIs(Starts \cup Fragments))
    [] e.k \in Fragments ->
         /\ IF target = "gemini" THEN LastIs({"start"}) ELSE LastIs(Starts \cup Fragments)
         /\ OnIndex(e.i)
    [] e.k = "end" -> LastIs(Starts \cup Fragments)
    [] OTHER -> target = "responses" => ~LastIs(Starts \cup Fragments)

VendorMay(e) ==
  /\ e.k \in Decodes(target)
  /\ Spent + Weight(e) <= MaxWeight
  /\ e.k \in Starts \cup Fragments =>
       /\ \A i \in 0..(e.i - 1) : Begun(i)
       /\ Begun(e.i) => (IsCustom(e) <=> Custom(e.i))
  /\ Seen({"finish"}) # {} => e.k \in {"usage", "done", "tier", "args", "text"}
  /\ Seen({"done"}) # {} => e.k \in {"text", "args"}
  /\ IF target = "chat" THEN ChatMay(e) ELSE BlockMay(e) /\ Seen({"done"}) = {}

\* The events that may come next, each with the next payload number.
NextEvents ==
  LET n == Len(sent) + 1 IN
  {e \in {Plain(k, n) : k \in Kinds \ (Starts \cup Fragments \cup {"finish"})}
       \cup {FinishEv(r, n) : r \in Reasons}
       \cup {ArgsEv(k, i, n) : k \in Fragments, i \in Index}
       \cup {StartEv(k, i, n, id, name) :
               k \in Starts, i \in Index, id \in {NoId, "id"}, name \in BOOLEAN} :
     e.k \in Starts => (e.id # NoId \/ e.name)}

\* An announced id is the one of the index.
WithId(e) == IF e.id = NoId THEN e ELSE [e EXCEPT !.id = CallId[e.i]]

-----------------------------------------------------------------------------
\* The events the assembler lets out, filtered by slot, into the encoder.
FeedEvent(s, e, ok) == IF HasSlot(from, e) THEN EncPush(s, e, ok) ELSE s
Feed(s, evs, ok) ==
  LET after[k \in 0..Len(evs)] == IF k = 0 THEN s ELSE FeedEvent(after[k - 1], evs[k], ok) IN
  after[Len(evs)]

\* dest_error_bytes: the stream ends with an error frame.
Fail(s) == Emit(s, "error", NoB, <<>>)

\* emit_mapped: an encode error ends the stream.
Settle(s) ==
  /\ enc' = IF s.failed THEN Fail(s) ELSE s
  /\ phase' = IF s.failed THEN "done" ELSE "open"

\* push_frames and emit_mapped for one event.
Upstream(e) ==
  /\ phase = "open"
  /\ VendorMay(e)
  /\ sent' = Append(sent, e)
  /\ terminal' = (terminal \/ IsTerminal(e))
  /\ LET a == AsmPush(asm, e) IN
     /\ asm' = a.asm
     /\ \E ok \in IF e.k = "image" /\ from = "converse" THEN BOOLEAN ELSE {TRUE} :
          Settle(Feed(enc, a.out, ok))
  /\ UNCHANGED <<from, target>>

\* finish_encoder: without a terminal frame the answer is incomplete.
MutFinishEncoder(s) == Finish(s)
FinishEncoder(s) == IF terminal THEN Finish(s) ELSE Fail(s)

\* The body ended: the assembler's tail, then the encoder's.
Eof ==
  /\ phase = "open"
  /\ LET a == AsmFlush(asm) IN
     /\ asm' = a.asm
     /\ enc' = FinishEncoder(Feed(enc, a.out, TRUE))
  /\ phase' = "done"
  /\ UNCHANGED <<from, target, sent, terminal>>

\* An error event, an undecodable frame, a broken frame or a broken body.
VendorError ==
  /\ "error" \in Breaks
  /\ phase = "open"
  /\ enc' = Fail(enc)
  /\ phase' = "done"
  /\ UNCHANGED <<from, target, sent, asm, terminal>>

\* The client hung up: the channel send fails and the task returns.
ClientGone ==
  /\ "gone" \in Breaks
  /\ phase = "open"
  /\ phase' = "gone"
  /\ UNCHANGED <<from, target, sent, asm, enc, terminal>>

\* Nothing is left to do for a stream that has ended.
Ended == phase # "open" /\ UNCHANGED vars

Next == (\E e \in NextEvents : Upstream(WithId(e))) \/ Eof \/ VendorError \/ ClientGone \/ Ended

Spec == Init /\ [][Next]_vars

-----------------------------------------------------------------------------
(* The client's side of the stream, read off the frames it got.            *)

Out == enc.out
Frames(kinds) == {j \in DOMAIN Out : Out[j].f \in kinds}

\* Every payload the client received, in order; item only repeats.
Carried ==
  FlattenSeq([j \in DOMAIN Out |-> IF Out[j].f = "item" THEN <<>> ELSE Out[j].n])
CarriedFor(i) == SelectSeq(Carried, LAMBDA n : sent[n].k \in Fragments /\ sent[n].i = i)
CarriedText == SelectSeq(Carried, LAMBDA n : sent[n].k = "text")

\* What the upstream sent before its own end marker.
Live == {j \in DOMAIN sent : \A d \in Seen({"done"}) : j < d}
SentFor(i) == SetToSortSeq({j \in Live : sent[j].k \in Fragments /\ sent[j].i = i}, <)
SentText == SetToSortSeq({j \in Live : sent[j].k = "text"}, <)

\* Calls that got an id or a name before the answer finished, and had all
\* their fragments by then.
Announced(i) ==
  \E j \in Live : /\ sent[j].k \in Starts /\ sent[j].i = i
                  /\ \A f \in Seen({"finish"}) : j < f
NoOrphans ==
  \A j \in Seen(Fragments) : /\ Announced(sent[j].i)
                             /\ \A f \in Seen({"finish", "done"}) : j < f
                             /\ sent[j].k = "cargs" =>
                                  \E c \in 1..(j - 1) : sent[c].k = "cstart" /\ sent[c].i = sent[j].i

\* No content and no custom call arrives in the middle of a call, and a
\* custom call is announced once.  Function calls may interleave.
Orderly ==
  /\ NoOrphans
  /\ ~\E a, c, b \in DOMAIN sent :
        /\ a < c /\ (c < b \/ (c = b /\ sent[c].k = "cstart"))
        /\ sent[c].k \in Content \cup {"cstart"}
        /\ sent[a].k \in Starts \cup Fragments
        /\ sent[b].k \in Starts \cup Fragments
        /\ sent[a].i = sent[b].i

\* A client that keeps one block open at a time.  A Converse text block
\* has no start frame: its first delta opens it.
ClientStep(c, fr) ==
  CASE fr.f = "start" ->
         [open |-> fr.b, seen |-> c.seen \cup {fr.b},
          ok |-> c.ok /\ c.open = NoB /\ fr.b \notin c.seen]
    [] fr.f \in {"delta", "note"} ->
         LET opens == from = "converse" /\ c.open = NoB /\ fr.b \notin c.seen IN
         [open |-> IF opens THEN fr.b ELSE c.open, seen |-> c.seen \cup {fr.b},
          ok |-> c.ok /\ (opens \/ c.open = fr.b)]
    [] fr.f \in {"stop", "item"} -> [c EXCEPT !.open = NoB, !.ok = @ /\ c.open = fr.b]
    [] fr.f = "end" -> [c EXCEPT !.ok = @ /\ c.open = NoB]
    [] OTHER -> c
Client == FoldLeft(ClientStep, [open |-> NoB, seen |-> {}, ok |-> TRUE], Out)

-----------------------------------------------------------------------------
(* Properties.                                                             *)

\* The assembler never holds back a call that could go out: an index is not
\* both held and started, and a held call lacks its id or its name.
AssemblerHolds ==
  \A i \in Index :
    asm.pending[i].held => /\ i \notin asm.started
                           /\ ~(asm.pending[i].id # NoId /\ asm.pending[i].name)

\* Messages, Responses and Converse clients see well-nested blocks: each
\* index starts once, deltas fall in the open block, one block is open at a
\* time and none is left open at the end.  The Messages encoder keeps this
\* even when content arrives in the middle of a call.
BlocksNest ==
  (/\ from \in {"messages", "responses", "converse"}
   /\ IF from = "messages" THEN NoOrphans ELSE Orderly) => Client.ok

\* "Parallel indexes do not take each other's arguments": a fragment only
\* reaches the call its index announced, once, in the order it was sent.
\* (A Chat client's custom calls share numbers with its function calls, see
\* ChatIndexesDistinct.)
ArgsOnOwnCall ==
  /\ \A i \in Index : \A a, b \in DOMAIN CarriedFor(i) :
       a < b => CarriedFor(i)[a] < CarriedFor(i)[b]
  /\ (from = "chat" => Seen({"cstart", "cargs"}) = {}) =>
       \A j \in Frames({"delta", "call"}) : \A n \in Range(Out[j].n) :
         sent[n].k \in Fragments =>
           \A k \in Frames({"start", "call"}) :
             (k = j \/ (Out[k].f = "start" /\ Out[j].f = "delta" /\ Out[k].b = Out[j].b))
               => Out[k].tag \in {NoId, CallId[sent[n].i]}

\* A stream that ends without an error delivered every text delta, in order,
\* whatever was open, held or deferred when it came.  (On Messages an image
\* closes an open call without letting deferred text out: it may then follow
\* later text, but none is lost or doubled.)
TextKept ==
  (phase = "done" /\ Frames({"error"}) = {}) =>
    \/ CarriedText = SentText
    \/ /\ from = "messages" /\ Seen({"image"}) # {}
       /\ Len(CarriedText) = Len(SentText) /\ Range(CarriedText) = Range(SentText)

\* So with the arguments of every call.  Content in the middle of a call costs
\* a Responses or Converse client the rest of it, an image a Messages client;
\* a Gemini client is not sent an unnamed call.
KeepsArgs ==
  \/ Orderly
  \/ NoOrphans /\ (from \in {"chat", "gemini"} \/ (from = "messages" /\ Seen({"image"}) = {}))
ArgsKept ==
  (phase = "done" /\ Frames({"error"}) = {} /\ KeepsArgs) =>
    \A i \in Index :
      \/ CarriedFor(i) = SentFor(i)
      \/ from = "gemini" /\ ~\E j \in Seen(Starts) : sent[j].i = i /\ sent[j].name

\* A finished Responses item repeats exactly the deltas sent for it.
ItemRepeatsDeltas ==
  (from = "responses" /\ Orderly) =>
    \A j \in Frames({"item"}) :
      Range(Out[j].n) = UNION {Range(Out[k].n) : k \in {k \in Frames({"delta"}) : Out[k].b = Out[j].b}}

\* One terminal frame, nothing but an error behind it, and only after the
\* upstream's own terminal frame; a stream that is over ends with one or the
\* other.
EndsOnce ==
  /\ \A j \in Frames({"end"}) : /\ terminal
                                /\ \A k \in DOMAIN Out : k > j => Out[k].f = "error"
  /\ phase = "done" => Out # <<>> /\ Last(Out).f \in {"end", "error"}

\* "so a cut-off call is not executed": the client is told to run tools only
\* when the upstream ended the answer normally.
CutOffNotExecuted ==
  (Frames({"final", "end"}) # {} /\ \E j \in Frames({"final", "end"}) :
      Out[j].tag \in {"tool_calls", "tool_use"})
    => \A f \in Seen({"finish"}) : sent[f].r \in {"stop", "end_turn", "tool_calls", "tool_use"}

\* "Dest Chat indexes are dense from 0, not the source slot": two calls are
\* never announced to a Chat client under one index.
ChatIndexesDistinct ==
  from = "chat" =>
    \A j, k \in Frames({"start"}) : Out[j].b = Out[k].b => Out[j].tag = Out[k].tag
=============================================================================
