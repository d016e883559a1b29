---------------------------- MODULE SameWireGate ----------------------------
(***************************************************************************)
(* The three readers of an upstream stream: SameWireGate and               *)
(* passthrough_sse, map_sse_stream (both proxy.rs), and the LiveStream of  *)
(* client.rs.  Each operator returns the reader's state, the bytes or      *)
(* frames handed on, and whether the reader stops.                         *)
(***************************************************************************)
EXTENDS Framing

\* SameWireGate::new.  MappedStream and LiveStream keep saw, term and, for a
\* body without frames, the bytes so far.
GateInit == [buf |-> <<>>, saw |-> FALSE, term |-> FALSE, verr |-> FALSE,
             drop |-> FALSE, held |-> <<>>]

Hold(g) == [g |-> g, out |-> <<>>, stop |-> FALSE]
Forward(g, bytes) == [g |-> g, out |-> bytes, stop |-> FALSE]
Fail(g) == [g |-> g, out |-> Whole(ErrorId), stop |-> TRUE]

\* The cap on bytes held before the first frame.
Oversize(kind, page, bytes) ==
  \E k \in DOMAIN bytes : /\ bytes[k][2] = 2
                          /\ IF bytes[k][1] = 0 THEN page = "huge" ELSE kind[bytes[k][1]] = "big"

\* SameWireGate::no_frame_message: a complete vendor failure.  Converse is not
\* among the wires it looks at.
VendorFailure(wire, page, bytes) ==
  page = "failure" /\ Len(bytes) = 2 /\ ~EventStream(wire)

\* The frames written again by format_sse, [DONE] left out.
MutRewritten(kind, frames) == AllOf(frames)
Rewritten(kind, frames) == Without({i \in DOMAIN kind : kind[i] = "done"}, AllOf(frames))

\* note_terminal over frames.
Noted(wire, kind, frames) ==
  \E k \in DOMAIN frames : Terminal(wire, kind[frames[k]]) \/ kind[frames[k]] = "error"

\* SameWireGate::push.
GatePush(g, wire, kind, page, chunk) ==
  LET fed == Feed(wire, kind, g.buf, chunk)
      r == [g EXCEPT !.buf = fed.buf]
      fs == fed.frames
      fails == {k \in DOMAIN fs : wire = "responses" /\ kind[fs[k]] = "failed"}
      first == CHOOSE k \in fails : \A m \in fails : k <= m
      hasError == \E k \in DOMAIN fs : kind[fs[k]] = "error"
      seen(gg) == [gg EXCEPT !.saw = TRUE, !.term = @ \/ Noted(wire, kind, fs), !.held = <<>>] IN
  IF g.drop THEN Hold(g)
  ELSE IF ~g.saw /\ Oversize(kind, page, g.held \o chunk) THEN Fail(g)
  ELSE IF fed.err /\ g.saw THEN Fail(g)
  ELSE IF fed.err /\ VendorFailure(wire, page, g.held \o chunk) THEN Fail(g)
  ELSE IF fed.err THEN Hold([r EXCEPT !.held = g.held \o chunk])
  ELSE IF fails # {} THEN
    Forward([r EXCEPT !.saw = TRUE, !.term = TRUE, !.verr = TRUE, !.drop = TRUE,
                      !.held = <<>>, !.buf = <<>>],
            Rewritten(kind, SubSeq(fs, 1, first - 1)) \o Whole(ErrorId))
  ELSE IF wire = "responses" /\ ~g.verr /\ HasOpenFrame(wire, fed.buf) /\ fs # <<>> /\ ~hasError THEN
    Forward([seen(r) EXCEPT !.held = fed.buf], Rewritten(kind, fs))
  ELSE IF fed.term THEN
    Forward([r EXCEPT !.saw = TRUE, !.term = TRUE, !.held = <<>>], g.held \o chunk)
  ELSE IF fs = <<>> /\ ~g.saw THEN Hold([r EXCEPT !.held = @ \o chunk])
  ELSE IF fs = <<>> /\ g.verr THEN Hold(r)
  ELSE IF fs = <<>> /\ wire = "responses" /\ HasOpenFrame(wire, fed.buf) THEN
    Hold([r EXCEPT !.held = @ \o chunk])
  ELSE IF fs = <<>> THEN Forward(r, chunk)
  ELSE IF hasError \/ g.verr THEN Forward([seen(r) EXCEPT !.verr = TRUE], Rewritten(kind, fs))
  ELSE Forward(seen(r), g.held \o chunk)

\* no_frame_end: a vendor failure or an unknown body is an error, one JSON
\* completion is promoted to frames.
NoFrameEnd(page, held) ==
  IF page = "completion" /\ Len(held) = 2 THEN Whole(PromotedId) ELSE Whole(ErrorId)

\* note_terminal over the open frame: whole if it lacks only its blank line.
NotedOpen(wire, kind, open, whole) ==
  \E i \in open : \/ NamedTerminal(wire, kind[i])
                  \/ whole /\ (Terminal(wire, kind[i]) \/ kind[i] = "error")

\* SameWireGate::finish and the end of passthrough_sse.
MutGateFinish(g, wire, kind, page, whole) == g.held
GateFinish(g, wire, kind, page, whole) ==
  LET open == OpenFrame(wire, g.buf)
      \* the open frame written out after an error, with the blank line it lacks
      rest == IF open # {} /\ g.verr /\ \A i \in open : kind[i] # "done"
                THEN <<<<g.buf[1][1], 1>>, <<g.buf[1][1], 3>>>> ELSE <<>> IN
  IF g.drop THEN <<>>
  ELSE IF FinishFails(wire, g.buf)
    THEN IF g.saw THEN g.held \o Whole(ErrorId) ELSE NoFrameEnd(page, g.held)
  ELSE IF wire = "responses" /\ \E i \in open : kind[i] = "failed" THEN Whole(ErrorId)
  ELSE IF ~g.saw /\ open = {} THEN NoFrameEnd(page, g.held)
  ELSE IF g.term \/ NotedOpen(wire, kind, open, whole) THEN g.held \o rest
  ELSE g.held \o rest \o Whole(ErrorId)

-----------------------------------------------------------------------------
\* push_frames of MappedStream and of LiveStream: the frames before one that
\* is an error still count.
UpToError(kind, frames) ==
  LET bad == {k \in DOMAIN frames : IsError(kind[frames[k]])} IN
  IF bad = {} THEN frames ELSE SubSeq(frames, 1, (CHOOSE k \in bad : \A m \in bad : k <= m) - 1)
PushFrames(r, wire, kind, fed) ==
  LET good == UpToError(kind, fed.frames)
      g == [r EXCEPT !.saw = @ \/ fed.frames # <<>>,
                     !.term = @ \/ \E k \in DOMAIN good : Terminal(wire, kind[good[k]])] IN
  IF Len(good) < Len(fed.frames) \/ fed.term
    THEN [g |-> g, out |-> AllOf(good) \o Whole(ErrorId), stop |-> TRUE]
    ELSE Forward(g, AllOf(good))

\* map_sse_stream: one read.
MappedPush(g, wire, kind, page, chunk) ==
  LET fed == Feed(wire, kind, g.buf, chunk) IN
  IF fed.err THEN Fail(g) ELSE PushFrames([g EXCEPT !.buf = fed.buf], wire, kind, fed)

\* The end of map_sse_stream and of pull_live: no wire decodes an open frame cut
\* in its JSON; without a terminal frame the stream is incomplete.
LastFrame(g, wire, kind, whole) ==
  LET last == IF OpenFrame(wire, g.buf) = {} THEN <<>> ELSE <<g.buf[1][1]>>
      p == PushFrames(g, wire, kind, [Reader(<<>>) EXCEPT !.frames = last]) IN
  IF FinishFails(wire, g.buf) \/ (last # <<>> /\ ~whole) THEN Whole(ErrorId)
  ELSE IF p.stop \/ p.g.term THEN p.out ELSE p.out \o Whole(ErrorId)
MappedFinish(g, wire, kind, page, whole) == LastFrame(g, wire, kind, whole)

\* pull_live: a body without frames is kept; where the reader refuses it, it is
\* promoted or classified once its JSON is complete.
ClientPush(g, wire, kind, page, chunk) ==
  LET fed == Feed(wire, kind, g.buf, chunk)
      left == IF g.saw THEN g.held ELSE g.held \o chunk
      r == [g EXCEPT !.buf = fed.buf, !.held = left] IN
  IF fed.err /\ ~g.saw /\ page = "completion" /\ Len(left) = 2
    THEN [g |-> [r EXCEPT !.saw = TRUE, !.term = TRUE], out |-> Whole(PromotedId), stop |-> TRUE]
  ELSE IF fed.err THEN Fail(r)
  ELSE PushFrames(r, wire, kind, fed)

\* pull_live at the end of the bytes.
ClientFinish(g, wire, kind, page, whole) ==
  IF ~g.saw /\ OpenFrame(wire, g.buf) = {} THEN NoFrameEnd(page, g.held)
  ELSE LastFrame(g, wire, kind, whole)
=============================================================================
