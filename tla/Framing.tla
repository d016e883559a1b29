------------------------------- MODULE Framing -------------------------------
(***************************************************************************)
(* Upstream bytes to frames: SseFrameReader (stream/sse.rs),               *)
(* EventStreamReader (stream/eventstream.rs) and UpstreamFrames.           *)
(*                                                                         *)
(* Bytes are pairs <<i, h>>: the first and the second half of frame i,     *)
(* where a read may end between the two.  Frame 0 is a body that is no     *)
(* frame at all: an HTML page or one JSON document.                        *)
(***************************************************************************)
EXTENDS Integers, Sequences, FiniteSets, SequencesExt

Whole(i) == <<<<i, 1>>, <<i, 2>>>>
AllOf(frames) == [j \in 1..(2 * Len(frames)) |-> <<frames[(j + 1) \div 2], 2 - (j % 2)>>]
Ids(n) == [i \in 1..n |-> i]

\* The bytes that are of none of the frames.
Keep(frames, kept, b) == IF b[1] \in frames THEN kept ELSE Append(kept, b)
Without(frames, bytes) ==
  LET kept[n \in 0..Len(bytes)] ==
        IF n = 0 THEN <<>> ELSE Keep(frames, kept[n - 1], bytes[n]) IN
  kept[Len(bytes)]

\* The proxy's own error frame (dest_error_bytes) and the frames a JSON
\* completion is turned into (json_completion_to_sse): none of the vendor's.
ErrorId == -1
PromotedId == -2

EventStream(wire) == wire = "converse"

\* What a read makes of the bytes: the open frame, the frames it completed, and
\* whether the stream has ended or is refused.
Reader(buf) == [buf |-> buf, frames |-> <<>>, term |-> FALSE, err |-> FALSE]

\* SseFrameReader.feed, byte by byte: a frame ends at its blank line; data past
\* the cap resets the reader and loses the frames of this read.  kind[i] is what
\* frame i is.
MutSseByte(kind, acc, b) ==
  IF acc.err THEN acc
  ELSE IF b[2] = 2 /\ b[1] # 0
    THEN IF kind[b[1]] = "big" THEN [Reader(<<>>) EXCEPT !.err = TRUE]
         ELSE [acc EXCEPT !.frames = Append(@, b[1])]
  ELSE [acc EXCEPT !.buf = Append(@, b)]
SseByte(kind, acc, b) ==
  IF acc.err THEN acc
  ELSE IF b[2] = 2 /\ b[1] # 0
    THEN IF kind[b[1]] = "big" THEN [Reader(<<>>) EXCEPT !.err = TRUE]
         ELSE [acc EXCEPT !.buf = <<>>, !.frames = Append(@, b[1])]
  ELSE [acc EXCEPT !.buf = Append(@, b)]

\* A message that was refused stays at the head of the buffer.
Broken(buf) == \E k \in DOMAIN buf : buf[k][2] = 2

\* EventStreamReader.feed and take_message: an exception ends the stream after
\* the frames before it; a CRC error, or a body that is no frame, loses them and
\* fails this read and every later one.
EventByte(kind, acc, b) ==
  IF acc.term THEN acc
  ELSE IF Broken(acc.buf) THEN [acc EXCEPT !.buf = Append(@, b), !.frames = <<>>, !.err = TRUE]
  ELSE IF b[2] # 2 THEN [acc EXCEPT !.buf = Append(@, b)]
  ELSE IF b[1] = 0 \/ kind[b[1]] = "bad"
    THEN [acc EXCEPT !.buf = Append(@, b), !.frames = <<>>, !.err = TRUE]
  ELSE IF kind[b[1]] = "exc" THEN [acc EXCEPT !.buf = <<>>, !.term = TRUE]
  ELSE [acc EXCEPT !.buf = <<>>, !.frames = Append(@, b[1])]

\* UpstreamFrames.feed.
FeedByte(wire, kind, acc, b) ==
  IF EventStream(wire) THEN EventByte(kind, acc, b) ELSE SseByte(kind, acc, b)
Feed(wire, kind, buf, chunk) ==
  LET read[n \in 0..Len(chunk)] ==
        IF n = 0 THEN Reader(buf) ELSE FeedByte(wire, kind, read[n - 1], chunk[n]) IN
  read[Len(chunk)]

\* has_open_frame and pending_wire_bytes.
HasOpenFrame(wire, buf) == ~EventStream(wire) /\ buf # <<>>

\* UpstreamFrames.finish: SSE hands out the open frame, as far as it came; Event
\* Stream fails on leftover bytes.
OpenFrame(wire, buf) ==
  IF ~EventStream(wire) /\ buf # <<>> /\ buf[1][1] # 0 THEN {buf[1][1]} ELSE {}
FinishFails(wire, buf) == EventStream(wire) /\ buf # <<>>

\* frame_is_terminal and sse_wrapped_error_message.
Terminal(wire, k) == k = "term" \/ (k = "done" /\ wire = "chat")
IsError(k) == k \in {"error", "failed"}

\* frame_is_terminal on a frame whose payload is cut: a Responses frame is known
\* by its event line alone.
NamedTerminal(wire, k) == wire = "responses" /\ k = "term"
=============================================================================
