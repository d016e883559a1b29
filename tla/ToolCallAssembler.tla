------------------------- MODULE ToolCallAssembler -------------------------
(***************************************************************************)
(* stream/mod.rs ToolCallAssembler: holds a tool call's fragments back     *)
(* until its id and its name have both arrived.  State is a record of the  *)
(* two maps; each operation returns the next state and the events let out. *)
(***************************************************************************)
EXTENDS StreamEvents, SequencesExt

NoPending == [held |-> FALSE, id |-> NoId, name |-> FALSE, args |-> <<>>]

\* pending: by upstream index; started: indexes whose start went out.
AsmInit == [pending |-> [i \in Index |-> NoPending], started |-> {}]

Named(p) == p.id # NoId \/ p.name

\* PendingToolStart::into_events: an orphan's fragments come without a start.
IntoEvents(i, p) ==
  (IF Named(p) THEN <<StartEv("start", i, 0, p.id, p.name)>> ELSE <<>>)
    \o [j \in 1..Len(p.args) |-> ArgsEv("args", i, p.args[j])]

Step(asm, out) == [asm |-> asm, out |-> out]

\* push_start: a start after the first is the same call; else merge and hold
\* until both the id and the name are known.
MutPushStart(a, e) ==
  LET p == [held |-> TRUE, id |-> e.id, name |-> e.name, args |-> <<>>] IN
  IF e.i \in a.started THEN Step(a, <<>>)
  ELSE IF p.id # NoId /\ p.name
    THEN Step([a EXCEPT !.pending[e.i] = NoPending, !.started = @ \cup {e.i}],
              IntoEvents(e.i, p))
  ELSE Step([a EXCEPT !.pending[e.i] = p], <<>>)
PushStart(a, e) ==
  LET prev == a.pending[e.i]
      p == [held |-> TRUE,
            id   |-> IF e.id = NoId THEN prev.id ELSE e.id,
            name |-> e.name \/ prev.name,
            args |-> prev.args] IN
  IF e.i \in a.started THEN Step(a, <<>>)
  ELSE IF p.id # NoId /\ p.name
    THEN Step([a EXCEPT !.pending[e.i] = NoPending, !.started = @ \cup {e.i}],
              IntoEvents(e.i, p))
  ELSE Step([a EXCEPT !.pending[e.i] = p], <<>>)

\* An argument fragment: held with its index, or passed once it has started.
MutPushArgs(a, e) ==
  Step([a EXCEPT !.pending[e.i].held = TRUE,
                 !.pending[e.i].args = Append(@, e.n)], <<>>)
PushArgs(a, e) ==
  IF ~a.pending[e.i].held /\ e.i \in a.started
    THEN Step(a, <<e>>)
    ELSE Step([a EXCEPT !.pending[e.i].held = TRUE,
                        !.pending[e.i].args = Append(@, e.n)], <<>>)

\* flush: everything held, in index order; a named one counts as started.
AsmFlush(a) ==
  LET held == {i \in Index : a.pending[i].held}
      out == [k \in 1..MaxIndex |->
                IF k - 1 \in held THEN IntoEvents(k - 1, a.pending[k - 1]) ELSE <<>>] IN
  Step([pending |-> [i \in Index |-> NoPending],
        started |-> a.started \cup {i \in held : Named(a.pending[i])}],
       FlattenSeq(out))

\* push: only a finish reason or the end releases what is incomplete.
AsmPush(a, e) ==
  CASE e.k = "start" -> PushStart(a, e)
    [] e.k = "args"  -> PushArgs(a, e)
    [] e.k \in {"finish", "done"} ->
         LET f == AsmFlush(a) IN Step(f.asm, Append(f.out, e))
    [] OTHER -> Step(a, <<e>>)
=============================================================================
