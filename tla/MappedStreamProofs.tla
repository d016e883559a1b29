------------------------- MODULE MappedStreamProofs -------------------------
(***************************************************************************)
(* MappedStream for every pair of wires, any number of calls and streams   *)
(* of any length: what the tool-call assembler holds, that the client's    *)
(* stream ends once, and that a cut-off answer never tells the client to   *)
(* run tools.                                                              *)
(*                                                                         *)
(* AssemblerHolds is not inductive: a fragment of an index nobody has      *)
(* announced makes a held entry out of an absent one, so an absent entry   *)
(* must carry neither an id nor a name.                                    *)
(*                                                                         *)
(* EndsOnce and CutOffNotExecuted are facts about the frames; a step is a  *)
(* call of the assembler followed by any number of calls of an encoder,    *)
(* each of which may put out any number of frames.  EncInv therefore says  *)
(* what an encoder is between two calls: either it has put out no end and  *)
(* no error, nothing that runs tools, and holds nothing of the kind        *)
(* (Steady), or it is finished and its frames are closed by one end frame. *)
(* Goes, Heard and Closes say how an operator of an encoder leads from one *)
(* to the other; every operator of the five encoders has its lemma.        *)
(***************************************************************************)
EXTENDS MappedStream, FiniteSetTheorems, SequenceTheorems, TLAPS

\* An entry of the pending map; what an id or a fragment is does not matter.
IsPending(p) ==
  /\ p = [f \in {"held", "id", "name", "args"} |-> p[f]]
  /\ p.held \in BOOLEAN
  /\ p.name \in BOOLEAN

\* The assembler's two maps, over the upstream's tool indexes.
AsmTypeOK(a) ==
  /\ a = [pending |-> a.pending, started |-> a.started]
  /\ a.pending = [i \in Index |-> a.pending[i]]
  /\ \A i \in Index : IsPending(a.pending[i])

\* An absent entry is empty; a held one is not started and lacks something.
EntryOK(p, isStarted) ==
  IF p.held THEN ~isStarted /\ ~(p.id # NoId /\ p.name)
            ELSE p.id = NoId /\ ~p.name
AsmOK(a) == \A i \in Index : EntryOK(a.pending[i], i \in a.started)

AsmInv == AsmTypeOK(asm) /\ AsmOK(asm)
-----------------------------------------------------------------------------
\* A start or a fragment names a known index; a start says whether it has a name.
LEMMA EventTypes ==
  ASSUME NEW e \in NextEvents
  PROVE  /\ WithId(e).k \in Starts \cup Fragments => WithId(e).i \in Index
         /\ WithId(e).k \in Starts => WithId(e).name \in BOOLEAN
  <1> DEFINE n == Len(sent) + 1
             w == WithId(e)
  <1>1. \/ \E k \in Kinds \ (Starts \cup Fragments \cup {"finish"}) : e = Plain(k, n)
        \/ \E r \in Reasons : e = FinishEv(r, n)
        \/ \E k \in Fragments, i \in Index : e = ArgsEv(k, i, n)
        \/ \E k \in Starts, i \in Index, id \in {NoId, "id"}, name \in BOOLEAN :
             e = StartEv(k, i, n, id, name)
    BY DEF NextEvents
  <1>2. CASE \E k \in Kinds \ (Starts \cup Fragments \cup {"finish"}) : e = Plain(k, n)
    <2> PICK k \in Kinds \ (Starts \cup Fragments \cup {"finish"}) : e = Plain(k, n)
      BY <1>2
    <2> QED
      BY DEF Plain, Event, WithId
  <1>3. CASE \E r \in Reasons : e = FinishEv(r, n)
    <2> PICK r \in Reasons : e = FinishEv(r, n)
      BY <1>3
    <2> QED
      BY DEF FinishEv, Event, WithId, Starts, Fragments
  <1>4. CASE \E k \in Fragments, i \in Index : e = ArgsEv(k, i, n)
    <2> PICK k \in Fragments, i \in Index : e = ArgsEv(k, i, n)
      BY <1>4
    <2> QED
      BY DEF ArgsEv, Event, WithId, Starts, Fragments
  <1>5. CASE \E k \in Starts, i \in Index, id \in {NoId, "id"}, name \in BOOLEAN :
               e = StartEv(k, i, n, id, name)
    <2> PICK k \in Starts, i \in Index, id \in {NoId, "id"}, name \in BOOLEAN :
               e = StartEv(k, i, n, id, name)
      BY <1>5
    <2> QED
      BY DEF StartEv, Event, WithId
  <1> QED
    BY <1>1, <1>2, <1>3, <1>4, <1>5

\* The empty entry.
LEMMA EmptyPending ==
  IsPending(NoPending) /\ \A started \in BOOLEAN : EntryOK(NoPending, started)
  BY DEF IsPending, NoPending, EntryOK

\* Replacing one entry, and starting at most its index, keeps the others good.
LEMMA EntryReplaced ==
  ASSUME NEW a, AsmTypeOK(a), AsmOK(a), NEW j \in Index, NEW q, IsPending(q),
         NEW S, S \in {a.started, a.started \cup {j}}, EntryOK(q, j \in S)
  PROVE  LET b == [pending |-> [a.pending EXCEPT ![j] = q], started |-> S] IN
         AsmTypeOK(b) /\ AsmOK(b)
  <1> DEFINE b == [pending |-> [a.pending EXCEPT ![j] = q], started |-> S]
  <1>1. b.pending = [i \in Index |-> IF i = j THEN q ELSE a.pending[i]] /\ b.started = S
    BY DEF AsmTypeOK
  <1>2. AsmTypeOK(b)
    <2>1. b.pending = [i \in Index |-> b.pending[i]]
      BY <1>1
    <2>2. \A i \in Index : IsPending(b.pending[i])
      BY <1>1 DEF AsmTypeOK
    <2> QED
      BY <2>1, <2>2 DEF AsmTypeOK
  <1>3. ASSUME NEW i \in Index PROVE EntryOK(b.pending[i], i \in b.started)
    <2>1. CASE i = j
      BY <1>1, <2>1
    <2>2. CASE i # j
      <3>1. b.pending[i] = a.pending[i] /\ (i \in b.started <=> i \in a.started)
        BY <1>1, <2>2
      <3> QED
        BY <3>1 DEF AsmOK, EntryOK
    <2> QED
      BY <2>1, <2>2
  <1> QED
    BY <1>2, <1>3 DEF AsmOK

\* push_start merges into an entry, or takes it out and marks the index started.
LEMMA StartPreserves ==
  ASSUME NEW a, AsmTypeOK(a), AsmOK(a), NEW e, e.i \in Index, e.name \in BOOLEAN
  PROVE  AsmTypeOK(PushStart(a, e).asm) /\ AsmOK(PushStart(a, e).asm)
  <1> DEFINE prev == a.pending[e.i]
             p == [held |-> TRUE,
                   id   |-> IF e.id = NoId THEN prev.id ELSE e.id,
                   name |-> e.name \/ prev.name,
                   args |-> prev.args]
             b == PushStart(a, e).asm
  <1>0. IsPending(p) /\ p.held
    BY DEF IsPending, AsmTypeOK
  <1>1. CASE e.i \in a.started
    <2>1. b = a
      BY <1>1 DEF PushStart, Step
    <2> QED
      BY <2>1
  <1>2. CASE e.i \notin a.started /\ p.id # NoId /\ p.name
    <2>1. b = [a EXCEPT !.pending[e.i] = NoPending, !.started = @ \cup {e.i}]
      BY <1>2 DEF PushStart, Step
    <2>2. b = [pending |-> [a.pending EXCEPT ![e.i] = NoPending],
               started |-> a.started \cup {e.i}]
      BY <2>1 DEF AsmTypeOK
    <2>3. EntryOK(NoPending, e.i \in a.started \cup {e.i})
      BY DEF EntryOK, NoPending
    <2> QED
      BY <2>2, <2>3, EmptyPending, EntryReplaced
  <1>3. CASE e.i \notin a.started /\ ~(p.id # NoId /\ p.name)
    <2>1. b = [a EXCEPT !.pending[e.i] = p]
      BY <1>3 DEF PushStart, Step
    <2>2. b = [pending |-> [a.pending EXCEPT ![e.i] = p], started |-> a.started]
      BY <2>1 DEF AsmTypeOK
    <2>3. EntryOK(p, e.i \in a.started)
      BY <1>0, <1>3 DEF EntryOK
    <2> QED
      BY <1>0, <2>2, <2>3, EntryReplaced
  <1> QED
    BY <1>1, <1>2, <1>3

\* A fragment passes, or is added to an entry, made for it if there was none.
LEMMA ArgsPreserves ==
  ASSUME NEW a, AsmTypeOK(a), AsmOK(a), NEW e, e.i \in Index
  PROVE  AsmTypeOK(PushArgs(a, e).asm) /\ AsmOK(PushArgs(a, e).asm)
  <1> DEFINE prev == a.pending[e.i]
             p == [prev EXCEPT !.held = TRUE, !.args = Append(@, e.n)]
             b == PushArgs(a, e).asm
  <1>1. CASE ~prev.held /\ e.i \in a.started
    <2>1. b = a
      BY <1>1 DEF PushArgs, Step
    <2> QED
      BY <2>1
  <1>2. CASE ~(~prev.held /\ e.i \in a.started)
    <2>1. b = [a EXCEPT !.pending[e.i].held = TRUE,
                        !.pending[e.i].args = Append(@, e.n)]
      BY <1>2 DEF PushArgs, Step
    <2>2. b = [pending |-> [a.pending EXCEPT ![e.i] = p], started |-> a.started]
      <3> DEFINE n == Append(prev.args, e.n)
      <3>1. /\ a = [pending |-> a.pending, started |-> a.started]
            /\ a.pending = [i \in Index |-> a.pending[i]]
            /\ prev = [f \in {"held", "id", "name", "args"} |-> prev[f]]
        BY DEF AsmTypeOK, IsPending
      <3>2. /\ b = [a EXCEPT !.pending[e.i].held = TRUE, !.pending[e.i].args = n]
            /\ p = [prev EXCEPT !.held = TRUE, !.args = n]
        BY <2>1, <3>1
      <3> HIDE DEF n, b, p
      <3> QED
        BY <3>1, <3>2
    <2>3. /\ prev = [f \in {"held", "id", "name", "args"} |-> prev[f]]
          /\ prev.held \in BOOLEAN /\ prev.name \in BOOLEAN
      BY DEF AsmTypeOK, IsPending
    <2>4. /\ DOMAIN prev = {"held", "id", "name", "args"}
          /\ DOMAIN p = DOMAIN prev
      BY <2>3
    <2>5. p.held = TRUE /\ p.id = prev.id /\ p.name = prev.name
      BY <2>3, <2>4
    <2>6. IsPending(p)
      BY <2>3, <2>4, <2>5 DEF IsPending
    <2>7. EntryOK(p, e.i \in a.started)
      BY <1>2, <2>3, <2>5 DEF AsmOK, EntryOK
    <2> QED
      BY <2>2, <2>6, <2>7, EntryReplaced
  <1> QED
    BY <1>1, <1>2

\* flush leaves nothing held.
LEMMA FlushPreserves ==
  ASSUME NEW a
  PROVE  AsmTypeOK(AsmFlush(a).asm) /\ AsmOK(AsmFlush(a).asm)
  <1>1. PICK started : AsmFlush(a).asm = [pending |-> [i \in Index |-> NoPending],
                                          started |-> started]
    BY DEF AsmFlush, Step
  <1> QED
    BY <1>1, EmptyPending DEF AsmTypeOK, AsmOK, EntryOK, NoPending

\* push, whatever the event.
LEMMA PushPreserves ==
  ASSUME NEW a, AsmTypeOK(a), AsmOK(a), NEW e,
         e.k \in Starts \cup Fragments => e.i \in Index,
         e.k \in Starts => e.name \in BOOLEAN
  PROVE  AsmTypeOK(AsmPush(a, e).asm) /\ AsmOK(AsmPush(a, e).asm)
  <1>1. CASE e.k = "start"
    <2>1. AsmPush(a, e) = PushStart(a, e)
      BY <1>1 DEF AsmPush
    <2> QED
      BY <1>1, <2>1, StartPreserves DEF Starts
  <1>2. CASE e.k = "args"
    <2>1. AsmPush(a, e) = PushArgs(a, e)
      BY <1>2 DEF AsmPush
    <2> QED
      BY <1>2, <2>1, ArgsPreserves DEF Fragments
  <1>3. CASE e.k \in {"finish", "done"}
    <2>1. AsmPush(a, e).asm = AsmFlush(a).asm
      BY <1>3 DEF AsmPush, Step
    <2> QED
      BY <2>1, FlushPreserves
  <1>4. CASE e.k \notin {"start", "args", "finish", "done"}
    <2>1. AsmPush(a, e).asm = a
      BY <1>4 DEF AsmPush, Step
    <2> QED
      BY <2>1
  <1> QED
    BY <1>1, <1>2, <1>3, <1>4

\* The assembler's invariant, in every state of every stream.
THEOREM AssemblerInvariance == Spec => []AsmInv
  <1>1. Init => AsmInv
    <2> SUFFICES ASSUME Init PROVE AsmInv
      OBVIOUS
    <2>1. asm = [pending |-> [i \in Index |-> NoPending], started |-> {}]
      BY DEF Init, AsmInit
    <2> QED
      BY <2>1, EmptyPending DEF AsmInv, AsmTypeOK, AsmOK, EntryOK, NoPending
  <1>2. AsmInv /\ [Next]_vars => AsmInv'
    <2> SUFFICES ASSUME AsmInv, [Next]_vars PROVE AsmInv'
      OBVIOUS
    <2>1. CASE \E e \in NextEvents : Upstream(WithId(e))
      <3>1. PICK e \in NextEvents : Upstream(WithId(e))
        BY <2>1
      <3>2. asm' = AsmPush(asm, WithId(e)).asm
        BY <3>1 DEF Upstream
      <3>3. AsmTypeOK(AsmPush(asm, WithId(e)).asm) /\ AsmOK(AsmPush(asm, WithId(e)).asm)
        BY EventTypes, PushPreserves DEF AsmInv
      <3> QED
        BY <3>2, <3>3 DEF AsmInv
    <2>2. CASE Eof
      <3>1. asm' = AsmFlush(asm).asm
        BY <2>2 DEF Eof
      <3> QED
        BY <3>1, FlushPreserves DEF AsmInv
    <2>3. CASE UNCHANGED asm
      BY <2>3 DEF AsmInv
    <2> QED
      BY <2>1, <2>2, <2>3 DEF Next, VendorError, ClientGone, Ended, vars
  <1> QED
    BY <1>1, <1>2, PTL DEF Spec

\* A call that could go out is not held back, and none is both held and out.
THEOREM AssemblerNeverHoldsReady == Spec => []AssemblerHolds
  <1>1. AsmInv => AssemblerHolds
    BY DEF AsmInv, AsmTypeOK, IsPending, AsmOK, EntryOK, AssemblerHolds
  <1> QED
    BY <1>1, AssemblerInvariance, PTL
-----------------------------------------------------------------------------
\* Every set of numbers that is not empty has a least member: induction, in the
\* form the provers can use.
LEMMA LeastMember ==
  ASSUME NEW T, T \subseteq Nat, T # {}
  PROVE  \E m \in T : \A k \in T : m <= k
  <1> DEFINE R == StrictSubsetOrdering(Nat)
             U == {0..m : m \in T}
  <1>1. IsWellFoundedOn(R, FiniteSubsetsOf(Nat))
    BY FS_StrictSubsetOrderingWellFounded
  <1>2. U \subseteq FiniteSubsetsOf(Nat) /\ U # {}
    <2>1. \A m \in T : 0..m \subseteq Nat /\ IsFiniteSet(0..m)
      <3> SUFFICES ASSUME NEW m \in T PROVE 0..m \subseteq Nat /\ IsFiniteSet(0..m)
        OBVIOUS
      <3>1. 0 \in Int /\ m \in Int
        OBVIOUS
      <3>2. IsFiniteSet(0..m)
        BY <3>1, FS_Interval
      <3> QED BY <3>2
    <2> QED BY <2>1 DEF FiniteSubsetsOf
  <1>3. \E x \in U : \A y \in U : ~(<<y, x>> \in R)
    <2> HIDE DEF R, U
    <2> QED BY <1>1, <1>2, WFMin
  <1>4. PICK m \in T : \A k \in T : ~(<<0..k, 0..m>> \in R)
    BY <1>3
  <1>5. ASSUME NEW k \in T PROVE m <= k
    <2> SUFFICES ASSUME k < m PROVE FALSE OBVIOUS
    <2>1. 0..k \subseteq 0..m /\ m \in 0..m /\ m \notin 0..k
      OBVIOUS
    <2>2. <<0..k, 0..m>> \in R
      BY <2>1 DEF StrictSubsetOrdering
    <2> QED BY <1>4, <2>2
  <1> QED BY <1>5

\* What holds at 0, and at k if it holds at k - 1, holds up to n.
LEMMA Induction ==
  ASSUME NEW T, NEW n \in Nat, 0 \in T, \A k \in 1..n : k - 1 \in T => k \in T
  PROVE  \A k \in 0..n : k \in T
  <1> DEFINE U == {k \in 0..n : k \notin T}
  <1> SUFFICES ASSUME U # {} PROVE FALSE
    OBVIOUS
  <1>1. U \subseteq Nat
    OBVIOUS
  <1>2. PICK m \in U : \A k \in U : m <= k
    <2> HIDE DEF U
    <2> QED BY <1>1, LeastMember
  <1>3. m # 0 /\ m - 1 \in 0..n /\ m - 1 \notin U
    BY <1>2
  <1> QED BY <1>3

-----------------------------------------------------------------------------
(* The encoders.                                                           *)

ToolTags == {"tool_calls", "tool_use"}

\* A frame before the end; only if ok says so it tells the client to run tools.
Inner(x, ok) == x.f \notin {"end", "error"} /\ (x.f = "final" /\ x.tag \in ToolTags => ok)
Before(q, ok) == \E S : q \in Seq(S) /\ \A x \in S : Inner(x, ok)

\* An encoder's frames, those that wait, and the events that wait.
Sound(out, later, deferred) ==
  /\ Before(out, FALSE) /\ Before(later, FALSE)
  /\ \E S : deferred \in Seq(S) /\ \A e \in S : e.k # "finish"
EncFields == {"wire", "finished", "failed", "finish", "nextBlock", "out", "later", "deferred"}
Steady(s) ==
  /\ EncFields \subseteq DOMAIN s
  /\ s.nextBlock \in Nat
  /\ Sound(s.out, s.later, s.deferred)

\* From s to t an encoder has gone on: it has put out inner frames only.  Heard: and
\* has been told the reason r.
Heard(s, t, r) ==
  /\ Steady(t)
  /\ t.wire = s.wire /\ t.finished = s.finished /\ t.failed = s.failed /\ t.finish = r
Goes(s, t) ==
  /\ Steady(t)
  /\ t.wire = s.wire /\ t.finished = s.finished /\ t.failed = s.failed /\ t.finish = s.finish

\* No frames at all.
LEMMA BeforeNothing ==
  \A ok \in BOOLEAN : Before(<<>>, ok)
  <1> SUFFICES ASSUME NEW ok \in BOOLEAN PROVE Before(<<>>, ok)
    OBVIOUS
  <1> DEFINE S == {}
             q == <<>>
  <1>1. q \in Seq(S) /\ \A x \in S : Inner(x, ok)
    OBVIOUS
  <1> HIDE DEF S, q
  <1>2. Before(q, ok)
    BY <1>1 DEF Before
  <1> QED BY <1>2 DEF q

\* One more frame.
LEMMA BeforeAppend ==
  ASSUME NEW ok \in BOOLEAN, NEW q, Before(q, ok), NEW x, Inner(x, ok)
  PROVE  Before(Append(q, x), ok)
  <1>1. PICK S : q \in Seq(S) /\ \A y \in S : Inner(y, ok)
    BY DEF Before
  <1> DEFINE T == S \cup {x}
  <1>2. q \in Seq(T)
    BY <1>1
  <1>3. Append(q, x) \in Seq(T)
    BY <1>2
  <1>4. \A y \in T : Inner(y, ok)
    BY <1>1
  <1> QED BY <1>3, <1>4 DEF Before

\* Frames behind frames.
LEMMA BeforeConcat ==
  ASSUME NEW ok \in BOOLEAN, NEW p, NEW q, Before(p, ok), Before(q, ok)
  PROVE  Before(p \o q, ok)
  <1>1. PICK S : p \in Seq(S) /\ \A y \in S : Inner(y, ok)
    BY DEF Before
  <1>2. PICK T : q \in Seq(T) /\ \A y \in T : Inner(y, ok)
    BY DEF Before
  <1> DEFINE U == S \cup T
  <1>3. p \in Seq(U) /\ q \in Seq(U)
    BY <1>1, <1>2
  <1>4. p \o q \in Seq(U) /\ \A y \in U : Inner(y, ok)
    BY <1>1, <1>2, <1>3
  <1> QED BY <1>4 DEF Before

\* Two steps are one.
LEMMA GoesOn ==
  ASSUME NEW s, NEW t, NEW u, Goes(s, t), Goes(t, u)
  PROVE  Goes(s, u)
  BY DEF Goes

\* No step at all.
LEMMA GoesNowhere ==
  ASSUME NEW s, Steady(s)
  PROVE  Goes(s, s)
  BY DEF Goes

\* A frame that is neither a reason nor an end.
LEMMA Emits ==
  ASSUME NEW s, Steady(s), NEW f, f \notin {"end", "error", "final"}, NEW b, NEW n
  PROVE  /\ \A tag : Goes(s, EmitTag(s, f, b, n, tag))
         /\ Goes(s, Emit(s, f, b, n))
         /\ Goes(s, EmitSome(s, f, b, n))
  <1>1. ASSUME NEW tag PROVE Goes(s, EmitTag(s, f, b, n, tag))
    <2> DEFINE x == Frame(f, b, n, tag)
               t == EmitTag(s, f, b, n, tag)
    <2>1. Inner(x, FALSE)
      BY DEF Inner, Frame
    <2> HIDE DEF x
    <2>2. Before(Append(s.out, x), FALSE)
      BY <2>1, BeforeAppend DEF Steady, Sound
    <2>3. t = [s EXCEPT !.out = Append(s.out, x)]
      BY DEF EmitTag, x
    <2>4. DOMAIN t = DOMAIN s /\ t.out = Append(s.out, x) /\ t.later = s.later /\ t.deferred = s.deferred
          /\ t.nextBlock = s.nextBlock
      BY <2>3 DEF Steady, EncFields
    <2>5. t.wire = s.wire /\ t.finished = s.finished /\ t.failed = s.failed /\ t.finish = s.finish
      BY <2>3 DEF Steady, EncFields
    <2>6. EncFields \subseteq DOMAIN t /\ t.nextBlock \in Nat /\ Sound(t.out, t.later, t.deferred)
      <3> HIDE DEF t
      <3> QED BY <2>2, <2>4 DEF Steady, Sound
    <2> QED BY <2>5, <2>6 DEF Goes, Steady
  <1>2. Emit(s, f, b, n) = EmitTag(s, f, b, n, "")
    BY DEF Emit, EmitTag
  <1> QED BY <1>1, <1>2, GoesNowhere DEF EmitSome

\* The same, after other steps.
LEMMA EmitsOn ==
  ASSUME NEW s, NEW t, Goes(s, t), NEW f, f \notin {"end", "error", "final"}, NEW b, NEW n
  PROVE  /\ \A tag : Goes(s, EmitTag(t, f, b, n, tag))
         /\ Goes(s, Emit(t, f, b, n))
         /\ Goes(s, EmitSome(t, f, b, n))
  <1>1. Steady(t)
    BY DEF Goes
  <1>2. /\ \A tag : Goes(t, EmitTag(t, f, b, n, tag))
        /\ Goes(t, Emit(t, f, b, n))
        /\ Goes(t, EmitSome(t, f, b, n))
    BY <1>1, Emits
  <1> QED BY <1>2, GoesOn

\* Fields that say nothing of the frames.
LEMMA Touched ==
  ASSUME NEW s, Steady(s), NEW t, DOMAIN t = DOMAIN s,
         t.out = s.out, t.later = s.later, t.deferred = s.deferred, t.nextBlock \in Nat,
         t.wire = s.wire, t.finished = s.finished, t.failed = s.failed, t.finish = s.finish
  PROVE  Goes(s, t)
  BY DEF Goes, Steady

\* alloc_tool and tool_enc number a call, note_custom_slot marks it.
LEMMA AllocGoes ==
  ASSUME NEW s, Steady(s), NEW i
  PROVE  Goes(s, AllocTool(s, i))
  <1> DEFINE t == AllocTool(s, i)
  <1>1. DOMAIN t = DOMAIN s
    BY DEF AllocTool
  <1>2. t.out = s.out /\ t.later = s.later /\ t.deferred = s.deferred
    BY DEF AllocTool, Steady, EncFields
  <1>3. t.wire = s.wire /\ t.finished = s.finished /\ t.failed = s.failed /\ t.finish = s.finish
    BY DEF AllocTool, Steady, EncFields
  <1>4. t.nextBlock = IF s.wire = "chat" THEN s.nextBlock ELSE s.nextBlock + 1
    BY DEF AllocTool, Steady, EncFields
  <1> HIDE DEF t
  <1>5. t.nextBlock \in Nat
    BY <1>4 DEF Steady
  <1>6. Goes(s, t)
    BY <1>1, <1>2, <1>3, <1>5, Touched
  <1> QED BY <1>6 DEF t

\* tool_enc finds or makes a slot; it puts out no frame.
LEMMA ToolEncGoes ==
  ASSUME NEW s, Steady(s), NEW i
  PROVE  Goes(s, ToolEnc(s, i).s)
  <1> DEFINE q == s.slots[i]
             slot == IF q # <<>> THEN Head(q) ELSE s.last[i]
             t == [s EXCEPT !.gotArg = @ \cup {slot}, !.slots[i] = IF Len(q) > 1 THEN Tail(q) ELSE q]
  <1>1. ToolEnc(s, i).s = IF q = <<>> /\ i \notin DOMAIN s.last THEN AllocTool(s, i) ELSE t
    BY DEF ToolEnc
  <1>2. Goes(s, t)
    BY DEF Goes, Steady, EncFields
  <1> HIDE DEF t, q
  <1> QED BY <1>1, <1>2, AllocGoes

\* Nor does noting that a slot is a custom tool's, or keeping its input.
LEMMA CustomGoes ==
  ASSUME NEW s, Steady(s), NEW slot, NEW e
  PROVE  Goes(s, NoteCustom(s, slot, e)) /\ Goes(s, AddCustom(s, slot, e))
  BY DEF NoteCustom, AddCustom, Goes, Steady, EncFields

\* The reasons that let a client run its tools, and the clients that are told so.
Ordinary == {"stop", "end_turn", "tool_calls", "tool_use"}
Runs(s) == s.wire # "gemini" /\ s.finish \in Ordinary \cup {Unset}

\* Frames that end with the one end frame.
Closed(q, ok) ==
  \E p, x : q = Append(p, x) /\ Before(p, ok) /\ x.f = "end" /\ (x.tag \in ToolTags => ok)

\* On the way to the end, and there.
Nears(s, t) ==
  /\ EncFields \subseteq DOMAIN t
  /\ t.wire = s.wire /\ t.finished = s.finished /\ t.failed = s.failed /\ t.finish = s.finish
  /\ Before(t.out, Runs(s))
Closes(s, t) ==
  /\ EncFields \subseteq DOMAIN t
  /\ t.wire = s.wire /\ t.finished = s.finished /\ t.failed = s.failed /\ t.finish = s.finish
  /\ Closed(t.out, Runs(s))

\* Inner frames only are on the way to the end.
LEMMA GoesNear ==
  ASSUME NEW s, NEW t, Goes(s, t)
  PROVE  Nears(s, t)
  <1>1. PICK S : t.out \in Seq(S) /\ \A x \in S : Inner(x, FALSE)
    BY DEF Goes, Steady, Sound, Before
  <1>2. \A x \in S : Inner(x, Runs(s))
    BY <1>1 DEF Inner
  <1>3. Before(t.out, Runs(s))
    BY <1>1, <1>2 DEF Before
  <1> QED BY <1>3 DEF Goes, Steady, Nears

\* So is one frame more, a reason too if it may run tools when it says so.
LEMMA NearsEmit ==
  ASSUME NEW s, NEW t, Nears(s, t), NEW f, f \notin {"end", "error"}, NEW b, NEW n, NEW tag,
         f = "final" /\ tag \in ToolTags => Runs(s)
  PROVE  Nears(s, EmitTag(t, f, b, n, tag))
  <1> DEFINE x == Frame(f, b, n, tag)
             q == Append(t.out, x)
             u == [t EXCEPT !.out = q]
             ok == Runs(s)
  <1>1. Inner(x, ok)
    BY DEF Inner, Frame
  <1>2. Before(t.out, ok) /\ ok \in BOOLEAN
    BY DEF Nears, Runs
  <1>3. EmitTag(t, f, b, n, tag) = u
    BY DEF EmitTag
  <1> HIDE DEF x, ok
  <1>4. Before(q, ok)
    BY <1>1, <1>2, BeforeAppend
  <1> HIDE DEF q
  <1>5. Nears(s, u)
    BY <1>4 DEF Nears, EncFields, ok
  <1> QED BY <1>3, <1>5

\* The end frame closes the stream.
LEMMA NearsEnd ==
  ASSUME NEW s, NEW t, Nears(s, t), NEW b, NEW n, NEW tag, tag \in ToolTags => Runs(s)
  PROVE  Closes(s, EmitTag(t, "end", b, n, tag))
  <1> DEFINE x == Frame("end", b, n, tag)
             q == Append(t.out, x)
             u == [t EXCEPT !.out = q]
  <1>1. x.f = "end" /\ x.tag = tag
    BY DEF Frame
  <1>2. EmitTag(t, "end", b, n, tag) = u
    BY DEF EmitTag
  <1> HIDE DEF x
  <1>3. Closed(q, Runs(s))
    BY <1>1 DEF Nears, Closed
  <1> HIDE DEF q
  <1>4. Closes(s, u)
    BY <1>3 DEF Nears, Closes, EncFields
  <1> QED BY <1>2, <1>4
-----------------------------------------------------------------------------
(* Messages.                                                               *)

\* The head.
LEMMA MessagesStartGoes ==
  ASSUME NEW s, Steady(s)
  PROVE  Goes(s, MessagesStart(s))
  <1> DEFINE t == [s EXCEPT !.started = TRUE]
  <1>1. Goes(s, t)
    BY DEF Goes, Steady, EncFields
  <1> HIDE DEF t
  <1>2. Goes(s, Emit(t, "head", NoB, <<>>))
    BY <1>1, EmitsOn
  <1> QED BY <1>2, GoesNowhere DEF MessagesStart, t

\* A tool block opens.
LEMMA OpenToolGoes ==
  ASSUME NEW s, Steady(s), NEW slot, NEW id
  PROVE  Goes(s, OpenTool(s, slot, id))
  <1> DEFINE t == [s EXCEPT !.open = [b |-> slot, k |-> "tool"], !.ids = Put(@, slot, id)]
  <1>1. Goes(s, t)
    BY DEF Goes, Steady, EncFields
  <1> HIDE DEF t
  <1>2. Goes(s, EmitTag(t, "start", slot, <<>>, id))
    BY <1>1, EmitsOn
  <1> QED BY <1>2 DEF OpenTool, t

\* A held call becomes a block of its own: start, fragments, stop.
LEMMA HeldAtGoes ==
  ASSUME NEW s, Steady(s), NEW held, NEW b
  PROVE  Goes(s, HeldAt(s, held, b))
  <1>1. ASSUME NEW h PROVE Goes(s, HeldBlock(s, h))
    <2> DEFINE n == IF CustomOf(s, h.enc) # <<>> THEN CustomOf(s, h.enc) ELSE h.args
               opened == EmitTag(s, "start", h.enc, <<>>, h.id)
               some == EmitSome(opened, "delta", h.enc, n)
               shut == Emit(some, "stop", h.enc, <<>>)
    <2>1. HeldBlock(s, h) = [shut EXCEPT !.closed = @ \cup {h.enc}, !.custom = Del(@, h.enc)]
      BY DEF HeldBlock
    <2> HIDE DEF n
    <2>2. Goes(s, opened)
      BY Emits
    <2> HIDE DEF opened
    <2>3. Goes(s, some)
      BY <2>2, EmitsOn
    <2> HIDE DEF some
    <2>4. Goes(s, shut)
      BY <2>3, EmitsOn
    <2> HIDE DEF shut
    <2>5. Goes(shut, HeldBlock(s, h))
      BY <2>1, <2>4 DEF Goes, Steady, EncFields
    <2> QED BY <2>4, <2>5, GoesOn
  <1> QED BY <1>1, GoesNowhere DEF HeldAt

\* flush_held_tools, slot by slot: the equations of the recursive function.
LEMMA FlushHeldSteps ==
  ASSUME NEW s, s.nextBlock \in Nat
  PROVE  \E f : /\ f[0] = [s EXCEPT !.held = <<>>]
                /\ \A b \in 1..s.nextBlock : f[b] = HeldAt(f[b - 1], Range(s.held), b - 1)
                /\ FlushHeldTools(s) = f[s.nextBlock]
  <1> DEFINE N == s.nextBlock
             first == [s EXCEPT !.held = <<>>]
             then(r, j) == HeldAt(r, Range(s.held), j - 1)
             Is(f, m) == f = [b \in 0..m |-> IF b = 0 THEN first ELSE then(f[b - 1], b)]
             T == {m \in 0..N : \E f : Is(f, m)}
  <1>0. FlushHeldTools(s) = (CHOOSE f : Is(f, N))[N]
    BY DEF FlushHeldTools
  <1> HIDE DEF first, then
  <1>1. 0 \in T
    <2> DEFINE g == [b \in 0..0 |-> first]
    <2>1. Is(g, 0)
      OBVIOUS
    <2> HIDE DEF g, Is
    <2> QED BY <2>1
  <1>2. ASSUME NEW m \in 1..N, m - 1 \in T PROVE m \in T
    <2>1. PICK f : Is(f, m - 1)
      BY <1>2
    <2> DEFINE g == [b \in 0..m |-> IF b = m THEN then(f[m - 1], m) ELSE f[b]]
    <2>2. Is(g, m)
      BY <2>1
    <2> HIDE DEF g, Is
    <2> QED BY <2>2
  <1>3. N \in T
    <2>1. \A m \in 1..N : m - 1 \in T => m \in T
      BY <1>2
    <2>2. N \in Nat
      OBVIOUS
    <2> HIDE DEF T, N
    <2>3. \A m \in 0..N : m \in T
      BY <1>1, <2>1, <2>2, Induction, Zenon
    <2> QED BY <2>2, <2>3
  <1> DEFINE h == CHOOSE f : Is(f, N)
  <1>4. Is(h, N)
    BY <1>3
  <1>5. h[0] = first /\ \A b \in 1..N : h[b] = then(h[b - 1], b)
    <2>1. N \in Nat
      OBVIOUS
    <2> HIDE DEF h, N
    <2> QED BY <1>4, <2>1
  <1> HIDE DEF h
  <1> QED BY <1>0, <1>5 DEF h, first, then

\* flush_held_tools puts out inner frames only.
LEMMA FlushHeldGoes ==
  ASSUME NEW s, Steady(s)
  PROVE  Goes(s, FlushHeldTools(s))
  <1>1. s.nextBlock \in Nat
    BY DEF Steady
  <1>2. PICK f : /\ f[0] = [s EXCEPT !.held = <<>>]
                 /\ \A b \in 1..s.nextBlock : f[b] = HeldAt(f[b - 1], Range(s.held), b - 1)
                 /\ FlushHeldTools(s) = f[s.nextBlock]
    BY <1>1, FlushHeldSteps
  <1> DEFINE N == s.nextBlock
             T == {k \in 0..N : Goes(s, f[k])}
  <1>3. 0 \in T
    <2>1. Goes(s, [s EXCEPT !.held = <<>>])
      BY DEF Goes, Steady, EncFields
    <2> QED BY <1>1, <1>2, <2>1
  <1>4. ASSUME NEW k \in 1..N, k - 1 \in T PROVE k \in T
    <2>1. Steady(f[k - 1])
      BY <1>4 DEF Goes
    <2>2. Goes(f[k - 1], HeldAt(f[k - 1], Range(s.held), k - 1))
      BY <2>1, HeldAtGoes
    <2> QED BY <1>2, <1>4, <2>2, GoesOn
  <1>5. \A k \in 1..N : k - 1 \in T => k \in T
    BY <1>4
  <1>6. N \in T
    <2> HIDE DEF T
    <2>1. \A k \in 0..N : k \in T
      BY <1>1, <1>3, <1>5, Induction
    <2> QED BY <1>1, <2>1
  <1> QED BY <1>2, <1>6

\* close_open: the stop of the open block, then the calls held behind it.
LEMMA CloseOpenGoes ==
  ASSUME NEW s, Steady(s)
  PROVE  Goes(s, CloseOpen(s))
  <1> DEFINE b == s.open.b
             shut == [s EXCEPT !.open = NoBlock, !.closed = @ \cup {b}, !.custom = Del(@, b)]
             some == EmitSome(shut, "delta", b, CustomOf(s, b))
             stopped == Emit(some, "stop", b, <<>>)
  <1>1. CloseOpen(s) = IF s.open = NoBlock THEN FlushHeldTools(s) ELSE FlushHeldTools(stopped)
    BY DEF CloseOpen
  <1>2. Goes(s, shut)
    BY DEF Goes, Steady, EncFields
  <1> HIDE DEF shut
  <1>3. Goes(s, some)
    BY <1>2, EmitsOn
  <1> HIDE DEF some
  <1>4. Goes(s, stopped)
    BY <1>3, EmitsOn
  <1> HIDE DEF stopped
  <1>5. Goes(stopped, FlushHeldTools(stopped))
    BY <1>4, FlushHeldGoes DEF Goes
  <1>6. Goes(s, FlushHeldTools(stopped))
    BY <1>4, <1>5, GoesOn
  <1> QED BY <1>1, <1>6, FlushHeldGoes

\* ensure_block: a block of the kind is open, the one before it closed.
LEMMA EnsureBlockGoes ==
  ASSUME NEW s, Steady(s), NEW kind
  PROVE  Goes(s, EnsureBlock(s, kind))
  <1> DEFINE c == CloseOpen(s)
             b == c.nextBlock
             t == [c EXCEPT !.nextBlock = b + 1, !.open = [b |-> b, k |-> kind]]
  <1>1. EnsureBlock(s, kind) = IF s.open.k = kind THEN s ELSE Emit(t, "start", b, <<>>)
    BY DEF EnsureBlock
  <1>2. Goes(s, c)
    BY CloseOpenGoes
  <1> HIDE DEF c
  <1>3. Goes(s, t)
    BY <1>2 DEF Goes, Steady, EncFields
  <1> HIDE DEF t
  <1>4. Goes(s, Emit(t, "start", b, <<>>))
    BY <1>3, EmitsOn
  <1> QED BY <1>1, <1>4, GoesNowhere

\* Text and its like go to a block of their kind.
LEMMA MessagesContentGoes ==
  ASSUME NEW s, Steady(s), NEW e
  PROVE  Goes(s, MessagesContent(s, e))
  <1> DEFINE kind == IF e.k \in {"reasoning", "signature"} THEN "thinking" ELSE "text"
             f == IF e.k \in {"signature", "annotation"} THEN "note" ELSE "delta"
             t == EnsureBlock(s, kind)
  <1>1. MessagesContent(s, e) = Emit(t, f, t.open.b, <<e.n>>)
    BY DEF MessagesContent
  <1>2. f \notin {"end", "error", "final"}
    OBVIOUS
  <1> HIDE DEF kind, f
  <1>3. Goes(s, t)
    BY EnsureBlockGoes
  <1> HIDE DEF t
  <1> QED BY <1>1, <1>2, <1>3, EmitsOn

\* An image is a block of its own.
LEMMA MessagesImageGoes ==
  ASSUME NEW s, Steady(s), NEW e
  PROVE  Goes(s, MessagesImage(s, e))
  <1> DEFINE c == CloseOpen(s)
             b == c.nextBlock
             t == [c EXCEPT !.nextBlock = b + 1]
             u == Emit(t, "start", b, <<e.n>>)
  <1>1. MessagesImage(s, e) = Emit(u, "stop", b, <<>>)
    BY DEF MessagesImage
  <1>2. Goes(s, c)
    BY CloseOpenGoes
  <1> HIDE DEF c
  <1>3. Goes(s, t)
    BY <1>2 DEF Goes, Steady, EncFields
  <1> HIDE DEF t
  <1>4. Goes(s, u)
    BY <1>3, EmitsOn
  <1> HIDE DEF u
  <1> QED BY <1>1, <1>4, EmitsOn

\* A call opens, is held behind the open one, or is the open one again.
LEMMA MessagesToolStartGoes ==
  ASSUME NEW s, Steady(s), NEW e
  PROVE  Goes(s, MessagesToolStart(s, e))
  <1> DEFINE same == s.open.k = "tool" /\ e.i \in DOMAIN s.last /\ s.last[e.i] = s.open.b
             known == e.id \in {NoId, s.ids[s.open.b]}
             a == AllocTool(s, e.i)
             slot == a.last[e.i]
             w == MessagesToolStart(s, e)
             \* a new call on the open call's index
             c == CloseOpen(s)
             d == [c EXCEPT !.slots[e.i] = <<>>]
             x == AllocTool(d, e.i)
             y == NoteCustom(x, x.last[e.i], e)
             \* more of a held call, a call that waits, a call that opens
             m == [s EXCEPT !.held[e.i].id = IF @ = NoId THEN e.id ELSE @]
             p == [a EXCEPT !.held = Put(@, e.i, [enc |-> slot, id |-> e.id, args |-> <<>>])]
             n == NoteCustom(a, slot, e)
  <1>1. CASE same /\ known
    <2>1. w = NoteCustom(s, s.open.b, e)
      BY <1>1 DEF MessagesToolStart
    <2> QED BY <2>1, CustomGoes
  <1>2. CASE same /\ ~known
    <2>1. w = OpenTool(y, x.last[e.i], e.id)
      BY <1>2 DEF MessagesToolStart
    <2>2. Goes(s, c)
      BY CloseOpenGoes
    <2> HIDE DEF c
    <2>3. Goes(s, d)
      BY <2>2 DEF Goes, Steady, EncFields
    <2> HIDE DEF d
    <2>4. Goes(d, x)
      BY <2>3, AllocGoes DEF Goes
    <2> HIDE DEF x
    <2>5. Goes(x, y)
      BY <2>4, CustomGoes DEF Goes
    <2> HIDE DEF y
    <2>6. Goes(y, w)
      BY <2>1, <2>5, OpenToolGoes DEF Goes
    <2> HIDE DEF w
    <2> QED BY <2>3, <2>4, <2>5, <2>6, GoesOn DEF w
  <1>3. CASE ~same /\ e.i \in DOMAIN s.held
    <2>1. w = NoteCustom(m, s.held[e.i].enc, e)
      BY <1>3 DEF MessagesToolStart
    <2>2. Goes(s, m)
      BY DEF Goes, Steady, EncFields
    <2> HIDE DEF m
    <2>3. Goes(m, w)
      BY <2>1, <2>2, CustomGoes DEF Goes
    <2> QED BY <2>2, <2>3, GoesOn
  <1>4. CASE ~same /\ e.i \notin DOMAIN s.held /\ s.open.k = "tool"
    <2>1. w = NoteCustom(p, slot, e)
      BY <1>4 DEF MessagesToolStart
    <2>2. Goes(s, a)
      BY AllocGoes
    <2> HIDE DEF a
    <2>3. Goes(s, p)
      BY <2>2 DEF Goes, Steady, EncFields
    <2> HIDE DEF p
    <2>4. Goes(p, w)
      BY <2>1, <2>3, CustomGoes DEF Goes
    <2> QED BY <2>3, <2>4, GoesOn
  <1>5. CASE ~same /\ e.i \notin DOMAIN s.held /\ s.open.k # "tool"
    <2>1. w = OpenTool(CloseOpen(n), slot, e.id)
      BY <1>5 DEF MessagesToolStart
    <2>2. Goes(s, a)
      BY AllocGoes
    <2> HIDE DEF a
    <2>3. Goes(a, n)
      BY <2>2, CustomGoes DEF Goes
    <2> HIDE DEF n
    <2>4. Goes(n, CloseOpen(n))
      BY <2>3, CloseOpenGoes DEF Goes
    <2>5. Goes(CloseOpen(n), w)
      BY <2>1, <2>4, OpenToolGoes DEF Goes
    <2> HIDE DEF w
    <2> QED BY <2>2, <2>3, <2>4, <2>5, GoesOn DEF w
  <1> QED BY <1>1, <1>2, <1>3, <1>4, <1>5

\* A fragment goes to the open call or is kept with the held one.
LEMMA MessagesToolArgsGoes ==
  ASSUME NEW s, Steady(s), NEW e
  PROVE  Goes(s, MessagesToolArgs(s, e))
  <1> DEFINE r == ToolEnc(s, e.i)
             t == r.s
             slot == r.enc
             custom == IsCustom(e) \/ slot \in DOMAIN t.custom
             mine == t.open = [b |-> slot, k |-> "tool"] /\ custom
             h == t.held[e.i].enc
             w == MessagesToolArgs(s, e)
             p == [t EXCEPT !.held[e.i].args = Append(@, e.n)]
  <1>0. Goes(s, t)
    BY ToolEncGoes
  <1>1. CASE mine
    <2>1. w = AddCustom(t, slot, e)
      BY <1>1 DEF MessagesToolArgs
    <2> HIDE DEF t
    <2>2. Goes(t, w)
      BY <1>0, <2>1, CustomGoes DEF Goes
    <2> QED BY <1>0, <2>2, GoesOn
  <1>2. CASE ~mine /\ e.i \in DOMAIN t.held
    <2>1. w = IF IsCustom(e) \/ h \in DOMAIN t.custom THEN AddCustom(t, h, e) ELSE p
      BY <1>2 DEF MessagesToolArgs
    <2> HIDE DEF t, h
    <2>2. Goes(t, AddCustom(t, h, e))
      BY <1>0, CustomGoes DEF Goes
    <2>3. Goes(t, p)
      BY <1>0 DEF Goes, Steady, EncFields
    <2>4. Goes(t, w)
      BY <2>1, <2>2, <2>3
    <2> QED BY <1>0, <2>4, GoesOn
  <1>3. CASE ~mine /\ e.i \notin DOMAIN t.held
    <2>1. w = IF slot \in t.closed THEN t ELSE Emit(t, "delta", slot, <<e.n>>)
      BY <1>3 DEF MessagesToolArgs
    <2> HIDE DEF t
    <2> QED BY <1>0, <2>1, EmitsOn
  <1> QED BY <1>1, <1>2, <1>3

\* Content that waits behind an open call.
LEMMA DeferGoes ==
  ASSUME NEW s, Steady(s), NEW e, e.k # "finish"
  PROVE  Goes(s, [s EXCEPT !.deferred = Append(@, e)])
  <1> DEFINE d == Append(s.deferred, e)
             t == [s EXCEPT !.deferred = d]
  <1>1. PICK S : s.deferred \in Seq(S) /\ \A x \in S : x.k # "finish"
    BY DEF Steady, Sound
  <1> DEFINE T == S \cup {e}
  <1>2. s.deferred \in Seq(T)
    BY <1>1
  <1>3. d \in Seq(T) /\ \A x \in T : x.k # "finish"
    BY <1>1, <1>2
  <1>4. Sound(s.out, s.later, d)
    BY <1>3 DEF Steady, Sound
  <1> HIDE DEF d
  <1>5. Goes(s, t)
    BY <1>4 DEF Goes, Steady, EncFields
  <1> QED BY <1>5 DEF d

\* One event: a finish reason is remembered, anything else put out, held or deferred.
LEMMA PushMessagesGoes ==
  ASSUME NEW s, Steady(s), NEW e
  PROVE  /\ e.k # "finish" => Goes(s, PushMessages(s, e))
         /\ e.k = "finish" => Heard(s, PushMessages(s, e), e.r)
  <1> DEFINE t == MessagesStart(s)
             w == PushMessages(s, e)
             quiet == ~s.started /\ e.k \in MessagesQuiet
  <1>0. Goes(s, t) /\ Steady(t)
    BY MessagesStartGoes DEF Goes
  <1>1. CASE quiet
    <2>1. w = s /\ e.k # "finish"
      BY <1>1 DEF PushMessages, MessagesQuiet
    <2> QED BY <2>1, GoesNowhere
  <1>2. CASE ~quiet /\ e.k \in Deferrable
    <2>1. w = IF ToolBlockOpen(t) THEN [t EXCEPT !.deferred = Append(@, e)] ELSE MessagesContent(t, e)
      BY <1>2 DEF PushMessages, Starts, Fragments, Deferrable
    <2>2. e.k # "finish"
      BY <1>2 DEF Deferrable
    <2> HIDE DEF t
    <2>3. Goes(t, w)
      BY <1>0, <2>1, <2>2, DeferGoes, MessagesContentGoes
    <2> QED BY <1>0, <2>2, <2>3, GoesOn
  <1>3. CASE ~quiet /\ e.k \in Starts
    <2>1. w = MessagesToolStart(t, e) /\ e.k # "finish"
      BY <1>3 DEF PushMessages, Starts, Fragments, Deferrable
    <2> HIDE DEF t
    <2>3. Goes(t, w)
      BY <1>0, <2>1, MessagesToolStartGoes
    <2> QED BY <1>0, <2>1, <2>3, GoesOn
  <1>4. CASE ~quiet /\ e.k \in Fragments
    <2>1. w = MessagesToolArgs(t, e) /\ e.k # "finish"
      BY <1>4 DEF PushMessages, Starts, Fragments, Deferrable
    <2> HIDE DEF t
    <2>3. Goes(t, w)
      BY <1>0, <2>1, MessagesToolArgsGoes
    <2> QED BY <1>0, <2>1, <2>3, GoesOn
  <1>5. CASE ~quiet /\ e.k = "image"
    <2>1. w = MessagesImage(t, e)
      BY <1>5 DEF PushMessages, Starts, Fragments, Deferrable
    <2> HIDE DEF t
    <2>3. Goes(t, w)
      BY <1>0, <2>1, MessagesImageGoes
    <2> QED BY <1>0, <1>5, <2>3, GoesOn
  <1>6. CASE ~quiet /\ e.k = "refusal"
    <2>1. w = [t EXCEPT !.refusal = Append(@, e.n)]
      BY <1>6 DEF PushMessages, Starts, Fragments, Deferrable
    <2> HIDE DEF t
    <2>3. Goes(t, w)
      BY <1>0, <2>1 DEF Goes, Steady, EncFields
    <2> QED BY <1>0, <1>6, <2>3, GoesOn
  <1>7. CASE ~quiet /\ e.k = "finish"
    <2>1. w = [t EXCEPT !.finish = e.r]
      BY <1>7 DEF PushMessages, Starts, Fragments, Deferrable
    <2> HIDE DEF t
    <2>3. Heard(t, w, e.r)
      BY <1>0, <2>1 DEF Heard, Steady, EncFields
    <2> QED BY <1>0, <1>7, <2>3 DEF Goes, Heard
  <1>8. CASE ~quiet /\ e.k = "usage"
    <2>1. w = [t EXCEPT !.usage = TRUE]
      BY <1>8 DEF PushMessages, Starts, Fragments, Deferrable
    <2> HIDE DEF t
    <2>3. Goes(t, w)
      BY <1>0, <2>1 DEF Goes, Steady, EncFields
    <2> QED BY <1>0, <1>8, <2>3, GoesOn
  <1>9. CASE ~quiet /\ e.k \notin Deferrable \cup Starts \cup Fragments \cup {"image", "refusal", "finish", "usage"}
    <2>1. w = t
      BY <1>9 DEF PushMessages
    <2> QED BY <1>0, <1>9, <2>1
  <1> HIDE DEF w, quiet
  <1>10. \/ e.k \in Deferrable \/ e.k \in Starts \/ e.k \in Fragments \/ e.k = "image" \/ e.k = "refusal"
         \/ e.k = "finish" \/ e.k = "usage"
         \/ e.k \notin Deferrable \cup Starts \cup Fragments \cup {"image", "refusal", "finish", "usage"}
    OBVIOUS
  <1> QED BY <1>1, <1>2, <1>3, <1>4, <1>5, <1>6, <1>7, <1>8, <1>9, <1>10, Zenon

\* What was deferred, event by event: the equations of the recursive function.
LEMMA PushDeferredSteps ==
  ASSUME NEW s, Len(s.deferred) \in Nat
  PROVE  \E f : /\ f[0] = [s EXCEPT !.deferred = <<>>]
                /\ \A k \in 1..Len(s.deferred) : f[k] = PushMessages(f[k - 1], s.deferred[k])
                /\ PushDeferred(s) = f[Len(s.deferred)]
  <1> DEFINE N == Len(s.deferred)
             first == [s EXCEPT !.deferred = <<>>]
             then(r, j) == PushMessages(r, s.deferred[j])
             Is(f, m) == f = [k \in 0..m |-> IF k = 0 THEN first ELSE then(f[k - 1], k)]
             T == {m \in 0..N : \E f : Is(f, m)}
  <1>0. PushDeferred(s) = (CHOOSE f : Is(f, N))[N]
    BY DEF PushDeferred
  <1> HIDE DEF first, then
  <1>1. 0 \in T
    <2> DEFINE g == [k \in 0..0 |-> first]
    <2>1. Is(g, 0)
      OBVIOUS
    <2> HIDE DEF g, Is
    <2> QED BY <2>1
  <1>2. ASSUME NEW m \in 1..N, m - 1 \in T PROVE m \in T
    <2>1. PICK f : Is(f, m - 1)
      BY <1>2
    <2> DEFINE g == [k \in 0..m |-> IF k = m THEN then(f[m - 1], m) ELSE f[k]]
    <2>2. Is(g, m)
      BY <2>1
    <2> HIDE DEF g, Is
    <2> QED BY <2>2
  <1>3. N \in T
    <2>1. \A m \in 1..N : m - 1 \in T => m \in T
      BY <1>2
    <2>2. N \in Nat
      OBVIOUS
    <2> HIDE DEF T, N
    <2>3. \A m \in 0..N : m \in T
      BY <1>1, <2>1, <2>2, Induction, Zenon
    <2> QED BY <2>2, <2>3
  <1> DEFINE h == CHOOSE f : Is(f, N)
  <1>4. Is(h, N)
    BY <1>3
  <1>5. h[0] = first /\ \A k \in 1..N : h[k] = then(h[k - 1], k)
    <2>1. N \in Nat
      OBVIOUS
    <2> HIDE DEF h, N
    <2> QED BY <1>4, <2>1
  <1> HIDE DEF h
  <1> QED BY <1>0, <1>5 DEF h, first, then

\* What was deferred is put out the way it would have been.
LEMMA PushDeferredGoes ==
  ASSUME NEW s, Steady(s)
  PROVE  Goes(s, PushDeferred(s))
  <1>1. PICK S : s.deferred \in Seq(S) /\ \A x \in S : x.k # "finish"
    BY DEF Steady, Sound
  <1> DEFINE N == Len(s.deferred)
  <1>2. N \in Nat /\ \A k \in 1..N : s.deferred[k].k # "finish"
    BY <1>1
  <1>3. PICK f : /\ f[0] = [s EXCEPT !.deferred = <<>>]
                 /\ \A k \in 1..N : f[k] = PushMessages(f[k - 1], s.deferred[k])
                 /\ PushDeferred(s) = f[N]
    BY <1>2, PushDeferredSteps
  <1> DEFINE T == {k \in 0..N : Goes(s, f[k])}
  <1> HIDE DEF N
  <1>4. 0 \in T
    <2> DEFINE t == [s EXCEPT !.deferred = <<>>]
    <2>1. <<>> \in Seq(S)
      OBVIOUS
    <2>2. Sound(s.out, s.later, <<>>)
      BY <1>1, <2>1 DEF Steady, Sound
    <2>3. Goes(s, t)
      BY <2>2 DEF Goes, Steady, EncFields
    <2> QED BY <1>2, <1>3, <2>3
  <1>5. ASSUME NEW k \in 1..N, k - 1 \in T PROVE k \in T
    <2>1. Steady(f[k - 1])
      BY <1>5 DEF Goes
    <2>2. Goes(f[k - 1], PushMessages(f[k - 1], s.deferred[k]))
      BY <1>2, <2>1, PushMessagesGoes
    <2> QED BY <1>3, <1>5, <2>2, GoesOn
  <1>6. \A k \in 1..N : k - 1 \in T => k \in T
    BY <1>5
  <1>7. N \in T
    <2> HIDE DEF T
    <2>1. \A k \in 0..N : k \in T
      BY <1>2, <1>4, <1>6, Induction
    <2> QED BY <1>2, <2>1
  <1> QED BY <1>3, <1>7

\* A Messages client is told to run its tools only for an ordinary reason, or none.
LEMMA StopReasonRuns ==
  ASSUME NEW s, StopReason(s) \in ToolTags
  PROVE  s.finish \in Ordinary \cup {Unset}
  <1> DEFINE m == EncodeStopReason(s.finish)
  <1>1. m \in {Unset, "end_turn", "tool_use", "tool_calls"}
    BY DEF StopReason, ToolTags, Unset
  <1> QED BY <1>1 DEF EncodeStopReason, Ordinary, Unset

\* finish_messages: whatever was open, held or deferred, one reason and one end.
LEMMA FinishMessagesCloses ==
  ASSUME NEW s, Steady(s), s.wire = "messages"
  PROVE  Closes(s, FinishMessages(s))
  <1> DEFINE h == MessagesStart(s)
             c == CloseOpen(h)
             d == PushDeferred(c)
             t == CloseOpen(d)
             u == EmitTag(t, "final", NoB, t.refusal, StopReason(t))
  <1>1. FinishMessages(s) = EmitTag(u, "end", NoB, <<>>, "")
    BY DEF FinishMessages, MessagesTail, Emit, EmitTag
  <1>2. Goes(s, h)
    BY MessagesStartGoes
  <1> HIDE DEF h
  <1>3. Goes(h, c)
    BY <1>2, CloseOpenGoes DEF Goes
  <1> HIDE DEF c
  <1>4. Goes(c, d)
    BY <1>3, PushDeferredGoes DEF Goes
  <1> HIDE DEF d
  <1>5. Goes(d, t)
    BY <1>4, CloseOpenGoes DEF Goes
  <1> HIDE DEF t
  <1>6. Goes(s, t)
    BY <1>2, <1>3, <1>4, <1>5, GoesOn
  <1>7. StopReason(t) \in ToolTags => Runs(s)
    BY <1>6, StopReasonRuns DEF Runs, Goes
  <1>8. Nears(s, u)
    BY <1>6, <1>7, GoesNear, NearsEmit
  <1> HIDE DEF u
  <1>9. "" \notin ToolTags
    BY DEF ToolTags
  <1> QED BY <1>1, <1>8, <1>9, NearsEnd
-----------------------------------------------------------------------------
(* Responses.                                                              *)

\* The open item is done.
LEMMA CloseItemGoes ==
  ASSUME NEW s, Steady(s)
  PROVE  Goes(s, CloseItem(s))
  <1> DEFINE b == s.open.b
             n == IF b \in DOMAIN s.items THEN ItemPayload(s.items[b]) ELSE <<>>
             t == [s EXCEPT !.open = NoBlock, !.items = Del(@, b)]
  <1>1. CloseItem(s) = IF s.open = NoBlock THEN s ELSE Emit(t, "item", b, n)
    BY DEF CloseItem
  <1>2. Goes(s, t)
    BY DEF Goes, Steady, EncFields
  <1> HIDE DEF t, n
  <1>3. Goes(s, Emit(t, "item", b, n))
    BY <1>2, EmitsOn
  <1> QED BY <1>1, <1>3, GoesNowhere

\* An item of the kind is open, the one before it done.
LEMMA EnsureItemGoes ==
  ASSUME NEW s, Steady(s), NEW kind
  PROVE  Goes(s, EnsureItem(s, kind))
  <1> DEFINE c == CloseItem(s)
             b == c.nextBlock
             t == [c EXCEPT !.nextBlock = b + 1, !.open = [b |-> b, k |-> kind],
                            !.items = Put(@, b, NewItem(NoId))]
  <1>1. EnsureItem(s, kind) = IF s.open.k = kind THEN s ELSE Emit(t, "start", b, <<>>)
    BY DEF EnsureItem
  <1>2. Goes(s, c)
    BY CloseItemGoes
  <1> HIDE DEF c
  <1>3. Goes(s, t)
    BY <1>2 DEF Goes, Steady, EncFields
  <1> HIDE DEF t
  <1>4. Goes(s, Emit(t, "start", b, <<>>))
    BY <1>3, EmitsOn
  <1> QED BY <1>1, <1>4, GoesNowhere

\* Text and its like go to an item of their kind.
LEMMA ResponsesContentGoes ==
  ASSUME NEW s, Steady(s), NEW e
  PROVE  Goes(s, ResponsesContent(s, e))
  <1> DEFINE t == EnsureItem(s, IF e.k \in InThinkingItem THEN "thinking" ELSE "text")
             b == t.open.b
             f == IF e.k \in {"text", "reasoning", "refusal", "image"} THEN "delta" ELSE "note"
  <1>1. \E items : ResponsesContent(s, e) = Emit([t EXCEPT !.items = items], f, b, <<e.n>>)
    BY DEF ResponsesContent
  <1>2. PICK items : ResponsesContent(s, e) = Emit([t EXCEPT !.items = items], f, b, <<e.n>>)
    BY <1>1
  <1> DEFINE u == [t EXCEPT !.items = items]
  <1>3. f \notin {"end", "error", "final"}
    OBVIOUS
  <1>4. Goes(s, t)
    BY EnsureItemGoes
  <1> HIDE DEF t, f
  <1>5. Goes(s, u)
    BY <1>4 DEF Goes, Steady, EncFields
  <1> HIDE DEF u
  <1>6. Goes(s, Emit(u, f, b, <<e.n>>))
    BY <1>3, <1>5, EmitsOn
  <1> QED BY <1>2, <1>6 DEF u

\* A call opens an item, or is held behind the open one.
LEMMA ResponsesToolStartGoes ==
  ASSUME NEW s, Steady(s), NEW e
  PROVE  Goes(s, ResponsesToolStart(s, e))
  <1> DEFINE a == AllocTool(s, e.i)
             slot == a.last[e.i]
             t == [a EXCEPT !.items = Put(@, slot, NewItem(e.id)),
                            !.ids = IF e.k = "start" THEN Put(@, slot, e.id) ELSE @]
             held == [t EXCEPT !.heldEnc = Put(@, slot, e.id)]
             c == CloseItem(t)
             u == [c EXCEPT !.open = [b |-> slot, k |-> IF e.k = "start" THEN "tool" ELSE "custom"]]
  <1>1. ResponsesToolStart(s, e) = IF Waits(s, e) THEN held ELSE EmitTag(u, "start", slot, <<>>, e.id)
    BY DEF ResponsesToolStart
  <1>2. Goes(s, a)
    BY AllocGoes
  <1> HIDE DEF a
  <1>3. Goes(s, t)
    BY <1>2 DEF Goes, Steady, EncFields
  <1> HIDE DEF t
  <1>4. Goes(s, held)
    BY <1>3 DEF Goes, Steady, EncFields
  <1>5. Goes(t, c)
    BY <1>3, CloseItemGoes DEF Goes
  <1> HIDE DEF c
  <1>6. Goes(t, u)
    BY <1>5 DEF Goes, Steady, EncFields
  <1>7. Goes(s, u)
    BY <1>3, <1>6, GoesOn
  <1> HIDE DEF u, held
  <1>8. Goes(s, EmitTag(u, "start", slot, <<>>, e.id))
    BY <1>7, EmitsOn
  <1> QED BY <1>1, <1>4, <1>8

\* A fragment goes to its item, or is kept with the held one.
LEMMA ResponsesToolArgsGoes ==
  ASSUME NEW s, Steady(s), NEW e
  PROVE  Goes(s, ResponsesToolArgs(s, e))
  <1> DEFINE r == ToolEnc(s, e.i)
             t == r.s
             slot == r.enc
             more == [t EXCEPT !.items[slot].text = Append(@, e.n)]
             u == IF slot \in DOMAIN t.items THEN more ELSE t
  <1>1. ResponsesToolArgs(s, e) =
          IF e.k = "args" /\ slot \in DOMAIN u.heldEnc THEN u ELSE Emit(u, "delta", slot, <<e.n>>)
    BY DEF ResponsesToolArgs
  <1>2. Goes(s, t)
    BY ToolEncGoes
  <1> HIDE DEF t, slot
  <1>3. Goes(s, more)
    BY <1>2 DEF Goes, Steady, EncFields
  <1> HIDE DEF more
  <1>4. Goes(s, u)
    BY <1>2, <1>3
  <1> HIDE DEF u
  <1> QED BY <1>1, <1>4, EmitsOn

\* One event: a finish reason is remembered, anything else put out or held.
LEMMA PushResponsesGoes ==
  ASSUME NEW s, Steady(s), NEW e
  PROVE  /\ e.k # "finish" => Goes(s, PushResponses(s, e))
         /\ e.k = "finish" => Heard(s, PushResponses(s, e), e.r)
  <1> DEFINE started == [s EXCEPT !.started = TRUE]
             t == IF s.started \/ e.k \in ResponsesQuiet THEN s ELSE Emit(started, "head", NoB, <<>>)
             w == PushResponses(s, e)
             content == e.k \in InTextItem \cup InThinkingItem
             media == e.k \in {"audio", "transcript"}
  <1>0. Goes(s, t) /\ Steady(t)
    <2>1. Goes(s, started)
      BY DEF Goes, Steady, EncFields
    <2> HIDE DEF started
    <2>2. Goes(s, Emit(started, "head", NoB, <<>>))
      BY <2>1, EmitsOn
    <2>3. Goes(s, t)
      BY <2>2, GoesNowhere
    <2> QED BY <2>3 DEF Goes
  <1>1. CASE content
    <2>1. w = ResponsesContent(t, e) /\ e.k # "finish"
      BY <1>1 DEF PushResponses, InTextItem, InThinkingItem, Starts, Fragments
    <2> HIDE DEF t
    <2>2. Goes(t, w)
      BY <1>0, <2>1, ResponsesContentGoes
    <2> QED BY <1>0, <2>1, <2>2, GoesOn
  <1>2. CASE media
    <2>1. w = Emit(t, "part", NoB, <<e.n>>) /\ e.k # "finish"
      BY <1>2 DEF PushResponses, InTextItem, InThinkingItem, Starts, Fragments
    <2> HIDE DEF t
    <2> QED BY <1>0, <2>1, EmitsOn
  <1>3. CASE e.k \in Starts
    <2>1. w = ResponsesToolStart(t, e) /\ e.k # "finish"
      BY <1>3 DEF PushResponses, InTextItem, InThinkingItem, Starts, Fragments
    <2> HIDE DEF t
    <2>2. Goes(t, w)
      BY <1>0, <2>1, ResponsesToolStartGoes
    <2> QED BY <1>0, <2>1, <2>2, GoesOn
  <1>4. CASE e.k \in Fragments
    <2>1. w = ResponsesToolArgs(t, e) /\ e.k # "finish"
      BY <1>4 DEF PushResponses, InTextItem, InThinkingItem, Starts, Fragments
    <2> HIDE DEF t
    <2>2. Goes(t, w)
      BY <1>0, <2>1, ResponsesToolArgsGoes
    <2> QED BY <1>0, <2>1, <2>2, GoesOn
  <1>5. CASE e.k = "end"
    <2>1. w = CloseItem(t)
      BY <1>5 DEF PushResponses, InTextItem, InThinkingItem, Starts, Fragments
    <2> HIDE DEF t
    <2>2. Goes(t, w)
      BY <1>0, <2>1, CloseItemGoes
    <2> QED BY <1>0, <1>5, <2>2, GoesOn
  <1>6. CASE e.k = "finish"
    <2>1. w = [t EXCEPT !.finish = e.r]
      BY <1>6 DEF PushResponses, InTextItem, InThinkingItem, Starts, Fragments
    <2> HIDE DEF t
    <2>2. Heard(t, w, e.r)
      BY <1>0, <2>1 DEF Heard, Steady, EncFields
    <2> QED BY <1>0, <1>6, <2>2 DEF Goes, Heard
  <1>7. CASE e.k = "usage"
    <2>1. w = [t EXCEPT !.usage = TRUE]
      BY <1>7 DEF PushResponses, InTextItem, InThinkingItem, Starts, Fragments
    <2> HIDE DEF t
    <2>2. Goes(t, w)
      BY <1>0, <2>1 DEF Goes, Steady, EncFields
    <2> QED BY <1>0, <1>7, <2>2, GoesOn
  <1>8. CASE ~content /\ ~media /\ e.k \notin Starts \cup Fragments \cup {"end", "finish", "usage"}
    <2>1. w = t /\ e.k # "finish"
      BY <1>8 DEF PushResponses
    <2> QED BY <1>0, <2>1
  <1> HIDE DEF w, content, media
  <1>9. \/ content \/ media \/ e.k \in Starts \/ e.k \in Fragments \/ e.k = "end" \/ e.k = "finish" \/ e.k = "usage"
        \/ ~content /\ ~media /\ e.k \notin Starts \cup Fragments \cup {"end", "finish", "usage"}
    OBVIOUS
  <1> QED BY <1>1, <1>2, <1>3, <1>4, <1>5, <1>6, <1>7, <1>8, <1>9, Zenon

\* A held call becomes an item: added, its fragments, done.
LEMMA HeldItemGoes ==
  ASSUME NEW s, Steady(s), NEW held, NEW slot
  PROVE  Goes(s, HeldItem(s, held, slot))
  <1> DEFINE it == s.items[slot]
             opened == EmitTag(s, "start", slot, <<>>, it.id)
             filled == EmitSome(opened, "delta", slot, it.text)
             t == [filled EXCEPT !.items = Del(@, slot)]
  <1>1. HeldItem(s, held, slot) =
          IF slot \notin held \/ slot \notin DOMAIN s.items THEN s ELSE Emit(t, "item", slot, it.text)
    BY DEF HeldItem
  <1> HIDE DEF it
  <1>2. Goes(s, opened)
    BY Emits
  <1> HIDE DEF opened
  <1>3. Goes(s, filled)
    BY <1>2, EmitsOn
  <1> HIDE DEF filled
  <1>4. Goes(s, t)
    BY <1>3 DEF Goes, Steady, EncFields
  <1> HIDE DEF t
  <1>5. Goes(s, Emit(t, "item", slot, it.text))
    BY <1>4, EmitsOn
  <1> QED BY <1>1, <1>5, GoesNowhere

\* flush_responses_held, slot by slot: the equations of the recursive function.
LEMMA ResponsesHeldSteps ==
  ASSUME NEW s, s.nextBlock \in Nat
  PROVE  \E f : /\ f[0] = [s EXCEPT !.heldEnc = <<>>]
                /\ \A b \in 1..s.nextBlock : f[b] = HeldItem(f[b - 1], DOMAIN s.heldEnc, b - 1)
                /\ FlushResponsesHeld(s) = f[s.nextBlock]
  <1> DEFINE N == s.nextBlock
             first == [s EXCEPT !.heldEnc = <<>>]
             then(r, j) == HeldItem(r, DOMAIN s.heldEnc, j - 1)
             Is(f, m) == f = [b \in 0..m |-> IF b = 0 THEN first ELSE then(f[b - 1], b)]
             T == {m \in 0..N : \E f : Is(f, m)}
  <1>0. FlushResponsesHeld(s) = (CHOOSE f : Is(f, N))[N]
    BY DEF FlushResponsesHeld
  <1> HIDE DEF first, then
  <1>1. 0 \in T
    <2> DEFINE g == [b \in 0..0 |-> first]
    <2>1. Is(g, 0)
      OBVIOUS
    <2> HIDE DEF g, Is
    <2> QED BY <2>1
  <1>2. ASSUME NEW m \in 1..N, m - 1 \in T PROVE m \in T
    <2>1. PICK f : Is(f, m - 1)
      BY <1>2
    <2> DEFINE g == [b \in 0..m |-> IF b = m THEN then(f[m - 1], m) ELSE f[b]]
    <2>2. Is(g, m)
      BY <2>1
    <2> HIDE DEF g, Is
    <2> QED BY <2>2
  <1>3. N \in T
    <2>1. \A m \in 1..N : m - 1 \in T => m \in T
      BY <1>2
    <2>2. N \in Nat
      OBVIOUS
    <2> HIDE DEF T, N
    <2>3. \A m \in 0..N : m \in T
      BY <1>1, <2>1, <2>2, Induction, Zenon
    <2> QED BY <2>2, <2>3
  <1> DEFINE h == CHOOSE f : Is(f, N)
  <1>4. Is(h, N)
    BY <1>3
  <1>5. h[0] = first /\ \A b \in 1..N : h[b] = then(h[b - 1], b)
    <2>1. N \in Nat
      OBVIOUS
    <2> HIDE DEF h, N
    <2> QED BY <1>4, <2>1
  <1> HIDE DEF h
  <1> QED BY <1>0, <1>5 DEF h, first, then

\* All the held calls.
LEMMA ResponsesHeldGoes ==
  ASSUME NEW s, Steady(s)
  PROVE  Goes(s, FlushResponsesHeld(s))
  <1>1. s.nextBlock \in Nat
    BY DEF Steady
  <1>2. PICK f : /\ f[0] = [s EXCEPT !.heldEnc = <<>>]
                 /\ \A b \in 1..s.nextBlock : f[b] = HeldItem(f[b - 1], DOMAIN s.heldEnc, b - 1)
                 /\ FlushResponsesHeld(s) = f[s.nextBlock]
    BY <1>1, ResponsesHeldSteps
  <1> DEFINE N == s.nextBlock
             T == {k \in 0..N : Goes(s, f[k])}
  <1>3. 0 \in T
    <2>1. Goes(s, [s EXCEPT !.heldEnc = <<>>])
      BY DEF Goes, Steady, EncFields
    <2> QED BY <1>1, <1>2, <2>1
  <1>4. ASSUME NEW k \in 1..N, k - 1 \in T PROVE k \in T
    <2>1. Steady(f[k - 1])
      BY <1>4 DEF Goes
    <2>2. Goes(f[k - 1], HeldItem(f[k - 1], DOMAIN s.heldEnc, k - 1))
      BY <2>1, HeldItemGoes
    <2> QED BY <1>2, <1>4, <2>2, GoesOn
  <1>5. \A k \in 1..N : k - 1 \in T => k \in T
    BY <1>4
  <1>6. N \in T
    <2> HIDE DEF T
    <2>1. \A k \in 0..N : k \in T
      BY <1>1, <1>3, <1>5, Induction
    <2> QED BY <1>1, <2>1
  <1> QED BY <1>2, <1>6

\* finish_responses: its status never tells the client to run tools.
LEMMA FinishResponsesCloses ==
  ASSUME NEW s, Steady(s)
  PROVE  Closes(s, FinishResponses(s))
  <1> DEFINE c == CloseItem(s)
             t == FlushResponsesHeld(c)
  <1>1. FinishResponses(s) = EmitTag(t, "end", NoB, <<>>, ResponseStatus(s.finish))
    BY DEF FinishResponses
  <1>2. Goes(s, c)
    BY CloseItemGoes
  <1> HIDE DEF c
  <1>3. Goes(c, t)
    BY <1>2, ResponsesHeldGoes DEF Goes
  <1> HIDE DEF t
  <1>4. Nears(s, t)
    BY <1>2, <1>3, GoesOn, GoesNear
  <1>5. ResponseStatus(s.finish) \notin ToolTags
    BY DEF ResponseStatus, ToolTags
  <1> QED BY <1>1, <1>4, <1>5, NearsEnd
-----------------------------------------------------------------------------
(* Chat.                                                                   *)

\* One event on Chat, which holds nothing back but the reason.
LEMMA PushChatGoes ==
  ASSUME NEW s, Steady(s), NEW e
  PROVE  /\ e.k # "finish" => Goes(s, PushChat(s, e))
         /\ e.k = "finish" => Heard(s, PushChat(s, e), e.r)
  <1> DEFINE started == [s EXCEPT !.started = TRUE]
             t == IF s.started THEN s ELSE Emit(started, "head", NoB, <<>>)
             w == PushChat(s, e)
             a == AllocTool(t, e.i)
             r == ToolEnc(t, e.i)
             u == r.s
             c == [t EXCEPT !.sawCustom = TRUE]
  <1>0. Goes(s, t) /\ Steady(t)
    <2>1. Goes(s, started)
      BY DEF Goes, Steady, EncFields
    <2> HIDE DEF started
    <2>2. Goes(s, Emit(started, "head", NoB, <<>>))
      BY <2>1, EmitsOn
    <2>3. Goes(s, t)
      BY <2>2, GoesNowhere
    <2> QED BY <2>3 DEF Goes
  <1>c. Goes(s, c)
    <2> HIDE DEF t
    <2> QED BY <1>0 DEF Goes, Steady, EncFields
  <1>1. CASE e.k = "start"
    <2>1. w = EmitTag(a, "start", a.last[e.i], <<>>, e.id)
      BY <1>1 DEF PushChat, Content
    <2> HIDE DEF t
    <2>2. Goes(s, a)
      BY <1>0, AllocGoes, GoesOn
    <2> HIDE DEF a
    <2> QED BY <1>1, <2>1, <2>2, EmitsOn
  <1>2. CASE e.k = "args"
    <2>1. w = Emit(u, "delta", r.enc, <<e.n>>)
      BY <1>2 DEF PushChat, Content
    <2> HIDE DEF t
    <2>2. Goes(s, u)
      BY <1>0, ToolEncGoes, GoesOn
    <2> HIDE DEF u, r
    <2> QED BY <1>2, <2>1, <2>2, EmitsOn
  <1>3. CASE e.k = "cstart"
    <2>1. w = EmitTag(c, "start", e.i, <<>>, e.id)
      BY <1>3 DEF PushChat, Content
    <2> HIDE DEF c
    <2> QED BY <1>3, <1>c, <2>1, EmitsOn
  <1>4. CASE e.k = "cargs"
    <2>1. w = Emit(c, "delta", e.i, <<e.n>>)
      BY <1>4 DEF PushChat, Content
    <2> HIDE DEF c
    <2> QED BY <1>4, <1>c, <2>1, EmitsOn
  <1>5. CASE e.k = "finish"
    <2>1. w = [t EXCEPT !.finish = e.r]
      BY <1>5 DEF PushChat, Content
    <2> HIDE DEF t
    <2>2. Heard(t, w, e.r)
      BY <1>0, <2>1 DEF Heard, Steady, EncFields
    <2> QED BY <1>0, <1>5, <2>2 DEF Goes, Heard
  <1>6. CASE e.k = "usage"
    <2>1. w = [t EXCEPT !.usage = TRUE]
      BY <1>6 DEF PushChat, Content
    <2> HIDE DEF t
    <2>2. Goes(t, w)
      BY <1>0, <2>1 DEF Goes, Steady, EncFields
    <2> QED BY <1>0, <1>6, <2>2, GoesOn
  <1>7. CASE e.k = "end"
    <2>1. w = t
      BY <1>7 DEF PushChat, Content
    <2> QED BY <1>0, <1>7, <2>1
  <1>8. CASE e.k \in Content
    <2>1. w = Emit(t, "part", NoB, <<e.n>>) /\ e.k # "finish"
      BY <1>8 DEF PushChat, Content
    <2> HIDE DEF t
    <2> QED BY <1>0, <2>1, EmitsOn
  <1>9. CASE e.k \notin Content \cup {"start", "args", "cstart", "cargs", "finish", "usage", "end"}
    <2>1. w = Emit(t, "meta", NoB, <<>>) /\ e.k # "finish"
      BY <1>9 DEF PushChat
    <2> HIDE DEF t
    <2> QED BY <1>0, <2>1, EmitsOn
  <1> HIDE DEF w
  <1> QED BY <1>1, <1>2, <1>3, <1>4, <1>5, <1>6, <1>7, <1>8, <1>9

\* A Chat client is told to run its tools only for an ordinary reason.
LEMMA FinishAfterToolRuns ==
  ASSUME NEW r, NEW saw, FinishAfterTool(r, saw) \in ToolTags
  PROVE  r \in Ordinary
  <1>1. CASE saw /\ r \in {"stop", "end_turn"}
    BY <1>1 DEF Ordinary
  <1>2. CASE ~(saw /\ r \in {"stop", "end_turn"})
    <2>1. EncodeFinish(r) \in ToolTags
      BY <1>2 DEF FinishAfterTool
    <2> QED BY <2>1 DEF EncodeFinish, ToolTags, Ordinary
  <1> QED BY <1>1, <1>2

\* finish_chat: the finish chunk when there is a reason, usage, [DONE].
LEMMA FinishChatCloses ==
  ASSUME NEW s, Steady(s), s.wire = "chat"
  PROVE  Closes(s, FinishChat(s))
  <1> DEFINE saw == s.used # {} \/ s.sawCustom
             tag == FinishAfterTool(s.finish, saw)
             f == IF s.finish = Unset THEN s ELSE EmitTag(s, "final", NoB, <<>>, tag)
             u == IF s.usage THEN EmitTag(f, "usage", NoB, <<>>, "") ELSE f
  <1>1. FinishChat(s) = EmitTag(u, "end", NoB, <<>>, "")
    BY DEF FinishChat, Emit, EmitTag
  <1>2. tag \in ToolTags => Runs(s)
    BY FinishAfterToolRuns DEF Runs
  <1>3. Nears(s, s)
    BY GoesNowhere, GoesNear
  <1> HIDE DEF tag
  <1>4. Nears(s, EmitTag(s, "final", NoB, <<>>, tag))
    BY <1>2, <1>3, NearsEmit
  <1>5. Nears(s, f)
    BY <1>3, <1>4
  <1> HIDE DEF f
  <1>6. Nears(s, EmitTag(f, "usage", NoB, <<>>, ""))
    BY <1>5, NearsEmit
  <1>7. Nears(s, u)
    BY <1>5, <1>6
  <1> HIDE DEF u
  <1>8. "" \notin ToolTags
    BY DEF ToolTags
  <1> QED BY <1>1, <1>7, <1>8, NearsEnd
-----------------------------------------------------------------------------
(* Converse.                                                               *)

\* A media format without a Converse form fails the stream.
Broken(s, t) ==
  /\ Steady(t)
  /\ t.wire = s.wire /\ t.finished = s.finished /\ t.failed = TRUE /\ t.finish = s.finish

\* The open block stops.
LEMMA CloseConverseGoes ==
  ASSUME NEW s, Steady(s)
  PROVE  Goes(s, CloseConverse(s))
  <1> DEFINE b == s.open.b
             c == [s EXCEPT !.open = NoBlock, !.custom = Del(@, b)]
             some == EmitSome(c, "delta", b, CustomOf(s, b))
  <1>1. CloseConverse(s) = IF s.open = NoBlock THEN s ELSE Emit(some, "stop", b, <<>>)
    BY DEF CloseConverse
  <1>2. Goes(s, c)
    BY DEF Goes, Steady, EncFields
  <1> HIDE DEF c
  <1>3. Goes(s, some)
    BY <1>2, EmitsOn
  <1> HIDE DEF some
  <1>4. Goes(s, Emit(some, "stop", b, <<>>))
    BY <1>3, EmitsOn
  <1> QED BY <1>1, <1>4, GoesNowhere

\* A block of the kind is open, the one before it closed.
LEMMA EnsureConverseBlockGoes ==
  ASSUME NEW s, Steady(s), NEW kind
  PROVE  Goes(s, EnsureConverseBlock(s, kind))
  <1> DEFINE c == CloseConverse(s)
             t == [c EXCEPT !.nextBlock = @ + 1, !.open = [b |-> c.nextBlock, k |-> kind]]
  <1>1. EnsureConverseBlock(s, kind) = IF s.open.k = kind THEN s ELSE t
    BY DEF EnsureConverseBlock
  <1>2. Goes(s, c)
    BY CloseConverseGoes
  <1> HIDE DEF c
  <1>3. Goes(s, t)
    BY <1>2 DEF Goes, Steady, EncFields
  <1> QED BY <1>1, <1>3, GoesNowhere

\* Text and its like go to a block of their kind.
LEMMA ConverseContentGoes ==
  ASSUME NEW s, Steady(s), NEW e
  PROVE  Goes(s, ConverseContent(s, e))
  <1> DEFINE t == EnsureConverseBlock(s, IF e.k \in InConverseText THEN "text" ELSE "thinking")
             f == IF e.k \in {"signature", "annotation"} THEN "note" ELSE "delta"
  <1>1. ConverseContent(s, e) = Emit(t, f, t.open.b, <<e.n>>)
    BY DEF ConverseContent
  <1>2. f \notin {"end", "error", "final"}
    OBVIOUS
  <1>3. Goes(s, t)
    BY EnsureConverseBlockGoes
  <1> HIDE DEF t, f
  <1> QED BY <1>1, <1>2, <1>3, EmitsOn

\* A call opens a block, or is held behind the open one.
LEMMA ConverseToolStartGoes ==
  ASSUME NEW s, Steady(s), NEW e
  PROVE  Goes(s, ConverseToolStart(s, e))
  <1> DEFINE a == AllocTool(s, e.i)
             slot == a.last[e.i]
             t == NoteCustom(a, slot, e)
             held == [t EXCEPT !.heldEnc = Put(@, slot, [id |-> e.id, args |-> <<>>])]
             c == CloseConverse(t)
             u == [c EXCEPT !.open = [b |-> slot, k |-> "tool"]]
  <1>1. ConverseToolStart(s, e) = IF s.open.k = "tool" THEN held ELSE EmitTag(u, "start", slot, <<>>, e.id)
    BY DEF ConverseToolStart
  <1>2. Goes(s, a)
    BY AllocGoes
  <1> HIDE DEF a
  <1>3. Goes(a, t)
    BY <1>2, CustomGoes DEF Goes
  <1>4. Goes(s, t)
    BY <1>2, <1>3, GoesOn
  <1> HIDE DEF t
  <1>5. Goes(s, held)
    BY <1>4 DEF Goes, Steady, EncFields
  <1>6. Goes(t, c)
    BY <1>4, CloseConverseGoes DEF Goes
  <1> HIDE DEF c
  <1>7. Goes(t, u)
    BY <1>6 DEF Goes, Steady, EncFields
  <1>8. Goes(s, u)
    BY <1>4, <1>7, GoesOn
  <1> HIDE DEF u, held
  <1>9. Goes(s, EmitTag(u, "start", slot, <<>>, e.id))
    BY <1>8, EmitsOn
  <1> QED BY <1>1, <1>5, <1>9

\* A fragment goes to its block, or is kept with the held one.
LEMMA ConverseToolArgsGoes ==
  ASSUME NEW s, Steady(s), NEW e
  PROVE  Goes(s, ConverseToolArgs(s, e))
  <1> DEFINE r == ToolEnc(s, e.i)
             t == r.s
             slot == r.enc
             custom == IsCustom(e) \/ slot \in DOMAIN t.custom
             w == ConverseToolArgs(s, e)
  <1>0. Goes(s, t)
    BY ToolEncGoes
  <1>1. CASE custom
    <2>1. w = AddCustom(t, slot, e)
      BY <1>1 DEF ConverseToolArgs
    <2> HIDE DEF t
    <2>2. Goes(t, w)
      BY <1>0, <2>1, CustomGoes DEF Goes
    <2> QED BY <1>0, <2>2, GoesOn
  <1>2. CASE ~custom /\ slot \in DOMAIN t.heldEnc
    <2>1. w = [t EXCEPT !.heldEnc[slot].args = Append(@, e.n)]
      BY <1>2 DEF ConverseToolArgs
    <2> HIDE DEF t, slot
    <2>2. Goes(t, w)
      BY <1>0, <2>1 DEF Goes, Steady, EncFields
    <2> QED BY <1>0, <2>2, GoesOn
  <1>3. CASE ~custom /\ slot \notin DOMAIN t.heldEnc
    <2>1. w = Emit(t, "delta", slot, <<e.n>>)
      BY <1>3 DEF ConverseToolArgs
    <2> HIDE DEF t
    <2> QED BY <1>0, <2>1, EmitsOn
  <1> QED BY <1>1, <1>2, <1>3

\* Media are a block of their own, if the format has a Converse form.
LEMMA ConverseMediaGoes ==
  ASSUME NEW s, Steady(s), NEW e, NEW ok \in BOOLEAN
  PROVE  /\ ok => Goes(s, ConverseMedia(s, e, ok))
         /\ ~ok => Broken(s, ConverseMedia(s, e, ok))
  <1> DEFINE c == CloseConverse(s)
             b == c.nextBlock
             t == [c EXCEPT !.nextBlock = b + 1]
             u == Emit(t, "start", b, <<e.n>>)
             stopped == [s EXCEPT !.failed = TRUE]
  <1>1. /\ ok => ConverseMedia(s, e, ok) = Emit(u, "stop", b, <<>>)
        /\ ~ok => ConverseMedia(s, e, ok) = stopped
    BY DEF ConverseMedia
  <1>2. Goes(s, c)
    BY CloseConverseGoes
  <1> HIDE DEF c
  <1>3. Goes(s, t)
    BY <1>2 DEF Goes, Steady, EncFields
  <1> HIDE DEF t
  <1>4. Goes(s, u)
    BY <1>3, EmitsOn
  <1> HIDE DEF u
  <1>5. Goes(s, Emit(u, "stop", b, <<>>))
    BY <1>4, EmitsOn
  <1>6. Broken(s, stopped)
    BY DEF Broken, Steady, EncFields
  <1> HIDE DEF stopped
  <1> QED BY <1>1, <1>5, <1>6

\* One event: only media can fail, and a finish reason is remembered.
LEMMA PushConverseGoes ==
  ASSUME NEW s, Steady(s), NEW e, NEW ok \in BOOLEAN
  PROVE  /\ e.k # "finish" => Goes(s, PushConverse(s, e, ok)) \/ (e.k = "image" /\ ~ok /\ Broken(s, PushConverse(s, e, ok)))
         /\ e.k = "finish" => Heard(s, PushConverse(s, e, ok), e.r)
  <1> DEFINE w == PushConverse(s, e, ok)
             content == e.k \in InConverseText \cup {"reasoning", "signature"}
             media == e.k \in {"image", "audio"}
             fine == ok \/ e.k = "audio"
  <1>1. CASE content
    <2>1. w = ConverseContent(s, e) /\ e.k # "finish"
      BY <1>1 DEF PushConverse, InConverseText, ConverseIgnored, Starts, Fragments
    <2> QED BY <2>1, ConverseContentGoes
  <1>2. CASE e.k \in Starts
    <2>1. w = ConverseToolStart(s, e) /\ e.k # "finish"
      BY <1>2 DEF PushConverse, InConverseText, ConverseIgnored, Starts, Fragments
    <2> QED BY <2>1, ConverseToolStartGoes
  <1>3. CASE e.k \in Fragments
    <2>1. w = ConverseToolArgs(s, e) /\ e.k # "finish"
      BY <1>3 DEF PushConverse, InConverseText, ConverseIgnored, Starts, Fragments
    <2> QED BY <2>1, ConverseToolArgsGoes
  <1>4. CASE e.k = "end"
    <2>1. w = CloseConverse(s)
      BY <1>4 DEF PushConverse, InConverseText, ConverseIgnored, Starts, Fragments
    <2> QED BY <1>4, <2>1, CloseConverseGoes
  <1>5. CASE media
    <2>1. w = ConverseMedia(s, e, fine) /\ e.k # "finish"
      BY <1>5 DEF PushConverse, InConverseText, ConverseIgnored, Starts, Fragments
    <2>2. fine \in BOOLEAN /\ (~fine => e.k = "image" /\ ~ok)
      BY <1>5
    <2> HIDE DEF fine, w
    <2> QED BY <2>1, <2>2, ConverseMediaGoes DEF w
  <1>6. CASE e.k = "finish"
    <2>1. w = [s EXCEPT !.finish = e.r]
      BY <1>6 DEF PushConverse, InConverseText, ConverseIgnored, Starts, Fragments
    <2>2. Heard(s, w, e.r)
      BY <2>1 DEF Heard, Steady, EncFields
    <2> QED BY <1>6, <2>2
  <1>7. CASE e.k = "usage"
    <2>1. w = Emit(s, "usage", NoB, <<>>)
      BY <1>7 DEF PushConverse, InConverseText, ConverseIgnored, Starts, Fragments
    <2> QED BY <1>7, <2>1, Emits
  <1>8. CASE e.k \in ConverseIgnored
    <2>1. w = s /\ e.k # "finish"
      BY <1>8 DEF PushConverse, InConverseText, ConverseIgnored, Starts, Fragments
    <2> QED BY <2>1, GoesNowhere
  <1>9. CASE ~content /\ ~media /\ e.k \notin Starts \cup Fragments \cup ConverseIgnored \cup {"end", "finish", "usage"}
    <2>1. w = Emit(s, "part", NoB, <<e.n>>) /\ e.k # "finish"
      BY <1>9 DEF PushConverse
    <2> QED BY <2>1, Emits
  <1> HIDE DEF w, content, media
  <1>10. \/ content \/ media \/ e.k \in Starts \/ e.k \in Fragments \/ e.k = "end" \/ e.k = "finish" \/ e.k = "usage"
         \/ e.k \in ConverseIgnored
         \/ ~content /\ ~media /\ e.k \notin Starts \cup Fragments \cup ConverseIgnored \cup {"end", "finish", "usage"}
    OBVIOUS
  <1> QED BY <1>1, <1>2, <1>3, <1>4, <1>5, <1>6, <1>7, <1>8, <1>9, <1>10, Zenon

\* A held call becomes a block: start, fragments, stop.
LEMMA HeldConverseGoes ==
  ASSUME NEW s, Steady(s), NEW held, NEW slot
  PROVE  Goes(s, HeldConverse(s, held, slot))
  <1> DEFINE n == IF CustomOf(s, slot) # <<>> THEN CustomOf(s, slot) ELSE held[slot].args
             opened == EmitTag(s, "start", slot, <<>>, held[slot].id)
             some == EmitSome(opened, "delta", slot, n)
             t == [some EXCEPT !.custom = Del(@, slot)]
  <1>1. HeldConverse(s, held, slot) = IF slot \notin DOMAIN held THEN s ELSE Emit(t, "stop", slot, <<>>)
    BY DEF HeldConverse
  <1> HIDE DEF n
  <1>2. Goes(s, opened)
    BY Emits
  <1> HIDE DEF opened
  <1>3. Goes(s, some)
    BY <1>2, EmitsOn
  <1> HIDE DEF some
  <1>4. Goes(s, t)
    BY <1>3 DEF Goes, Steady, EncFields
  <1> HIDE DEF t
  <1>5. Goes(s, Emit(t, "stop", slot, <<>>))
    BY <1>4, EmitsOn
  <1> QED BY <1>1, <1>5, GoesNowhere

\* flush_converse_held, slot by slot: the equations of the recursive function.
LEMMA ConverseHeldSteps ==
  ASSUME NEW s, s.nextBlock \in Nat
  PROVE  \E f : /\ f[0] = [s EXCEPT !.heldEnc = <<>>]
                /\ \A b \in 1..s.nextBlock : f[b] = HeldConverse(f[b - 1], s.heldEnc, b - 1)
                /\ FlushConverseHeld(s) = f[s.nextBlock]
  <1> DEFINE N == s.nextBlock
             first == [s EXCEPT !.heldEnc = <<>>]
             then(r, j) == HeldConverse(r, s.heldEnc, j - 1)
             Is(f, m) == f = [b \in 0..m |-> IF b = 0 THEN first ELSE then(f[b - 1], b)]
             T == {m \in 0..N : \E f : Is(f, m)}
  <1>0. FlushConverseHeld(s) = (CHOOSE f : Is(f, N))[N]
    BY DEF FlushConverseHeld
  <1> HIDE DEF first, then
  <1>1. 0 \in T
    <2> DEFINE g == [b \in 0..0 |-> first]
    <2>1. Is(g, 0)
      OBVIOUS
    <2> HIDE DEF g, Is
    <2> QED BY <2>1
  <1>2. ASSUME NEW m \in 1..N, m - 1 \in T PROVE m \in T
    <2>1. PICK f : Is(f, m - 1)
      BY <1>2
    <2> DEFINE g == [b \in 0..m |-> IF b = m THEN then(f[m - 1], m) ELSE f[b]]
    <2>2. Is(g, m)
      BY <2>1
    <2> HIDE DEF g, Is
    <2> QED BY <2>2
  <1>3. N \in T
    <2>1. \A m \in 1..N : m - 1 \in T => m \in T
      BY <1>2
    <2>2. N \in Nat
      OBVIOUS
    <2> HIDE DEF T, N
    <2>3. \A m \in 0..N : m \in T
      BY <1>1, <2>1, <2>2, Induction, Zenon
    <2> QED BY <2>2, <2>3
  <1> DEFINE h == CHOOSE f : Is(f, N)
  <1>4. Is(h, N)
    BY <1>3
  <1>5. h[0] = first /\ \A b \in 1..N : h[b] = then(h[b - 1], b)
    <2>1. N \in Nat
      OBVIOUS
    <2> HIDE DEF h, N
    <2> QED BY <1>4, <2>1
  <1> HIDE DEF h
  <1> QED BY <1>0, <1>5 DEF h, first, then

\* All the held calls.
LEMMA ConverseHeldGoes ==
  ASSUME NEW s, Steady(s)
  PROVE  Goes(s, FlushConverseHeld(s))
  <1>1. s.nextBlock \in Nat
    BY DEF Steady
  <1>2. PICK f : /\ f[0] = [s EXCEPT !.heldEnc = <<>>]
                 /\ \A b \in 1..s.nextBlock : f[b] = HeldConverse(f[b - 1], s.heldEnc, b - 1)
                 /\ FlushConverseHeld(s) = f[s.nextBlock]
    BY <1>1, ConverseHeldSteps
  <1> DEFINE N == s.nextBlock
             T == {k \in 0..N : Goes(s, f[k])}
  <1>3. 0 \in T
    <2>1. Goes(s, [s EXCEPT !.heldEnc = <<>>])
      BY DEF Goes, Steady, EncFields
    <2> QED BY <1>1, <1>2, <2>1
  <1>4. ASSUME NEW k \in 1..N, k - 1 \in T PROVE k \in T
    <2>1. Steady(f[k - 1])
      BY <1>4 DEF Goes
    <2>2. Goes(f[k - 1], HeldConverse(f[k - 1], s.heldEnc, k - 1))
      BY <2>1, HeldConverseGoes
    <2> QED BY <1>2, <1>4, <2>2, GoesOn
  <1>5. \A k \in 1..N : k - 1 \in T => k \in T
    BY <1>4
  <1>6. N \in T
    <2> HIDE DEF T
    <2>1. \A k \in 0..N : k \in T
      BY <1>1, <1>3, <1>5, Induction
    <2> QED BY <1>1, <2>1
  <1> QED BY <1>2, <1>6

\* finish_converse: messageStop with the reason, or a plain stop.
LEMMA FinishConverseCloses ==
  ASSUME NEW s, Steady(s), s.wire # "gemini"
  PROVE  Closes(s, FinishConverse(s))
  <1> DEFINE c == CloseConverse(s)
             t == FlushConverseHeld(c)
  <1>1. FinishConverse(s) = EmitTag(t, "end", NoB, <<>>, ConverseStop(s.finish))
    BY DEF FinishConverse
  <1>2. Goes(s, c)
    BY CloseConverseGoes
  <1> HIDE DEF c
  <1>3. Goes(c, t)
    BY <1>2, ConverseHeldGoes DEF Goes
  <1> HIDE DEF t
  <1>4. Nears(s, t)
    BY <1>2, <1>3, GoesOn, GoesNear
  <1>5. ConverseStop(s.finish) \in ToolTags => Runs(s)
    BY DEF ConverseStop, ToolTags, Runs, Ordinary
  <1> QED BY <1>1, <1>4, <1>5, NearsEnd
-----------------------------------------------------------------------------
(* Gemini.                                                                 *)

\* A reason a Gemini client understands; none of them runs a tool.
LEMMA FinalGoes ==
  ASSUME NEW s, NEW t, Goes(s, t), NEW tag, tag \notin ToolTags
  PROVE  Goes(s, EmitTag(t, "final", NoB, <<>>, tag))
  <1> DEFINE x == Frame("final", NoB, <<>>, tag)
             q == Append(t.out, x)
             u == [t EXCEPT !.out = q]
  <1>1. Inner(x, FALSE)
    BY DEF Inner, Frame
  <1>2. EmitTag(t, "final", NoB, <<>>, tag) = u
    BY DEF EmitTag
  <1> HIDE DEF x
  <1>3. Before(q, FALSE)
    BY <1>1, BeforeAppend DEF Goes, Steady, Sound
  <1> HIDE DEF q
  <1>4. Goes(s, u)
    BY <1>3 DEF Goes, Steady, EncFields, Sound
  <1> QED BY <1>2, <1>4

\* A whole call is one frame; an unnamed one is not sent.
LEMMA CallFrameGoes ==
  ASSUME NEW s, NEW t, Goes(s, t), NEW c
  PROVE  Goes(s, CallFrame(t, c))
  <1>1. Goes(s, EmitTag(t, "call", NoB, c.args, c.id))
    BY EmitsOn
  <1> QED BY <1>1 DEF CallFrame

\* hold_gemini_start.
LEMMA HoldStartGoes ==
  ASSUME NEW s, Steady(s), NEW e
  PROVE  Goes(s, HoldStart(s, e))
  <1> DEFINE prev == s.calls[e.i]
             fresh == [id |-> e.id, name |-> e.name, args |-> <<>>]
             t == [s EXCEPT !.calls = Put(@, e.i, fresh)]
             u == [s EXCEPT !.calls[e.i].id = e.id, !.calls[e.i].name = e.name]
  <1>1. HoldStart(s, e) \in {t, u, CallFrame(t, prev)}
    BY DEF HoldStart
  <1>2. Goes(s, t)
    BY DEF Goes, Steady, EncFields
  <1>3. Goes(s, u)
    BY DEF Goes, Steady, EncFields
  <1> HIDE DEF t, u, prev
  <1>4. Goes(s, CallFrame(t, prev))
    BY <1>2, CallFrameGoes
  <1> QED BY <1>1, <1>2, <1>3, <1>4

\* append_gemini_args.
LEMMA AppendArgsGoes ==
  ASSUME NEW s, Steady(s), NEW e
  PROVE  Goes(s, AppendArgs(s, e))
  <1> DEFINE t == [s EXCEPT !.calls[e.i].args = Append(@, e.n)]
             u == [s EXCEPT !.calls = Put(@, e.i, [id |-> NoId, name |-> FALSE, args |-> <<e.n>>])]
  <1>1. AppendArgs(s, e) \in {t, u}
    BY DEF AppendArgs
  <1>2. Goes(s, t)
    BY DEF Goes, Steady, EncFields
  <1>3. Goes(s, u)
    BY DEF Goes, Steady, EncFields
  <1> HIDE DEF t, u
  <1> QED BY <1>1, <1>2, <1>3

\* The call of one index, if there is one.
LEMMA HeldCallGoes ==
  ASSUME NEW s, Steady(s), NEW calls, NEW i
  PROVE  Goes(s, HeldCall(s, calls, i))
  <1>1. Goes(s, s)
    BY GoesNowhere
  <1>2. Goes(s, CallFrame(s, calls[i]))
    BY <1>1, CallFrameGoes
  <1> QED BY <1>1, <1>2 DEF HeldCall

\* flush_gemini_calls, index by index: the equations of the recursive function.
LEMMA FlushCallsSteps ==
  ASSUME NEW s
  PROVE  \E f : /\ f[0] = [s EXCEPT !.calls = <<>>, !.later = <<>>]
                /\ \A i \in 1..MaxIndex : f[i] = HeldCall(f[i - 1], s.calls, i - 1)
                /\ FlushCalls(s) = [f[MaxIndex] EXCEPT !.out = @ \o s.later]
  <1> DEFINE N == MaxIndex
             first == [s EXCEPT !.calls = <<>>, !.later = <<>>]
             then(r, j) == HeldCall(r, s.calls, j - 1)
             Is(f, m) == f = [i \in 0..m |-> IF i = 0 THEN first ELSE then(f[i - 1], i)]
             T == {m \in 0..N : \E f : Is(f, m)}
  <1>0. FlushCalls(s) = [(CHOOSE f : Is(f, N))[N] EXCEPT !.out = @ \o s.later]
    BY DEF FlushCalls
  <1> HIDE DEF first, then
  <1>1. 0 \in T
    <2> DEFINE g == [i \in 0..0 |-> first]
    <2>1. Is(g, 0)
      OBVIOUS
    <2> HIDE DEF g, Is
    <2> QED BY <2>1, MaxIndexAssumption
  <1>2. ASSUME NEW m \in 1..N, m - 1 \in T PROVE m \in T
    <2>1. PICK f : Is(f, m - 1)
      BY <1>2
    <2> DEFINE g == [i \in 0..m |-> IF i = m THEN then(f[m - 1], m) ELSE f[i]]
    <2>2. Is(g, m)
      BY <2>1
    <2> HIDE DEF g, Is
    <2> QED BY <2>2
  <1>3. N \in T
    <2>1. \A m \in 1..N : m - 1 \in T => m \in T
      BY <1>2
    <2>2. N \in Nat
      BY MaxIndexAssumption
    <2> HIDE DEF T, N
    <2>3. \A m \in 0..N : m \in T
      BY <1>1, <2>1, <2>2, Induction, Zenon
    <2> QED BY <2>2, <2>3
  <1> DEFINE h == CHOOSE f : Is(f, N)
  <1>4. Is(h, N)
    BY <1>3
  <1>5. h[0] = first /\ \A i \in 1..N : h[i] = then(h[i - 1], i)
    <2>1. N \in Nat
      BY MaxIndexAssumption
    <2> HIDE DEF h, N
    <2> QED BY <1>4, <2>1
  <1> HIDE DEF h
  <1> QED BY <1>0, <1>5 DEF h, first, then

\* flush_gemini_calls: the calls, then what waited behind them.
LEMMA FlushCallsGoes ==
  ASSUME NEW s, Steady(s)
  PROVE  Goes(s, FlushCalls(s))
  <1>1. MaxIndex \in Nat
    BY MaxIndexAssumption
  <1> DEFINE first == [s EXCEPT !.calls = <<>>, !.later = <<>>]
  <1>2. PICK f : /\ f[0] = first
                 /\ \A i \in 1..MaxIndex : f[i] = HeldCall(f[i - 1], s.calls, i - 1)
                 /\ FlushCalls(s) = [f[MaxIndex] EXCEPT !.out = @ \o s.later]
    BY FlushCallsSteps
  <1> DEFINE N == MaxIndex
             T == {k \in 0..N : Goes(s, f[k])}
             c == f[N]
             q == c.out \o s.later
             t == [c EXCEPT !.out = q]
  <1>3. 0 \in T
    <2>1. Before(<<>>, FALSE)
      BY BeforeNothing
    <2>2. Goes(s, first)
      BY <2>1 DEF Goes, Steady, EncFields, Sound
    <2> HIDE DEF first
    <2> QED BY <1>1, <1>2, <2>2
  <1> HIDE DEF first
  <1>4. ASSUME NEW k \in 1..N, k - 1 \in T PROVE k \in T
    <2>1. Steady(f[k - 1])
      BY <1>4 DEF Goes
    <2>2. Goes(f[k - 1], HeldCall(f[k - 1], s.calls, k - 1))
      BY <2>1, HeldCallGoes
    <2> QED BY <1>2, <1>4, <2>2, GoesOn
  <1>5. \A k \in 1..N : k - 1 \in T => k \in T
    BY <1>4
  <1>6. Goes(s, c)
    <2> HIDE DEF T
    <2>1. \A k \in 0..N : k \in T
      BY <1>1, <1>3, <1>5, Induction
    <2>2. N \in T
      BY <1>1, <2>1
    <2> QED BY <2>2 DEF T
  <1>7. FlushCalls(s) = t
    BY <1>2
  <1> HIDE DEF c
  <1>8. Before(q, FALSE)
    BY <1>6, BeforeConcat DEF Goes, Steady, Sound
  <1> HIDE DEF q
  <1>9. Goes(s, t)
    BY <1>6, <1>8 DEF Goes, Steady, EncFields, Sound
  <1> QED BY <1>7, <1>9

\* A Gemini client hears the reason at once; the encoder does not keep it.
LEMMA PushGeminiGoes ==
  ASSUME NEW s, Steady(s), NEW e
  PROVE  Goes(s, PushGemini(s, e))
  <1> DEFINE w == PushGemini(s, e)
             fl == FlushCalls(s)
  <1>1. CASE e.k \in Starts
    <2>1. w = HoldStart(s, e)
      BY <1>1 DEF PushGemini, Starts, Fragments
    <2> QED BY <2>1, HoldStartGoes
  <1>2. CASE e.k \in Fragments
    <2>1. w = AppendArgs(s, e)
      BY <1>2 DEF PushGemini, Starts, Fragments
    <2> QED BY <2>1, AppendArgsGoes
  <1>3. CASE e.k = "end"
    <2>1. w = fl
      BY <1>3 DEF PushGemini, Starts, Fragments
    <2> QED BY <2>1, FlushCallsGoes
  <1>4. CASE e.k = "finish"
    <2> DEFINE tag == GeminiFinish(e.r)
    <2>1. w = EmitTag(fl, "final", NoB, <<>>, tag)
      BY <1>4 DEF PushGemini, Starts, Fragments
    <2>2. Goes(s, fl)
      BY FlushCallsGoes
    <2>3. tag \notin ToolTags
      BY DEF GeminiFinish, ToolTags
    <2> HIDE DEF tag, fl
    <2> QED BY <2>1, <2>2, <2>3, FinalGoes
  <1>5. CASE e.k \notin Starts \cup Fragments \cup {"end", "finish"}
    <2> DEFINE g == IF e.k = "usage" THEN "usage" ELSE "meta"
               f == IF e.k \in Content THEN Frame("part", NoB, <<e.n>>, "")
                    ELSE Frame(g, NoB, <<>>, "")
               a == Append(s.out, f)
               b == Append(s.later, f)
               t == [s EXCEPT !.out = a]
               u == [s EXCEPT !.later = b]
    <2>1. w \in {t, u}
      BY <1>5 DEF PushGemini
    <2>2. Inner(f, FALSE)
      BY DEF Inner, Frame
    <2> HIDE DEF f
    <2>3. Before(a, FALSE) /\ Before(b, FALSE)
      BY <2>2, BeforeAppend DEF Steady, Sound
    <2> HIDE DEF a, b
    <2>4. Goes(s, t)
      BY <2>3 DEF Goes, Steady, EncFields, Sound
    <2>5. Goes(s, u)
      BY <2>3 DEF Goes, Steady, EncFields, Sound
    <2> HIDE DEF t, u
    <2> QED BY <2>1, <2>4, <2>5
  <1> HIDE DEF w
  <1>6. \/ e.k \in Starts \/ e.k \in Fragments \/ e.k = "end" \/ e.k = "finish"
        \/ e.k \notin Starts \cup Fragments \cup {"end", "finish"}
    OBVIOUS
  <1> QED BY <1>1, <1>2, <1>3, <1>4, <1>5, <1>6, Zenon

\* finish_gemini: the calls still open, then the end.
LEMMA FinishGeminiCloses ==
  ASSUME NEW s, Steady(s)
  PROVE  Closes(s, FinishGemini(s))
  <1> DEFINE fl == FlushCalls(s)
  <1>1. FinishGemini(s) = EmitTag(fl, "end", NoB, <<>>, "")
    BY DEF FinishGemini, Emit, EmitTag
  <1>2. Nears(s, fl)
    BY FlushCallsGoes, GoesNear
  <1>3. "" \notin ToolTags
    BY DEF ToolTags
  <1> HIDE DEF fl
  <1> QED BY <1>1, <1>2, <1>3, NearsEnd
-----------------------------------------------------------------------------
(* The dispatch, and the events of one step.                               *)

\* An encoder that may still put out frames.
Streaming(s) == Steady(s) /\ s.finished = FALSE /\ s.failed = FALSE
Marked(s) == [s EXCEPT !.finished = TRUE]

\* finish, on every wire.
LEMMA FinishCloses ==
  ASSUME NEW s, Streaming(s)
  PROVE  Closes(Marked(s), Finish(s))
  <1> DEFINE t == Marked(s)
             w == Finish(s)
  <1>1. Steady(t) /\ t.wire = s.wire
    BY DEF Streaming, Steady, EncFields, Marked
  <1>2. w = CASE t.wire = "messages" -> FinishMessages(t)
              [] t.wire = "responses" -> FinishResponses(t)
              [] t.wire = "chat" -> FinishChat(t)
              [] t.wire = "gemini" -> FinishGemini(t)
              [] OTHER -> FinishConverse(t)
    BY DEF Finish, Streaming, Marked
  <1> HIDE DEF t, w
  <1>3. CASE t.wire = "messages"
    BY <1>1, <1>2, <1>3, FinishMessagesCloses DEF t, w
  <1>4. CASE t.wire = "responses"
    BY <1>1, <1>2, <1>4, FinishResponsesCloses DEF t, w
  <1>5. CASE t.wire = "chat"
    BY <1>1, <1>2, <1>5, FinishChatCloses DEF t, w
  <1>6. CASE t.wire = "gemini"
    BY <1>1, <1>2, <1>6, FinishGeminiCloses DEF t, w
  <1>7. CASE t.wire \notin {"messages", "responses", "chat", "gemini"}
    BY <1>1, <1>2, <1>7, FinishConverseCloses DEF t, w
  <1> QED BY <1>3, <1>4, <1>5, <1>6, <1>7

\* What one event may do to an encoder that is still streaming.
Pushed(s, e, ok, t) ==
  /\ e.k \notin {"finish", "done"} => Goes(s, t) \/ (~ok /\ Broken(s, t))
  /\ e.k = "finish" => IF s.wire = "gemini" THEN Goes(s, t) ELSE Heard(s, t, e.r)
  /\ e.k = "done" => Closes(Marked(s), t)

\* push, on every wire.
LEMMA EncPushGoes ==
  ASSUME NEW s, Streaming(s), NEW e, NEW ok \in BOOLEAN
  PROVE  Pushed(s, e, ok, EncPush(s, e, ok))
  <1> DEFINE w == EncPush(s, e, ok)
             none == e.k \in MessagesOnly /\ s.wire # "messages"
             plain == e.k \notin {"unknown", "done"} /\ ~none
  <1>0. Steady(s)
    BY DEF Streaming
  <1>1. CASE e.k = "unknown"
    <2>1. w = Emit(s, "meta", NoB, <<>>)
      BY <1>1 DEF EncPush, Streaming, MessagesOnly
    <2> QED BY <1>0, <1>1, <2>1, Emits DEF Pushed
  <1>2. CASE e.k = "done"
    <2>1. w = Finish(s)
      BY <1>2 DEF EncPush, Streaming, MessagesOnly
    <2> QED BY <1>2, <2>1, FinishCloses DEF Pushed
  <1>3. CASE none
    <2>1. w = s /\ e.k \notin {"finish", "done"}
      BY <1>3 DEF EncPush, Streaming, MessagesOnly
    <2> QED BY <1>0, <2>1, GoesNowhere DEF Pushed
  <1>4. CASE plain
    <2>1. w = CASE s.wire = "messages" -> PushMessages(s, e)
                [] s.wire = "responses" -> PushResponses(s, e)
                [] s.wire = "chat" -> PushChat(s, e)
                [] s.wire = "gemini" -> PushGemini(s, e)
                [] OTHER -> PushConverse(s, e, ok)
      BY <1>4 DEF EncPush, Streaming
    <2>2. e.k # "done"
      BY <1>4
    <2> HIDE DEF w
    <2>3. CASE s.wire = "messages"
      BY <1>0, <2>1, <2>2, <2>3, PushMessagesGoes DEF Pushed, w
    <2>4. CASE s.wire = "responses"
      BY <1>0, <2>1, <2>2, <2>4, PushResponsesGoes DEF Pushed, w
    <2>5. CASE s.wire = "chat"
      BY <1>0, <2>1, <2>2, <2>5, PushChatGoes DEF Pushed, w
    <2>6. CASE s.wire = "gemini"
      BY <1>0, <2>1, <2>2, <2>6, PushGeminiGoes DEF Pushed, w
    <2>7. CASE s.wire \notin {"messages", "responses", "chat", "gemini"}
      BY <1>0, <2>1, <2>2, <2>7, PushConverseGoes DEF Pushed, w
    <2> QED BY <2>3, <2>4, <2>5, <2>6, <2>7
  <1> HIDE DEF w
  <1>5. e.k = "unknown" \/ e.k = "done" \/ none \/ plain
    OBVIOUS
  <1> HIDE DEF none, plain
  <1> QED BY <1>1, <1>2, <1>3, <1>4, <1>5

\* The slot filter does not change that.
LEMMA FeedEventGoes ==
  ASSUME NEW s, Streaming(s), NEW e, NEW ok \in BOOLEAN
  PROVE  Pushed(s, e, ok, FeedEvent(s, e, ok))
  <1>1. CASE HasSlot(from, e)
    <2>1. FeedEvent(s, e, ok) = EncPush(s, e, ok)
      BY <1>1 DEF FeedEvent
    <2> QED BY <2>1, EncPushGoes
  <1>2. CASE ~HasSlot(from, e)
    <2>1. FeedEvent(s, e, ok) = s /\ e.k = "unknown"
      BY <1>2 DEF FeedEvent, HasSlot
    <2>2. Goes(s, s)
      BY GoesNowhere DEF Streaming
    <2> QED BY <2>1, <2>2 DEF Pushed
  <1> QED BY <1>1, <1>2

\* Feed, event by event: the equations of the recursive function.
Fed(f, s, evs, ok) ==
  /\ f[0] = s
  /\ \A k \in 1..Len(evs) : f[k] = FeedEvent(f[k - 1], evs[k], ok)
  /\ Feed(s, evs, ok) = f[Len(evs)]

\* There is such a function, and Feed is its last value.
LEMMA FeedSteps ==
  ASSUME NEW s, NEW evs, Len(evs) \in Nat, NEW ok
  PROVE  \E f : Fed(f, s, evs, ok)
  <1> DEFINE N == Len(evs)
             first == s
             then(r, j) == FeedEvent(r, evs[j], ok)
             Is(f, m) == f = [k \in 0..m |-> IF k = 0 THEN first ELSE then(f[k - 1], k)]
             T == {m \in 0..N : \E f : Is(f, m)}
  <1>0. Feed(s, evs, ok) = (CHOOSE f : Is(f, N))[N]
    BY DEF Feed
  <1> HIDE DEF first, then
  <1>1. 0 \in T
    <2> DEFINE g == [k \in 0..0 |-> first]
    <2>1. Is(g, 0)
      OBVIOUS
    <2> HIDE DEF g, Is
    <2> QED BY <2>1
  <1>2. ASSUME NEW m \in 1..N, m - 1 \in T PROVE m \in T
    <2>1. PICK f : Is(f, m - 1)
      BY <1>2
    <2> DEFINE g == [k \in 0..m |-> IF k = m THEN then(f[m - 1], m) ELSE f[k]]
    <2>2. Is(g, m)
      BY <2>1
    <2> HIDE DEF g, Is
    <2> QED BY <2>2
  <1>3. N \in T
    <2>1. \A m \in 1..N : m - 1 \in T => m \in T
      BY <1>2
    <2>2. N \in Nat
      OBVIOUS
    <2> HIDE DEF T, N
    <2>3. \A m \in 0..N : m \in T
      BY <1>1, <2>1, <2>2, Induction, Zenon
    <2> QED BY <2>2, <2>3
  <1> DEFINE h == CHOOSE f : Is(f, N)
  <1>4. Is(h, N)
    BY <1>3
  <1>5. h[0] = first /\ \A k \in 1..N : h[k] = then(h[k - 1], k)
    <2>1. N \in Nat
      OBVIOUS
    <2> HIDE DEF h, N
    <2> QED BY <1>4, <2>1
  <1> HIDE DEF h
  <1>6. Fed(h, s, evs, ok)
    BY <1>0, <1>5 DEF h, first, then, Fed
  <1> QED BY <1>6

\* An encoder that has finished takes nothing more.
LEMMA FeedNothing ==
  ASSUME NEW s, s.finished = TRUE, NEW evs, Len(evs) \in Nat, NEW ok \in BOOLEAN
  PROVE  Feed(s, evs, ok) = s
  <1> DEFINE N == Len(evs)
  <1>s. PICK f : Fed(f, s, evs, ok)
    BY FeedSteps
  <1>1. f[0] = s /\ (\A k \in 1..N : f[k] = FeedEvent(f[k - 1], evs[k], ok)) /\ Feed(s, evs, ok) = f[N]
    BY <1>s DEF Fed
  <1> DEFINE T == {k \in 0..N : f[k] = s}
  <1>2. 0 \in T
    BY <1>1
  <1>3. ASSUME NEW k \in 1..N, k - 1 \in T PROVE k \in T
    <2>1. \A e : FeedEvent(s, e, ok) = s
      BY DEF FeedEvent, EncPush
    <2> QED BY <1>1, <1>3, <2>1
  <1>4. \A k \in 1..N : k - 1 \in T => k \in T
    BY <1>3
  <1>5. N \in Nat
    OBVIOUS
  <1>6. N \in T
    <2> HIDE DEF T, N
    <2>1. \A k \in 0..N : k \in T
      BY <1>2, <1>4, <1>5, Induction, Zenon
    <2> QED BY <1>5, <2>1
  <1> QED BY <1>1, <1>6

\* An event of a function call.
CallEvent(e) == e.k \in {"start", "args"}

\* The events of calls, in any number, are put out or kept.
LEMMA FeedCalls ==
  ASSUME NEW s, Streaming(s), NEW evs, Len(evs) \in Nat, \A k \in 1..Len(evs) : CallEvent(evs[k])
  PROVE  Goes(s, Feed(s, evs, TRUE))
  <1> DEFINE N == Len(evs)
  <1>s. PICK f : Fed(f, s, evs, TRUE)
    BY FeedSteps
  <1>1. f[0] = s /\ (\A k \in 1..N : f[k] = FeedEvent(f[k - 1], evs[k], TRUE)) /\ Feed(s, evs, TRUE) = f[N]
    BY <1>s DEF Fed
  <1> DEFINE T == {k \in 0..N : Goes(s, f[k])}
  <1>2. 0 \in T
    <2>1. Goes(s, s)
      BY GoesNowhere DEF Streaming
    <2> QED BY <1>1, <2>1
  <1>3. ASSUME NEW k \in 1..N, k - 1 \in T PROVE k \in T
    <2>1. Streaming(f[k - 1])
      BY <1>3 DEF Goes, Streaming
    <2>2. Pushed(f[k - 1], evs[k], TRUE, f[k])
      BY <1>1, <2>1, FeedEventGoes
    <2>3. Goes(f[k - 1], f[k])
      BY <2>2 DEF Pushed, CallEvent
    <2> QED BY <1>3, <2>3, GoesOn
  <1>4. \A k \in 1..N : k - 1 \in T => k \in T
    BY <1>3
  <1>5. N \in Nat
    OBVIOUS
  <1>6. N \in T
    <2> HIDE DEF T, N
    <2>1. \A k \in 0..N : k \in T
      BY <1>2, <1>4, <1>5, Induction, Zenon
    <2> QED BY <1>5, <2>1
  <1> QED BY <1>1, <1>6

\* One event more.
LEMMA FeedLast ==
  ASSUME NEW s, NEW S, NEW evs \in Seq(S), NEW e, NEW ok
  PROVE  Feed(s, Append(evs, e), ok) = FeedEvent(Feed(s, evs, ok), e, ok)
  <1> DEFINE N == Len(evs)
             longer == Append(evs, e)
  <1>0. N \in Nat /\ Len(longer) = N + 1 /\ longer[N + 1] = e /\ \A k \in 1..N : longer[k] = evs[k]
    OBVIOUS
  <1>n. Len(evs) \in Nat
    BY <1>0
  <1>s. PICK f : Fed(f, s, evs, ok)
    BY <1>n, FeedSteps
  <1>1. f[0] = s /\ (\A k \in 1..N : f[k] = FeedEvent(f[k - 1], evs[k], ok)) /\ Feed(s, evs, ok) = f[N]
    BY <1>s DEF Fed
  <1> HIDE DEF longer
  <1>l. Len(longer) \in Nat
    BY <1>0
  <1>t. PICK g : Fed(g, s, longer, ok)
    BY <1>l, FeedSteps
  <1>2. /\ g[0] = s
        /\ \A k \in 1..(N + 1) : g[k] = FeedEvent(g[k - 1], longer[k], ok)
        /\ Feed(s, longer, ok) = g[N + 1]
    BY <1>0, <1>t DEF Fed
  <1> HIDE DEF N
  <1> DEFINE T == {k \in 0..N : f[k] = g[k]}
  <1>3. 0 \in T
    BY <1>0, <1>1, <1>2
  <1>4. ASSUME NEW k \in 1..N, k - 1 \in T PROVE k \in T
    <2>1. k \in 0..N /\ k \in 1..(N + 1) /\ f[k - 1] = g[k - 1]
      BY <1>0, <1>4
    <2>2. f[k] = FeedEvent(f[k - 1], evs[k], ok) /\ g[k] = FeedEvent(g[k - 1], longer[k], ok) /\ longer[k] = evs[k]
      BY <1>0, <1>1, <1>2, <2>1
    <2> QED BY <2>1, <2>2
  <1>5. \A k \in 1..N : k - 1 \in T => k \in T
    BY <1>4
  <1>6. f[N] = g[N]
    <2> HIDE DEF T
    <2>1. \A k \in 0..N : k \in T
      BY <1>0, <1>3, <1>5, Induction, Zenon
    <2>2. N \in T
      BY <1>0, <2>1
    <2> QED BY <2>2 DEF T
  <1>7. g[N + 1] = FeedEvent(g[N], e, ok)
    BY <1>0, <1>2
  <1> QED BY <1>1, <1>2, <1>6, <1>7 DEF longer

\* One event alone.
LEMMA FeedOne ==
  ASSUME NEW s, NEW e, NEW ok
  PROVE  Feed(s, <<e>>, ok) = FeedEvent(s, e, ok)
  <1> DEFINE none == <<>>
  <1>1. none \in Seq({e}) /\ Len(none) = 0 /\ <<e>> = Append(none, e)
    OBVIOUS
  <1> HIDE DEF none
  <1>n. Len(none) \in Nat
    BY <1>1
  <1>f. PICK f : Fed(f, s, none, ok)
    BY <1>n, FeedSteps
  <1>2. Feed(s, none, ok) = s
    BY <1>1, <1>f DEF Fed
  <1>3. Feed(s, Append(none, e), ok) = FeedEvent(Feed(s, none, ok), e, ok)
    BY <1>1, FeedLast
  <1> QED BY <1>1, <1>2, <1>3
-----------------------------------------------------------------------------
(* What the assembler lets out.                                            *)

\* A sequence of whatever; and one of a call's events.
IsArgs(q) == \E S : q \in Seq(S)
CallSeq(q) == \E S : q \in Seq(S) /\ \A e \in S : CallEvent(e)

\* Every entry holds a sequence of fragments.
Gathered(a) == \A i \in Index : IsArgs(a.pending[i].args)

\* No events, and no fragments.
LEMMA NoCallEvents == CallSeq(<<>>) /\ IsArgs(<<>>)
  <1> DEFINE S == {}
             q == <<>>
  <1>1. q \in Seq(S) /\ \A e \in S : CallEvent(e)
    OBVIOUS
  <1> HIDE DEF S, q
  <1>2. CallSeq(q) /\ IsArgs(q)
    BY <1>1 DEF CallSeq, IsArgs
  <1> QED BY <1>2 DEF q

\* A call's events behind a call's events.
LEMMA CallSeqConcat ==
  ASSUME NEW p, NEW q, CallSeq(p), CallSeq(q)
  PROVE  CallSeq(p \o q)
  <1>1. PICK S : p \in Seq(S) /\ \A e \in S : CallEvent(e)
    BY DEF CallSeq
  <1>2. PICK T : q \in Seq(T) /\ \A e \in T : CallEvent(e)
    BY DEF CallSeq
  <1> DEFINE U == S \cup T
  <1>3. p \in Seq(U) /\ q \in Seq(U)
    BY <1>1, <1>2
  <1>4. p \o q \in Seq(U) /\ \A e \in U : CallEvent(e)
    BY <1>1, <1>2, <1>3
  <1> QED BY <1>4 DEF CallSeq

\* An entry lets out its start, if it has an id or a name, and its fragments.
LEMMA IntoEventsCalls ==
  ASSUME NEW i, NEW p, IsArgs(p.args)
  PROVE  CallSeq(IntoEvents(i, p))
  <1> DEFINE st == StartEv("start", i, 0, p.id, p.name)
             head == IF Named(p) THEN <<st>> ELSE <<>>
             n == Len(p.args)
             tail == [j \in 1..n |-> ArgsEv("args", i, p.args[j])]
             S == {st} \cup {tail[j] : j \in 1..n}
  <1>1. IntoEvents(i, p) = head \o tail
    BY DEF IntoEvents
  <1>2. n \in Nat
    BY DEF IsArgs
  <1>3. \A e \in S : CallEvent(e)
    <2>1. CallEvent(st)
      BY DEF CallEvent, StartEv, Event
    <2>2. \A j \in 1..n : CallEvent(tail[j])
      BY DEF CallEvent, ArgsEv, Event
    <2> HIDE DEF st, tail
    <2> QED BY <2>1, <2>2
  <1>4. head \in Seq(S)
    <2>1. st \in S
      OBVIOUS
    <2> HIDE DEF S, st
    <2> QED BY <2>1
  <1>5. tail \in Seq(S)
    <2>1. \A j \in 1..n : tail[j] \in S
      <3> HIDE DEF st, tail
      <3> QED OBVIOUS
    <2>2. tail = [j \in 1..n |-> tail[j]]
      OBVIOUS
    <2> HIDE DEF S, tail, n
    <2> QED BY <1>2, <2>1, <2>2
  <1> HIDE DEF head, tail, S
  <1>6. head \o tail \in Seq(S)
    BY <1>4, <1>5
  <1> QED BY <1>1, <1>3, <1>6 DEF CallSeq

\* Sequences of a call's events, put together.
LEMMA FlattenCalls ==
  ASSUME NEW q, Len(q) \in Nat \ {0}, \A k \in 1..Len(q) : CallSeq(q[k])
  PROVE  CallSeq(FlattenSeq(q))
  <1> DEFINE N == Len(q)
             part(j) == q[j]
             join(r, j) == r \o q[j]
             Is(f, m) == f = [i \in 1..m |-> IF i = 1 THEN part(i) ELSE join(f[i - 1], i)]
             T == {m \in 0..N : \E f : Is(f, m)}
  <1>0. FlattenSeq(q) = (CHOOSE f : Is(f, N))[N]
    BY DEF FlattenSeq
  <1>n. N \in Nat /\ N # 0
    OBVIOUS
  <1>p. \A k \in 1..N : CallSeq(part(k))
    OBVIOUS
  <1>j. \A r, k : CallSeq(r) /\ k \in 1..N => CallSeq(join(r, k))
    BY CallSeqConcat
  <1> HIDE DEF part, join
  <1>1. 0 \in T
    <2> DEFINE g == [i \in 1..0 |-> part(i)]
    <2>1. Is(g, 0)
      OBVIOUS
    <2> HIDE DEF g, Is
    <2> QED BY <1>n, <2>1
  <1>2. ASSUME NEW m \in 1..N, m - 1 \in T PROVE m \in T
    <2>1. PICK f : Is(f, m - 1)
      BY <1>2
    <2> DEFINE g == [i \in 1..m |-> IF i = 1 THEN part(1) ELSE IF i = m THEN join(f[m - 1], m) ELSE f[i]]
    <2>2. Is(g, m)
      <3> HIDE DEF N
      <3> QED BY <1>n, <2>1
    <2> HIDE DEF g, Is
    <2> QED BY <2>2
  <1>3. N \in T
    <2>1. \A m \in 1..N : m - 1 \in T => m \in T
      BY <1>2
    <2> HIDE DEF T, N
    <2>2. \A m \in 0..N : m \in T
      BY <1>1, <1>n, <2>1, Induction, Zenon
    <2> QED BY <1>n, <2>2
  <1> DEFINE h == CHOOSE f : Is(f, N)
  <1>4. Is(h, N)
    BY <1>3
  <1>5. h[1] = part(1) /\ \A i \in 2..N : h[i] = join(h[i - 1], i)
    <2> HIDE DEF h, N
    <2> QED BY <1>4, <1>n
  <1> HIDE DEF h
  <1> DEFINE U == {k \in 0..N : k # 0 => CallSeq(h[k])}
  <1>6. 0 \in U
    BY <1>n
  <1>7. ASSUME NEW k \in 1..N, k - 1 \in U PROVE k \in U
    <2> HIDE DEF N
    <2>1. CASE k = 1
      BY <1>5, <1>n, <1>p, <2>1
    <2>2. CASE k # 1
      <3>1. h[k] = join(h[k - 1], k) /\ CallSeq(h[k - 1])
        BY <1>5, <1>7, <1>n, <2>2
      <3>2. CallSeq(h[k])
        BY <1>j, <3>1
      <3> QED BY <3>2
    <2> QED BY <2>1, <2>2
  <1>8. \A k \in 1..N : k - 1 \in U => k \in U
    BY <1>7
  <1>9. CallSeq(h[N])
    <2> HIDE DEF U, N
    <2>1. \A k \in 0..N : k \in U
      BY <1>6, <1>8, <1>n, Induction, Zenon
    <2>2. N \in U
      BY <1>n, <2>1
    <2> QED BY <1>n, <2>2 DEF U
  <1> QED BY <1>0, <1>9 DEF h

\* flush lets out a call's events only.
LEMMA FlushOut ==
  ASSUME NEW a, Gathered(a)
  PROVE  CallSeq(AsmFlush(a).out)
  <1> DEFINE out == [k \in 1..MaxIndex |->
                       IF k - 1 \in {i \in Index : a.pending[i].held}
                         THEN IntoEvents(k - 1, a.pending[k - 1]) ELSE <<>>]
  <1>1. AsmFlush(a).out = FlattenSeq(out)
    BY DEF AsmFlush, Step
  <1>2. MaxIndex \in Nat \ {0}
    BY MaxIndexAssumption
  <1>3. Len(out) = MaxIndex
    BY <1>2
  <1>4. ASSUME NEW k \in 1..MaxIndex PROVE CallSeq(out[k])
    <2>1. k - 1 \in Index
      BY <1>2 DEF Index
    <2>2. CallSeq(IntoEvents(k - 1, a.pending[k - 1]))
      BY <2>1, IntoEventsCalls DEF Gathered
    <2> QED BY <2>2, NoCallEvents
  <1> HIDE DEF out
  <1>5. Len(out) \in Nat \ {0} /\ \A k \in 1..Len(out) : CallSeq(out[k])
    BY <1>2, <1>3, <1>4
  <1> QED BY <1>1, <1>5, FlattenCalls

\* push: a call's events, then at most the event itself.
LEMMA PushOut ==
  ASSUME NEW a, Gathered(a), NEW e, e.k \in Starts \cup Fragments => e.i \in Index
  PROVE  \/ e.k \in {"start", "args"} /\ CallSeq(AsmPush(a, e).out)
         \/ e.k \in {"finish", "done"} /\ \E q : CallSeq(q) /\ AsmPush(a, e).out = Append(q, e)
         \/ e.k \notin {"start", "args", "finish", "done"} /\ AsmPush(a, e).out = <<e>>
  <1>1. CASE e.k = "start"
    <2> DEFINE prev == a.pending[e.i]
               p == [held |-> TRUE,
                     id   |-> IF e.id = NoId THEN prev.id ELSE e.id,
                     name |-> e.name \/ prev.name,
                     args |-> prev.args]
    <2>1. AsmPush(a, e).out \in {<<>>, IntoEvents(e.i, p)}
      BY <1>1 DEF AsmPush, PushStart, Step
    <2>2. e.i \in Index /\ IsArgs(p.args)
      BY <1>1 DEF Starts, Gathered
    <2> HIDE DEF p
    <2>3. CallSeq(IntoEvents(e.i, p))
      BY <2>2, IntoEventsCalls
    <2> QED BY <1>1, <2>1, <2>3, NoCallEvents
  <1>2. CASE e.k = "args"
    <2>1. AsmPush(a, e).out \in {<<>>, <<e>>}
      BY <1>2 DEF AsmPush, PushArgs, Step
    <2>2. CallSeq(<<e>>)
      <3> DEFINE S == {e}
                 q == <<e>>
      <3>1. q \in Seq(S) /\ \A x \in S : CallEvent(x)
        BY <1>2 DEF CallEvent
      <3> HIDE DEF S, q
      <3>2. CallSeq(q)
        BY <3>1 DEF CallSeq
      <3> QED BY <3>2 DEF q
    <2> QED BY <1>2, <2>1, <2>2, NoCallEvents
  <1>3. CASE e.k \in {"finish", "done"}
    <2>1. AsmPush(a, e).out = Append(AsmFlush(a).out, e)
      BY <1>3 DEF AsmPush, Step
    <2> QED BY <1>3, <2>1, FlushOut
  <1>4. CASE e.k \notin {"start", "args", "finish", "done"}
    <2>1. AsmPush(a, e).out = <<e>>
      BY <1>4 DEF AsmPush, Step
    <2> QED BY <1>4, <2>1
  <1> QED BY <1>1, <1>2, <1>3, <1>4

\* The entries keep holding sequences.
LEMMA PushGathers ==
  ASSUME NEW a, AsmTypeOK(a), Gathered(a), NEW e, e.k \in Starts \cup Fragments => e.i \in Index
  PROVE  Gathered(AsmPush(a, e).asm)
  <1> DEFINE b == AsmPush(a, e).asm
  <1> SUFFICES ASSUME NEW i \in Index PROVE IsArgs(b.pending[i].args)
    BY DEF Gathered
  <1>0. /\ a = [pending |-> a.pending, started |-> a.started]
        /\ a.pending = [j \in Index |-> a.pending[j]]
        /\ a.pending[i] = [f \in {"held", "id", "name", "args"} |-> a.pending[i][f]]
        /\ IsArgs(a.pending[i].args)
    BY DEF AsmTypeOK, IsPending, Gathered
  <1>1. CASE e.k = "start"
    <2>1. e.i \in Index
      BY <1>1 DEF Starts
    <2>2. b.pending[i].args \in {a.pending[i].args, <<>>}
      BY <1>0, <1>1, <2>1 DEF AsmPush, PushStart, Step, NoPending
    <2> QED BY <1>0, <2>2, NoCallEvents
  <1>2. CASE e.k = "args"
    <2>1. e.i \in Index
      BY <1>2 DEF Fragments
    <2>2. b.pending[i].args \in {a.pending[i].args, Append(a.pending[i].args, e.n)}
      BY <1>0, <1>2, <2>1 DEF AsmPush, PushArgs, Step
    <2>3. IsArgs(Append(a.pending[i].args, e.n))
      <3> DEFINE q == a.pending[i].args
      <3>1. PICK S : q \in Seq(S)
        BY <1>0 DEF IsArgs
      <3> DEFINE T == S \cup {e.n}
      <3>2. q \in Seq(T)
        BY <3>1
      <3>3. Append(q, e.n) \in Seq(T)
        BY <3>2
      <3> QED BY <3>3 DEF IsArgs
    <2> QED BY <1>0, <2>2, <2>3
  <1>3. CASE e.k \in {"finish", "done"}
    <2>1. b.pending = [j \in Index |-> NoPending]
      BY <1>3 DEF AsmPush, AsmFlush, Step
    <2> QED BY <2>1, NoCallEvents DEF NoPending
  <1>4. CASE e.k \notin {"start", "args", "finish", "done"}
    <2>1. b = a
      BY <1>4 DEF AsmPush, Step
    <2> QED BY <1>0, <2>1
  <1> QED BY <1>1, <1>2, <1>3, <1>4
-----------------------------------------------------------------------------
(* The stream.                                                             *)

\* An encoder that has put out its end frame.
Over(s) == /\ EncFields \subseteq DOMAIN s
           /\ s.finished = TRUE /\ s.failed = FALSE
           /\ Closed(s.out, Runs(s))

\* An error frame last, and before it an end frame only if one was due.
Stopped(s, due) ==
  \E p, x : /\ s.out = Append(p, x) /\ x.f = "error"
            /\ Before(p, Runs(s)) \/ (Closed(p, Runs(s)) /\ due)

\* A finish event gives one of the reasons, and the encoder remembers it.
Told ==
  \A f \in Seen({"finish"}) : /\ sent[f].r \in Reasons
                              /\ enc.wire # "gemini" => sent[f].r = enc.finish

\* A stream that is not over is streaming or has seen the upstream's end marker;
\* one that is over ended with the end frame or with an error.
EncInv ==
  /\ IsArgs(sent)
  /\ Gathered(asm)
  /\ Told
  /\ terminal \in BOOLEAN
  /\ phase # "done" => Streaming(enc) \/ (Over(enc) /\ terminal /\ Seen({"done"}) # {})
  /\ phase = "done" => (Over(enc) /\ terminal) \/ Stopped(enc, terminal)

\* A finish event gives one of the reasons.
LEMMA ReasonsKnown ==
  ASSUME NEW e \in NextEvents, WithId(e).k = "finish"
  PROVE  WithId(e).r \in Reasons
  <1> DEFINE n == Len(sent) + 1
  <1>1. \/ \E k \in Kinds \ (Starts \cup Fragments \cup {"finish"}) : e = Plain(k, n)
        \/ \E r \in Reasons : e = FinishEv(r, n)
        \/ \E k \in Fragments, i \in Index : e = ArgsEv(k, i, n)
        \/ \E k \in Starts, i \in Index, id \in {NoId, "id"}, name \in BOOLEAN :
             e = StartEv(k, i, n, id, name)
    BY DEF NextEvents
  <1>2. CASE \E k \in Kinds \ (Starts \cup Fragments \cup {"finish"}) : e = Plain(k, n)
    <2> PICK k \in Kinds \ (Starts \cup Fragments \cup {"finish"}) : e = Plain(k, n)
      BY <1>2
    <2>1. WithId(e).k = k
      BY DEF Plain, Event, WithId
    <2> QED BY <2>1
  <1>3. CASE \E r \in Reasons : e = FinishEv(r, n)
    <2> PICK r \in Reasons : e = FinishEv(r, n)
      BY <1>3
    <2> QED BY DEF FinishEv, Event, WithId
  <1>4. CASE \E k \in Fragments, i \in Index : e = ArgsEv(k, i, n)
    <2> PICK k \in Fragments, i \in Index : e = ArgsEv(k, i, n)
      BY <1>4
    <2>1. WithId(e).k = k
      BY DEF ArgsEv, Event, WithId
    <2> QED BY <2>1 DEF Fragments
  <1>5. CASE \E k \in Starts, i \in Index, id \in {NoId, "id"}, name \in BOOLEAN :
               e = StartEv(k, i, n, id, name)
    <2> PICK k \in Starts, i \in Index, id \in {NoId, "id"}, name \in BOOLEAN :
               e = StartEv(k, i, n, id, name)
      BY <1>5
    <2>1. WithId(e).k = k
      BY DEF StartEv, Event, WithId
    <2> QED BY <2>1 DEF Starts
  <1> QED BY <1>1, <1>2, <1>3, <1>4, <1>5

\* One event more in the history.
LEMMA SentMore ==
  ASSUME NEW q, IsArgs(q), NEW w
  PROVE  /\ IsArgs(Append(q, w))
         /\ DOMAIN Append(q, w) = DOMAIN q \cup {Len(q) + 1}
         /\ Len(q) + 1 \notin DOMAIN q
         /\ Append(q, w)[Len(q) + 1] = w
         /\ \A j \in DOMAIN q : Append(q, w)[j] = q[j]
  <1>1. PICK S : q \in Seq(S)
    BY DEF IsArgs
  <1> DEFINE T == S \cup {w}
  <1>2. q \in Seq(T) /\ w \in T
    BY <1>1
  <1>3. Append(q, w) \in Seq(T)
    BY <1>2
  <1>4. IsArgs(Append(q, w))
    BY <1>3 DEF IsArgs
  <1> QED BY <1>2, <1>4

\* What an encoder is after the events of one step.
Outcome(s, e, t) ==
  \/ Goes(s, t) /\ e.k # "done" /\ (e.k = "finish" => s.wire = "gemini")
  \/ Heard(s, t, e.r) /\ e.k = "finish"
  \/ Over(t) /\ t.wire = s.wire /\ t.finish = s.finish /\ e.k = "done"
  \/ Broken(s, t) /\ e.k \notin {"finish", "done"}

\* The end frame is out once finish has run.
LEMMA ClosesOver ==
  ASSUME NEW s, Streaming(s), NEW t, Closes(Marked(s), t)
  PROVE  Over(t) /\ t.wire = s.wire /\ t.finish = s.finish
  <1>1. /\ Marked(s).wire = s.wire /\ Marked(s).finish = s.finish
        /\ Marked(s).finished = TRUE /\ Marked(s).failed = FALSE
    BY DEF Marked, Streaming, Steady, EncFields
  <1>2. Runs(Marked(s)) = Runs(t)
    BY <1>1 DEF Closes, Runs
  <1> QED BY <1>1, <1>2 DEF Closes, Over

\* One upstream event, whatever the assembler makes of it.
LEMMA StepOutcome ==
  ASSUME NEW s, Streaming(s), NEW a, Gathered(a), NEW e, NEW ok \in BOOLEAN,
         e.k # "image" => ok = TRUE,
         e.k \in Starts \cup Fragments => e.i \in Index
  PROVE  Outcome(s, e, Feed(s, AsmPush(a, e).out, ok))
  <1> DEFINE out == AsmPush(a, e).out
             t == Feed(s, out, ok)
  <1>0. \/ e.k \in {"start", "args"} /\ CallSeq(out)
        \/ e.k \in {"finish", "done"} /\ \E q : CallSeq(q) /\ out = Append(q, e)
        \/ e.k \notin {"start", "args", "finish", "done"} /\ out = <<e>>
    BY PushOut
  <1>c. ASSUME NEW q, CallSeq(q)
        PROVE  Goes(s, Feed(s, q, TRUE)) /\ IsArgs(q)
    <2>1. PICK S : q \in Seq(S) /\ \A x \in S : CallEvent(x)
      BY <1>c DEF CallSeq
    <2>2. Len(q) \in Nat /\ \A k \in 1..Len(q) : CallEvent(q[k])
      BY <2>1
    <2>3. Goes(s, Feed(s, q, TRUE))
      BY <2>2, FeedCalls
    <2> QED BY <2>1, <2>3 DEF IsArgs
  <1> HIDE DEF out
  <1>1. CASE e.k \in {"start", "args"} /\ CallSeq(out)
    <2>1. ok = TRUE
      BY <1>1
    <2>2. Goes(s, t)
      BY <1>1, <1>c, <2>1
    <2> QED BY <1>1, <2>2 DEF Outcome, out
  <1>2. CASE e.k \in {"finish", "done"} /\ \E q : CallSeq(q) /\ out = Append(q, e)
    <2>1. ok = TRUE
      BY <1>2
    <2>2. PICK q : CallSeq(q) /\ out = Append(q, e)
      BY <1>2
    <2> DEFINE u == Feed(s, q, TRUE)
    <2>3. Goes(s, u) /\ IsArgs(q)
      BY <1>c, <2>2
    <2>4. PICK S : q \in Seq(S)
      BY <2>3 DEF IsArgs
    <2>5. Feed(s, Append(q, e), TRUE) = FeedEvent(u, e, TRUE)
      BY <2>4, FeedLast
    <2>6. t = FeedEvent(u, e, TRUE)
      BY <2>1, <2>2, <2>5
    <2> HIDE DEF u
    <2>7. Streaming(u) /\ u.wire = s.wire /\ u.finish = s.finish
      BY <2>3 DEF Goes, Streaming
    <2>8. Pushed(u, e, TRUE, t)
      BY <2>6, <2>7, FeedEventGoes
    <2> HIDE DEF t
    <2>9. CASE e.k = "finish" /\ s.wire = "gemini"
      <3>1. Goes(u, t)
        BY <2>7, <2>8, <2>9 DEF Pushed
      <3>2. Goes(s, t)
        BY <2>3, <3>1, GoesOn
      <3> QED BY <2>9, <3>2 DEF Outcome, t, out
    <2>10. CASE e.k = "finish" /\ s.wire # "gemini"
      <3>1. Heard(u, t, e.r)
        BY <2>7, <2>8, <2>10 DEF Pushed
      <3>2. Heard(s, t, e.r)
        BY <2>3, <3>1 DEF Heard, Goes
      <3> QED BY <2>10, <3>2 DEF Outcome, t, out
    <2>11. CASE e.k = "done"
      <3>1. Closes(Marked(u), t)
        BY <2>8, <2>11 DEF Pushed
      <3>2. Over(t) /\ t.wire = s.wire /\ t.finish = s.finish
        BY <2>7, <3>1, ClosesOver
      <3> QED BY <2>11, <3>2 DEF Outcome, t, out
    <2> QED BY <1>2, <2>9, <2>10, <2>11
  <1>3. CASE e.k \notin {"start", "args", "finish", "done"} /\ out = <<e>>
    <2>1. t = FeedEvent(s, e, ok)
      BY <1>3, FeedOne
    <2>2. Pushed(s, e, ok, t)
      BY <2>1, FeedEventGoes
    <2> HIDE DEF t
    <2>3. Goes(s, t) \/ Broken(s, t)
      BY <1>3, <2>2 DEF Pushed
    <2> QED BY <1>3, <2>3 DEF Outcome, t, out
  <1> QED BY <1>0, <1>1, <1>2, <1>3

\* An error frame behind what is out.
LEMMA FailStops ==
  ASSUME NEW s, EncFields \subseteq DOMAIN s, NEW due,
         Before(s.out, Runs(s)) \/ (Closed(s.out, Runs(s)) /\ due)
  PROVE  Stopped(Fail(s), due) /\ Fail(s).wire = s.wire /\ Fail(s).finish = s.finish
  <1> DEFINE x == Frame("error", NoB, <<>>, "")
             t == Fail(s)
  <1>1. t = [s EXCEPT !.out = Append(s.out, x)]
    BY DEF Fail, Emit
  <1>2. x.f = "error"
    BY DEF Frame
  <1> HIDE DEF x, t
  <1>3. t.out = Append(s.out, x) /\ t.wire = s.wire /\ t.finish = s.finish
    BY <1>1 DEF EncFields
  <1>4. Runs(t) = Runs(s)
    BY <1>3 DEF Runs
  <1>5. Stopped(t, due)
    BY <1>2, <1>3, <1>4 DEF Stopped
  <1> QED BY <1>3, <1>5 DEF t

\* An encoder that has not put out its end frame has put out nothing like it.
LEMMA StreamingBefore ==
  ASSUME NEW s, Steady(s)
  PROVE  EncFields \subseteq DOMAIN s /\ Before(s.out, Runs(s))
  <1>1. Nears(s, s)
    BY GoesNowhere, GoesNear
  <1> QED BY <1>1 DEF Nears

\* The history grows by one event: which finish and end events there are.
LEMMA SeenMore ==
  ASSUME IsArgs(sent), NEW w, sent' = Append(sent, w), NEW k
  PROVE  /\ IsArgs(sent)'
         /\ \A j \in Seen({k}) : j \in Seen({k})' /\ sent'[j] = sent[j]
         /\ \A j \in Seen({k})' : j \notin Seen({k}) => sent'[j] = w /\ w.k = k
         /\ w.k = k => Seen({k})' # {}
  <1>1. /\ IsArgs(Append(sent, w))
        /\ DOMAIN Append(sent, w) = DOMAIN sent \cup {Len(sent) + 1}
        /\ Len(sent) + 1 \notin DOMAIN sent
        /\ Append(sent, w)[Len(sent) + 1] = w
        /\ \A j \in DOMAIN sent : Append(sent, w)[j] = sent[j]
    BY SentMore
  <1> DEFINE m == Len(sent) + 1
  <1>2. /\ DOMAIN (sent') = DOMAIN sent \cup {m} /\ m \notin DOMAIN sent
        /\ sent'[m] = w /\ \A j \in DOMAIN sent : sent'[j] = sent[j]
    BY <1>1
  <1>3. IsArgs(sent)'
    BY <1>1
  <1>4. /\ Seen({k}) = {j \in DOMAIN sent : sent[j].k = k}
        /\ Seen({k})' = {j \in DOMAIN (sent') : sent'[j].k = k}
    BY DEF Seen
  <1> HIDE DEF m
  <1> QED BY <1>2, <1>3, <1>4

\* push_frames for one event.
LEMMA UpstreamKeeps ==
  ASSUME AsmInv, EncInv, NEW e \in NextEvents, Upstream(WithId(e))
  PROVE  EncInv'
  <1> DEFINE w == WithId(e)
             out == AsmPush(asm, w).out
  <1>0. /\ w.k \in Starts \cup Fragments => w.i \in Index
        /\ w.k = "finish" => w.r \in Reasons
    BY EventTypes, ReasonsKnown
  <1>u. /\ phase = "open" /\ VendorMay(w) /\ sent' = Append(sent, w)
        /\ terminal' = (terminal \/ IsTerminal(w))
        /\ asm' = AsmPush(asm, w).asm
        /\ \E ok \in IF w.k = "image" /\ from = "converse" THEN BOOLEAN ELSE {TRUE} :
             /\ enc' = IF Feed(enc, out, ok).failed THEN Fail(Feed(enc, out, ok)) ELSE Feed(enc, out, ok)
             /\ phase' = IF Feed(enc, out, ok).failed THEN "done" ELSE "open"
    BY DEF Upstream, Settle
  <1> HIDE DEF w
  <1>1. PICK ok \in BOOLEAN :
             /\ w.k # "image" => ok = TRUE
             /\ enc' = IF Feed(enc, out, ok).failed THEN Fail(Feed(enc, out, ok)) ELSE Feed(enc, out, ok)
             /\ phase' = IF Feed(enc, out, ok).failed THEN "done" ELSE "open"
    <2>1. CASE w.k = "image" /\ from = "converse"
      BY <1>u, <2>1
    <2>2. CASE ~(w.k = "image" /\ from = "converse")
      BY <1>u, <2>2
    <2> QED BY <2>1, <2>2
  <1> DEFINE s == Feed(enc, out, ok)
  <1>2. /\ enc' = IF s.failed THEN Fail(s) ELSE s
        /\ phase' = IF s.failed THEN "done" ELSE "open"
    BY <1>1
  <1>3. IsArgs(sent)' /\ Gathered(asm)' /\ terminal' \in BOOLEAN
    <2>1. IsArgs(sent) /\ Gathered(asm) /\ AsmTypeOK(asm)
      BY DEF EncInv, AsmInv
    <2>2. IsArgs(sent)'
      BY <1>u, <2>1, SeenMore
    <2>3. Gathered(AsmPush(asm, w).asm)
      BY <1>0, <2>1, PushGathers
    <2>4. Gathered(asm)'
      BY <1>u, <2>3 DEF Gathered
    <2>5. terminal' \in BOOLEAN
      BY <1>u
    <2> QED BY <2>2, <2>4, <2>5
  <1>f. /\ \A j \in Seen({"finish"}) : j \in Seen({"finish"})' /\ sent'[j] = sent[j]
        /\ \A j \in Seen({"finish"})' : j \notin Seen({"finish"}) => sent'[j] = w /\ w.k = "finish"
    BY <1>u, SeenMore DEF EncInv
  <1>d. /\ Seen({"done"}) # {} => Seen({"done"})' # {}
        /\ w.k = "done" => Seen({"done"})' # {}
    BY <1>u, SeenMore DEF EncInv
  <1>m. /\ w.k = "finish" => Seen({"finish"}) = {} /\ Seen({"done"}) = {}
        /\ w.k = "done" => terminal'
        /\ terminal => terminal'
    BY <1>u DEF VendorMay, IsTerminal
  \* The reason: none of the events but a finish changes what the encoder remembers.
  <1>t. ASSUME enc'.wire = enc.wire,
               w.k # "finish" => enc'.finish = enc.finish,
               w.k = "finish" /\ enc.wire # "gemini" => enc'.finish = w.r
        PROVE  Told'
    <2> SUFFICES ASSUME NEW f \in Seen({"finish"})'
                 PROVE  sent'[f].r \in Reasons /\ (enc'.wire # "gemini" => sent'[f].r = enc'.finish)
      BY DEF Told
    <2>1. CASE f \in Seen({"finish"})
      <3>1. w.k # "finish" /\ sent'[f] = sent[f]
        BY <1>f, <1>m, <2>1
      <3> QED BY <1>t, <2>1, <3>1 DEF EncInv, Told
    <2>2. CASE f \notin Seen({"finish"})
      <3>1. sent'[f] = w /\ w.k = "finish"
        BY <1>f, <2>2
      <3> QED BY <1>0, <1>t, <3>1
    <2> QED BY <2>1, <2>2
  <1>4. CASE Over(enc) /\ terminal /\ Seen({"done"}) # {}
    <2>1. Len(out) \in Nat
      <3>1. \/ CallSeq(out)
            \/ \E q : CallSeq(q) /\ out = Append(q, w)
            \/ out = <<w>>
        BY <1>0, PushOut DEF EncInv
      <3>2. ASSUME NEW q, CallSeq(q) PROVE Len(q) \in Nat /\ Len(Append(q, w)) \in Nat
        <4>1. PICK S : q \in Seq(S)
          BY <3>2 DEF CallSeq
        <4>2. Len(q) \in Nat /\ Len(Append(q, w)) = Len(q) + 1
          BY <4>1
        <4> QED BY <4>2
      <3>3. Len(<<w>>) \in Nat
        OBVIOUS
      <3> HIDE DEF out
      <3> QED BY <3>1, <3>2, <3>3
    <2> HIDE DEF out
    <2>2. s = enc
      BY <1>4, <2>1, FeedNothing DEF Over
    <2>3. enc' = enc /\ phase' = "open"
      BY <1>2, <1>4, <2>2 DEF Over
    <2>4. w.k # "finish" /\ terminal' /\ Seen({"done"})' # {}
      BY <1>4, <1>d, <1>m
    <2>5. Told'
      BY <1>t, <2>3, <2>4
    <2>6. Over(enc)'
      BY <1>4, <2>3
    <2> QED BY <1>3, <2>3, <2>4, <2>5, <2>6 DEF EncInv
  <1>5. CASE Streaming(enc)
    <2>1. Outcome(enc, w, s)
      BY <1>0, <1>1, <1>5, StepOutcome DEF EncInv
    <2> HIDE DEF s
    <2>2. CASE Goes(enc, s) /\ w.k # "done" /\ (w.k = "finish" => enc.wire = "gemini")
      <3>1. Streaming(s) /\ s.wire = enc.wire /\ s.finish = enc.finish /\ s.failed = FALSE
        BY <1>5, <2>2 DEF Goes, Streaming
      <3>2. enc' = s /\ phase' = "open"
        BY <1>2, <3>1
      <3>3. Told'
        BY <1>t, <2>2, <3>1, <3>2
      <3>4. Streaming(enc)'
        BY <3>1, <3>2
      <3> QED BY <1>3, <3>2, <3>3, <3>4 DEF EncInv
    <2>3. CASE Heard(enc, s, w.r) /\ w.k = "finish"
      <3>1. Streaming(s) /\ s.wire = enc.wire /\ s.finish = w.r /\ s.failed = FALSE
        BY <1>5, <2>3 DEF Heard, Streaming
      <3>2. enc' = s /\ phase' = "open"
        BY <1>2, <3>1
      <3>3. Told'
        BY <1>t, <2>3, <3>1, <3>2
      <3>4. Streaming(enc)'
        BY <3>1, <3>2
      <3> QED BY <1>3, <3>2, <3>3, <3>4 DEF EncInv
    <2>4. CASE Over(s) /\ s.wire = enc.wire /\ s.finish = enc.finish /\ w.k = "done"
      <3>1. enc' = s /\ phase' = "open"
        BY <1>2, <2>4 DEF Over
      <3>2. Told'
        BY <1>t, <2>4, <3>1
      <3>3. Over(enc)' /\ terminal' /\ Seen({"done"})' # {}
        BY <1>d, <1>m, <2>4, <3>1
      <3> QED BY <1>3, <3>1, <3>2, <3>3 DEF EncInv
    <2>5. CASE Broken(enc, s) /\ w.k \notin {"finish", "done"}
      <3>1. Steady(s) /\ s.wire = enc.wire /\ s.finish = enc.finish /\ s.failed = TRUE
        BY <2>5 DEF Broken
      <3>2. enc' = Fail(s) /\ phase' = "done"
        BY <1>2, <3>1
      <3>3. EncFields \subseteq DOMAIN s /\ Before(s.out, Runs(s))
        BY <3>1, StreamingBefore
      <3>4. /\ \A due : Stopped(Fail(s), due)
            /\ Fail(s).wire = s.wire /\ Fail(s).finish = s.finish
        BY <3>3, FailStops
      <3>5. Told'
        BY <1>t, <2>5, <3>1, <3>2, <3>4
      <3>6. Stopped(enc, terminal)'
        BY <3>2, <3>4
      <3> QED BY <1>3, <3>2, <3>5, <3>6 DEF EncInv
    <2> QED BY <2>1, <2>2, <2>3, <2>4, <2>5 DEF Outcome
  <1> QED BY <1>4, <1>5, <1>u DEF EncInv

\* The body ended.
LEMMA EofKeeps ==
  ASSUME EncInv, Eof
  PROVE  EncInv'
  <1> DEFINE out == AsmFlush(asm).out
             s == Feed(enc, out, TRUE)
  <1>1. /\ phase = "open" /\ phase' = "done" /\ sent' = sent /\ terminal' = terminal
        /\ asm' = AsmFlush(asm).asm
        /\ enc' = IF terminal THEN Finish(s) ELSE Fail(s)
    BY DEF Eof, FinishEncoder
  <1>2. Gathered(asm)'
    <2>1. asm'.pending = [i \in Index |-> NoPending]
      BY <1>1 DEF AsmFlush, Step
    <2> QED BY <2>1, NoCallEvents DEF Gathered, NoPending
  <1>3. PICK S : out \in Seq(S) /\ \A x \in S : CallEvent(x)
    BY FlushOut DEF EncInv, CallSeq
  <1>4. Len(out) \in Nat /\ \A k \in 1..Len(out) : CallEvent(out[k])
    <2> HIDE DEF out
    <2> QED BY <1>3
  <1> HIDE DEF out
  <1>5. CASE Over(enc) /\ terminal
    <2>1. s = enc
      BY <1>4, <1>5, FeedNothing DEF Over
    <2>2. enc' = enc
      BY <1>1, <1>5, <2>1 DEF Finish, Over
    <2>3. Over(enc)'
      BY <1>5, <2>2
    <2>4. Told'
      BY <1>1, <2>2 DEF EncInv, Told, Seen
    <2> QED BY <1>1, <1>2, <1>5, <2>3, <2>4 DEF EncInv, IsArgs
  <1>6. CASE Streaming(enc)
    <2>1. Goes(enc, s)
      BY <1>4, <1>6, FeedCalls
    <2> HIDE DEF s
    <2>2. Streaming(s) /\ s.wire = enc.wire /\ s.finish = enc.finish
      BY <1>6, <2>1 DEF Goes, Streaming
    <2>3. CASE terminal
      <3>1. enc' = Finish(s)
        BY <1>1, <2>3
      <3>2. Over(Finish(s)) /\ Finish(s).wire = s.wire /\ Finish(s).finish = s.finish
        BY <2>2, FinishCloses, ClosesOver
      <3>3. Over(enc)'
        BY <3>1, <3>2
      <3>4. Told'
        BY <1>1, <2>2, <3>1, <3>2 DEF EncInv, Told, Seen
      <3> QED BY <1>1, <1>2, <2>3, <3>3, <3>4 DEF EncInv, IsArgs
    <2>4. CASE ~terminal
      <3>1. enc' = Fail(s)
        BY <1>1, <2>4
      <3>2. EncFields \subseteq DOMAIN s /\ Before(s.out, Runs(s))
        BY <2>2, StreamingBefore DEF Streaming
      <3>3. /\ \A due : Stopped(Fail(s), due)
            /\ Fail(s).wire = s.wire /\ Fail(s).finish = s.finish
        BY <3>2, FailStops
      <3>4. Stopped(enc, terminal)'
        BY <3>1, <3>3
      <3>5. Told'
        BY <1>1, <2>2, <3>1, <3>3 DEF EncInv, Told, Seen
      <3> QED BY <1>1, <1>2, <3>4, <3>5 DEF EncInv, IsArgs
    <2> QED BY <2>3, <2>4
  <1> QED BY <1>1, <1>5, <1>6 DEF EncInv

\* The upstream broke.
LEMMA ErrorKeeps ==
  ASSUME EncInv, VendorError
  PROVE  EncInv'
  <1>1. /\ phase = "open" /\ phase' = "done" /\ sent' = sent /\ terminal' = terminal
        /\ asm' = asm /\ enc' = Fail(enc)
    BY DEF VendorError
  <1>2. EncFields \subseteq DOMAIN enc /\ (Before(enc.out, Runs(enc)) \/ (Closed(enc.out, Runs(enc)) /\ terminal))
    <2>1. CASE Streaming(enc)
      BY <2>1, StreamingBefore DEF Streaming
    <2>2. CASE Over(enc) /\ terminal
      BY <2>2 DEF Over
    <2> QED BY <1>1, <2>1, <2>2 DEF EncInv
  <1>3. Stopped(Fail(enc), terminal) /\ Fail(enc).wire = enc.wire /\ Fail(enc).finish = enc.finish
    BY <1>2, FailStops
  <1>4. Stopped(enc, terminal)'
    BY <1>1, <1>3
  <1>5. Told'
    BY <1>1, <1>3 DEF EncInv, Told, Seen
  <1> QED BY <1>1, <1>4, <1>5 DEF EncInv, IsArgs, Gathered

\* The encoder's invariant, in every state of every stream.
THEOREM EncoderInvariance == Spec => []EncInv
  <1>1. Init => EncInv
    <2> SUFFICES ASSUME Init PROVE EncInv
      OBVIOUS
    <2>1. IsArgs(sent) /\ Gathered(asm)
      BY NoCallEvents DEF Init, AsmInit, NoPending, Gathered
    <2>2. Seen({"finish"}) = {}
      BY DEF Init, Seen
    <2>3. EncFields \subseteq DOMAIN enc /\ enc.nextBlock = 0
          /\ enc.out = <<>> /\ enc.later = <<>> /\ enc.deferred = <<>>
          /\ enc.finished = FALSE /\ enc.failed = FALSE
      BY DEF Init, EncInit, EncFields
    <2>4. Sound(<<>>, <<>>, <<>>)
      <3> DEFINE S == {}
                 q == <<>>
      <3>1. q \in Seq(S) /\ \A e \in S : e.k # "finish"
        OBVIOUS
      <3>2. Before(q, FALSE)
        BY BeforeNothing
      <3> HIDE DEF S, q
      <3>3. Sound(q, q, q)
        BY <3>1, <3>2 DEF Sound
      <3> QED BY <3>3 DEF q
    <2>5. Streaming(enc)
      BY <2>3, <2>4 DEF Streaming, Steady
    <2> QED BY <2>1, <2>2, <2>5 DEF EncInv, Told, Init
  <1>2. AsmInv /\ EncInv /\ [Next]_vars => EncInv'
    <2> SUFFICES ASSUME AsmInv, EncInv, [Next]_vars PROVE EncInv'
      OBVIOUS
    <2>1. CASE \E e \in NextEvents : Upstream(WithId(e))
      BY <2>1, UpstreamKeeps
    <2>2. CASE Eof
      BY <2>2, EofKeeps
    <2>3. CASE VendorError
      BY <2>3, ErrorKeeps
    <2>4. CASE ClientGone
      <3>1. /\ phase = "open" /\ phase' = "gone"
            /\ sent' = sent /\ terminal' = terminal /\ asm' = asm /\ enc' = enc
        BY <2>4 DEF ClientGone
      <3> QED BY <3>1 DEF EncInv, Told, Seen, IsArgs, Gathered
    <2>5. CASE UNCHANGED vars
      <3>1. /\ phase' = phase
            /\ sent' = sent /\ terminal' = terminal /\ asm' = asm /\ enc' = enc
        BY <2>5 DEF vars
      <3> QED BY <3>1 DEF EncInv, Told, Seen, IsArgs, Gathered
    <2> QED BY <2>1, <2>2, <2>3, <2>4, <2>5 DEF Next, Ended
  <1> QED BY <1>1, <1>2, AssemblerInvariance, PTL DEF Spec

\* The frames of a stream without its end: positions.
LEMMA BeforeFrames ==
  ASSUME NEW ok \in BOOLEAN, NEW q, Before(q, ok)
  PROVE  /\ Len(q) \in Nat /\ DOMAIN q = 1..Len(q)
         /\ \A j \in 1..Len(q) : Inner(q[j], ok)
         /\ \A x : /\ Len(Append(q, x)) = Len(q) + 1
                   /\ DOMAIN Append(q, x) = 1..(Len(q) + 1)
                   /\ Append(q, x)[Len(q) + 1] = x
                   /\ \A j \in 1..Len(q) : Append(q, x)[j] = q[j]
  <1>1. PICK S : q \in Seq(S) /\ \A x \in S : Inner(x, ok)
    BY DEF Before
  <1>2. Len(q) \in Nat /\ DOMAIN q = 1..Len(q) /\ \A j \in 1..Len(q) : q[j] \in S
    BY <1>1
  <1>3. ASSUME NEW x
        PROVE  /\ Len(Append(q, x)) = Len(q) + 1
               /\ DOMAIN Append(q, x) = 1..(Len(q) + 1)
               /\ Append(q, x)[Len(q) + 1] = x
               /\ \A j \in 1..Len(q) : Append(q, x)[j] = q[j]
    BY <1>1
  <1> QED BY <1>1, <1>2, <1>3

\* A frame that tells the client to run its tools.
Orders(x) == x.f \in {"final", "end"} /\ x.tag \in ToolTags

\* What the frames show: where the end and the errors are, and what runs tools.
Shown(q, ok) ==
  /\ Len(q) \in Nat /\ DOMAIN q = 1..Len(q)
  /\ \A j \in 1..Len(q) : Orders(q[j]) => ok
NoEnd(q) == \A j \in 1..Len(q) : q[j].f # "end"
EndLast(q) ==
  /\ Len(q) # 0 /\ q[Len(q)].f = "end"
  /\ \A j \in 1..Len(q) : q[j].f = "end" => j = Len(q)
ErrorLast(q, due) ==
  /\ Len(q) # 0 /\ q[Len(q)].f = "error"
  /\ \A j \in 1..Len(q) : q[j].f = "end" => j = Len(q) - 1 /\ due

\* A stream without its end shows none.
LEMMA BeforeShown ==
  ASSUME NEW ok \in BOOLEAN, NEW q, Before(q, ok)
  PROVE  Shown(q, ok) /\ NoEnd(q)
  BY BeforeFrames DEF Shown, NoEnd, Orders, Inner

\* A closed one shows it last, and runs tools only if ok says so.
LEMMA ClosedShown ==
  ASSUME NEW ok \in BOOLEAN, NEW q, Closed(q, ok)
  PROVE  Shown(q, ok) /\ EndLast(q)
  <1>1. PICK p, x : q = Append(p, x) /\ Before(p, ok) /\ x.f = "end" /\ (x.tag \in ToolTags => ok)
    BY DEF Closed
  <1> DEFINE n == Len(p)
  <1>2. /\ n \in Nat
        /\ \A j \in 1..n : Inner(p[j], ok)
        /\ Len(q) = n + 1 /\ DOMAIN q = 1..(n + 1) /\ q[n + 1] = x /\ \A j \in 1..n : q[j] = p[j]
    BY <1>1, BeforeFrames
  <1>3. \A j \in 1..n : q[j].f # "end" /\ (Orders(q[j]) => ok)
    BY <1>2 DEF Inner, Orders
  <1> HIDE DEF n
  <1>4. \A j \in 1..(n + 1) : j = n + 1 \/ j \in 1..n
    BY <1>2
  <1>5. Orders(x) => ok
    BY <1>1 DEF Orders
  <1> QED BY <1>1, <1>2, <1>3, <1>4, <1>5 DEF Shown, EndLast

\* One that stopped shows the error last, and before it at most an end that was due.
LEMMA StoppedShown ==
  ASSUME NEW due, NEW s, Stopped(s, due)
  PROVE  Shown(s.out, Runs(s)) /\ ErrorLast(s.out, due)
  <1> DEFINE ok == Runs(s)
             q == s.out
  <1>0. ok \in BOOLEAN
    BY DEF Runs
  <1>1. PICK p, x : /\ q = Append(p, x) /\ x.f = "error"
                    /\ Before(p, ok) \/ (Closed(p, ok) /\ due)
    BY DEF Stopped
  <1> HIDE DEF ok, q
  <1> DEFINE n == Len(p)
  <1>2. /\ n \in Nat
        /\ \A j \in 1..n : Orders(p[j]) => ok
        /\ \A j \in 1..n : p[j].f = "end" => j = n /\ due
    <2>1. CASE Before(p, ok)
      BY <1>0, <2>1, BeforeShown DEF Shown, NoEnd
    <2>2. CASE Closed(p, ok) /\ due
      BY <1>0, <2>2, ClosedShown DEF Shown, EndLast
    <2> QED BY <1>1, <2>1, <2>2
  <1>3. Len(q) = n + 1 /\ DOMAIN q = 1..(n + 1) /\ q[n + 1] = x /\ \A j \in 1..n : q[j] = p[j]
    <2>1. PICK S : p \in Seq(S)
      <3>1. CASE Before(p, ok)
        BY <3>1 DEF Before
      <3>2. CASE Closed(p, ok)
        <4>1. PICK r, y, S : p = Append(r, y) /\ r \in Seq(S)
          BY <3>2 DEF Closed, Before
        <4> DEFINE T == S \cup {y}
        <4>2. r \in Seq(T) /\ y \in T
          BY <4>1
        <4>3. Append(r, y) \in Seq(T)
          BY <4>2
        <4> QED BY <4>1, <4>3
      <3> QED BY <1>1, <3>1, <3>2
    <2> DEFINE T == S \cup {x}
    <2>2. p \in Seq(T) /\ x \in T
      BY <2>1
    <2> QED BY <1>1, <2>2
  <1> HIDE DEF n
  <1>4. \A j \in 1..(n + 1) : j = n + 1 \/ j \in 1..n
    BY <1>2
  <1>5. ~Orders(x)
    BY <1>1 DEF Orders
  <1>6. n + 1 # 0 /\ (n + 1) - 1 = n
    BY <1>2
  <1>7. Shown(q, ok)
    BY <1>2, <1>3, <1>4, <1>5 DEF Shown
  <1>8. ErrorLast(q, due)
    BY <1>1, <1>2, <1>3, <1>4, <1>6 DEF ErrorLast
  <1> QED BY <1>7, <1>8 DEF ok, q

\* What the invariant says of the frames sent so far.
LEMMA OutShown ==
  ASSUME EncInv
  PROVE  /\ Shown(Out, Runs(enc))
         /\ \/ phase # "done" /\ NoEnd(Out)
            \/ terminal /\ EndLast(Out)
            \/ phase = "done" /\ ErrorLast(Out, terminal)
  <1> DEFINE ok == Runs(enc)
  <1>0. ok \in BOOLEAN /\ Out = enc.out
    BY DEF Runs, Out
  <1> HIDE DEF ok
  <1>1. CASE phase # "done" /\ Streaming(enc)
    <2>1. Before(enc.out, ok)
      BY <1>1, StreamingBefore DEF Streaming, ok
    <2> QED BY <1>0, <1>1, <2>1, BeforeShown DEF ok
  <1>2. CASE Over(enc) /\ terminal
    <2>1. Closed(enc.out, ok)
      BY <1>2 DEF Over, ok
    <2> QED BY <1>0, <1>2, <2>1, ClosedShown DEF ok
  <1>3. CASE phase = "done" /\ Stopped(enc, terminal)
    BY <1>0, <1>3, StoppedShown DEF ok
  <1> QED BY <1>1, <1>2, <1>3 DEF EncInv

\* The client gets one terminal frame, after the upstream's, with nothing but an
\* error behind it; a stream that is over ended with one or the other.
THEOREM StreamsEndOnce == Spec => []EndsOnce
  <1>1. EncInv => EndsOnce
    <2> SUFFICES ASSUME EncInv PROVE EndsOnce
      OBVIOUS
    <2> DEFINE n == Len(Out)
    <2>0. /\ n \in Nat /\ DOMAIN Out = 1..n
          /\ \/ phase # "done" /\ NoEnd(Out)
             \/ terminal /\ EndLast(Out)
             \/ phase = "done" /\ ErrorLast(Out, terminal)
      BY OutShown DEF Shown
    <2>1. n # 0 => Out # <<>>
      <3>1. Len(<<>>) = 0 /\ DOMAIN <<>> = {}
        OBVIOUS
      <3> QED BY <3>1
    <2>2. Last(Out) = Out[n]
      BY DEF Last
    <2>3. Frames({"end"}) = {j \in 1..n : Out[j].f = "end"}
      BY <2>0 DEF Frames
    <2>4. CASE phase # "done" /\ NoEnd(Out)
      <3>1. Frames({"end"}) = {}
        BY <2>3, <2>4 DEF NoEnd
      <3> QED BY <2>4, <3>1 DEF EndsOnce
    <2>5. CASE terminal /\ EndLast(Out)
      <3>1. n # 0 /\ Out[n].f = "end" /\ \A j \in 1..n : Out[j].f = "end" => j = n
        BY <2>5 DEF EndLast
      <3> HIDE DEF n
      <3>2. \A j \in Frames({"end"}) : terminal /\ \A k \in DOMAIN Out : k > j => Out[k].f = "error"
        BY <2>0, <2>3, <2>5, <3>1
      <3> QED BY <2>1, <2>2, <3>1, <3>2 DEF EndsOnce
    <2>6. CASE phase = "done" /\ ErrorLast(Out, terminal)
      <3>1. n # 0 /\ Out[n].f = "error" /\ \A j \in 1..n : Out[j].f = "end" => j = n - 1 /\ terminal
        BY <2>6 DEF ErrorLast
      <3> HIDE DEF n
      <3>2. \A j \in Frames({"end"}) : terminal /\ \A k \in DOMAIN Out : k > j => Out[k].f = "error"
        <4> SUFFICES ASSUME NEW j \in Frames({"end"}) PROVE terminal /\ \A k \in DOMAIN Out : k > j => Out[k].f = "error"
          OBVIOUS
        <4>1. j = n - 1 /\ terminal
          BY <2>3, <3>1
        <4>2. \A k \in 1..n : k > n - 1 => k = n
          BY <2>0
        <4> QED BY <2>0, <3>1, <4>1, <4>2
      <3> QED BY <2>1, <2>2, <3>1, <3>2 DEF EndsOnce
    <2> QED BY <2>0, <2>4, <2>5, <2>6
  <1> QED BY <1>1, EncoderInvariance, PTL

\* The client is told to run tools only when the upstream gave an ordinary reason.
THEOREM CutOffIsNotExecuted == Spec => []CutOffNotExecuted
  <1>1. EncInv => CutOffNotExecuted
    <2> SUFFICES ASSUME EncInv,
                        NEW j \in Frames({"final", "end"}), Out[j].tag \in {"tool_calls", "tool_use"},
                        NEW f \in Seen({"finish"})
                 PROVE  sent[f].r \in {"stop", "end_turn", "tool_calls", "tool_use"}
      BY DEF CutOffNotExecuted
    <2>1. Shown(Out, Runs(enc))
      BY OutShown
    <2>2. j \in 1..Len(Out) /\ Orders(Out[j])
      BY <2>1 DEF Shown, Frames, Orders, ToolTags
    <2>3. Runs(enc)
      BY <2>1, <2>2 DEF Shown
    <2>4. sent[f].r \in Reasons /\ sent[f].r = enc.finish
      BY <2>3 DEF EncInv, Told, Runs
    <2> QED BY <2>3, <2>4, ReasonsAssumption DEF Runs, Ordinary
  <1> QED BY <1>1, EncoderInvariance, PTL
=============================================================================
