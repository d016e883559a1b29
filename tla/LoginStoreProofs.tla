-------------------------- MODULE LoginStoreProofs --------------------------
(***************************************************************************)
(* The login flow and the writers of the credential store, for any times,  *)
(* any set of entries and any number of refreshing processes.              *)
(*                                                                         *)
(* As long as writers take turns one writer at most is at work, and the    *)
(* live file is what it read (TurnsTaken): the live name then changes only *)
(* to a temp file that this writer wrote to its end (TmpIsMine).  What is  *)
(* said of the entries follows from what the read documents have in common *)
(* with the live one (EntriesKept).                                        *)
(***************************************************************************)
EXTENDS LoginStore, TLAPS

PCs == {"idle", "read", "open", "write", "rename", "late",
        "done", "failed", "gone", "dead"}
Steps == {"open", "write", "rename"}

\* One writer.
IsWriter(x) ==
  /\ x = [f \in {"pc", "key", "doc", "fd", "late"} |-> x[f]]
  /\ x.pc \in PCs
  /\ x.fd \in Inodes
  /\ x.pc = "late" => x.late \in Steps
  /\ x.pc = "idle" => x.doc = NoDoc

\* A file's contents: what is no document has no entries.
IsContent(c) ==
  /\ c = [whole |-> c.whole, doc |-> c.doc]
  /\ c.whole \in BOOLEAN
  /\ ~c.whole => c.doc = NoDoc

StoreTypeOK ==
  /\ files = [live |-> files.live, tmp |-> files.tmp]
  /\ files.live \in Inodes /\ files.tmp \in Inodes
  /\ inode = [i \in Inodes |-> inode[i]] /\ \A i \in Inodes : IsContent(inode[i])
  /\ w = [p \in Procs |-> w[p]] /\ \A p \in Procs : IsWriter(w[p])
  /\ plan.sound \in BOOLEAN
  /\ overlap \in BOOLEAN

\* What a writer is about to do, also one that was dropped.
Doing(p) == IF w[p].pc = "late" THEN w[p].late ELSE w[p].pc

\* The temp name is not the live one, and it is the file the writer opened; what
\* it is about to rename is written.
TmpIsMine(p) ==
  /\ Doing(p) \in {"write", "rename"} => files.tmp # 0 /\ w[p].fd = files.tmp
  /\ Doing(p) = "rename" =>
       inode[files.tmp] = Content(TRUE, DocAfter(p, w[p].doc, w[p].key))

\* A writer at work holds what is in the live file, which is sound or missing
\* once it writes.
LiveWasRead(p) ==
  /\ Active(p) => w[p].doc = IF files.live = 0 THEN NoDoc ELSE Live.doc
  /\ w[p].pc = "read" => files.live # 0 /\ (p # "login" => Live.whole)
  /\ Doing(p) \in Steps => files.live = 0 \/ Live.whole

TurnsTaken ==
  /\ \A p, q \in Procs : Active(p) /\ Active(q) => p = q
  /\ \A p \in Procs : Active(p) => TmpIsMine(p) /\ LiveWasRead(p)
  /\ plan.sound => files.live = 0 \/ Live.whole

\* Entries no writer has chosen.
Touched == {w[p].key : p \in {q \in Procs : w[q].pc # "idle"}}
Others == Keys \ Touched
EntriesKept ==
  \A k \in Others :
    /\ files.live # 0 /\ Live.whole /\ k \in DOMAIN Live.doc => Live.doc[k] = "old"
    /\ \A p \in Procs : w[p].pc # "idle" /\ k \in DOMAIN w[p].doc =>
         files.live # 0 /\ Live.whole /\ k \in DOMAIN Live.doc

\* A login that is done has its tokens in the live file, until another writes.
LoginSaved ==
  w["login"].pc = "done" /\ (\A p \in Procs \ {"login"} : w[p].pc = "idle") =>
    /\ files.live # 0 /\ Live.whole
    /\ w["login"].key \in DOMAIN Live.doc /\ Live.doc[w["login"].key] = "login"

StoreInv ==
  /\ StoreTypeOK
  /\ files.tmp # 0 => files.tmp # files.live
  /\ ~overlap => TurnsTaken /\ EntriesKept /\ LoginSaved
-----------------------------------------------------------------------------
USE TimesAssumption, StoreAssumption

\* Only the chosen entry changes.
LEMMA DocAfterFacts ==
  ASSUME NEW p, NEW doc, NEW key
  PROVE  /\ \A k : k # key => /\ k \in DOMAIN DocAfter(p, doc, key) <=> k \in DOMAIN doc
                              /\ k \in DOMAIN doc => DocAfter(p, doc, key)[k] = doc[k]
         /\ p # "logout" => /\ key \in DOMAIN DocAfter(p, doc, key)
                            /\ DocAfter(p, doc, key)[key] = p
  <1>1. CASE p = "logout"
    BY <1>1 DEF DocAfter, Restrict
  <1>2. CASE p # "logout"
    BY <1>2 DEF DocAfter
  <1> QED
    BY <1>1, <1>2

\* An empty document, and what a file may contain.
LEMMA Contents ==
  /\ DOMAIN NoDoc = {}
  /\ IsContent(Content(FALSE, NoDoc))
  /\ \A doc : /\ IsContent(Content(TRUE, doc))
              /\ Content(TRUE, doc).whole /\ Content(TRUE, doc).doc = doc
  BY DEF NoDoc, IsContent, Content

\* A writer's record with some fields replaced.
LEMMA WriterMoves ==
  ASSUME NEW x, IsWriter(x), NEW pc \in PCs \ {"idle", "late"}
  PROVE  /\ IsWriter([x EXCEPT !.pc = pc])
         /\ [x EXCEPT !.pc = pc].pc = pc /\ [x EXCEPT !.pc = pc].key = x.key
         /\ [x EXCEPT !.pc = pc].doc = x.doc /\ [x EXCEPT !.pc = pc].fd = x.fd
  BY DEF IsWriter

\* The types after one writer moved.
LEMMA TypesAfter ==
  ASSUME StoreTypeOK, NEW p \in Procs, NEW x, IsWriter(x), w' = [w EXCEPT ![p] = x],
         plan' = plan, overlap' \in BOOLEAN,
         \/ inode' = inode
         \/ \E i \in Inodes : \E c : IsContent(c) /\ inode' = [inode EXCEPT ![i] = c],
         files' = [live |-> files'.live, tmp |-> files'.tmp],
         files'.live \in Inodes, files'.tmp \in Inodes
  PROVE  /\ StoreTypeOK'
         /\ w'[p] = x /\ \A q \in Procs \ {p} : w'[q] = w[q]
  <1>1. w' = [q \in Procs |-> IF q = p THEN x ELSE w[q]]
    BY DEF StoreTypeOK
  <1>2. (w = [q \in Procs |-> w[q]] /\ \A q \in Procs : IsWriter(w[q]))'
    BY <1>1 DEF StoreTypeOK
  <1>3. (inode = [i \in Inodes |-> inode[i]] /\ \A i \in Inodes : IsContent(inode[i]))'
    BY DEF StoreTypeOK
  <1> QED
    BY <1>1, <1>2, <1>3 DEF StoreTypeOK

\* A step of the writer at work that leaves the live file alone.
LEMMA PrivateStep ==
  ASSUME StoreInv, ~overlap, plan' = plan, NEW p \in Procs, Active(p),
         w'[p].key = w[p].key, w'[p].doc = w[p].doc, w'[p].pc \notin {"idle", "done"},
         \A q \in Procs \ {p} : w'[q] = w[q],
         files'.live = files.live, Live' = Live,
         Active(p)' => TmpIsMine(p)' /\ LiveWasRead(p)'
  PROVE  (TurnsTaken /\ EntriesKept /\ LoginSaved)'
  <1>0. TurnsTaken /\ EntriesKept /\ LoginSaved
    BY DEF StoreInv
  <1>1. \A q \in Procs \ {p} : ~Active(q) /\ ~Active(q)'
    BY <1>0 DEF TurnsTaken, Active
  <1>2. TurnsTaken'
    BY <1>0, <1>1 DEF TurnsTaken
  <1>3. \A q \in Procs : /\ w'[q].pc # "idle" <=> w[q].pc # "idle"
                         /\ w'[q].key = w[q].key /\ w'[q].doc = w[q].doc
    BY DEF Active
  <1>4. Others' = Others
    BY <1>3 DEF Others, Touched
  <1>5. EntriesKept'
    BY <1>0, <1>3, <1>4 DEF EntriesKept
  <1>6. LoginSaved'
    BY <1>0, <1>3 DEF LoginSaved
  <1> QED
    BY <1>2, <1>5, <1>6

\* The temp file becomes the live one.
LEMMA LiveReplaced ==
  ASSUME StoreInv, ~overlap, plan' = plan, inode' = inode, NEW p \in Procs, Active(p),
         Doing(p) = "rename", files' = RenameTmp,
         w'[p].key = w[p].key, w'[p].doc = w[p].doc, w'[p].pc \in {"done", "gone"},
         \A q \in Procs \ {p} : w'[q] = w[q]
  PROVE  (TurnsTaken /\ EntriesKept /\ LoginSaved)'
  <1> DEFINE doc == DocAfter(p, w[p].doc, w[p].key)
  <1>0. /\ TurnsTaken /\ EntriesKept /\ LoginSaved
        /\ files.tmp # 0 /\ inode[files.tmp] = Content(TRUE, doc)
        /\ w[p].doc = IF files.live = 0 THEN NoDoc ELSE Live.doc
    BY DEF StoreInv, TurnsTaken, TmpIsMine, LiveWasRead
  <1>1. files'.live = files.tmp /\ Live'.whole /\ Live'.doc = doc
    BY <1>0, Contents DEF RenameTmp, Live
  <1>2. \A q \in Procs : ~Active(q)'
    BY <1>0 DEF TurnsTaken, Active
  <1>3. TurnsTaken'
    BY <1>1, <1>2 DEF TurnsTaken
  <1>4. \A q \in Procs : /\ w'[q].pc # "idle" <=> w[q].pc # "idle"
                         /\ w'[q].key = w[q].key /\ w'[q].doc = w[q].doc
    BY DEF Active
  <1>5. Others' = Others /\ w[p].key \notin Others
    BY <1>4 DEF Others, Touched, Active
  <1>6. ASSUME NEW k \in Others
        PROVE  /\ k \in DOMAIN doc <=> k \in DOMAIN w[p].doc
               /\ k \in DOMAIN doc => doc[k] = "old"
               /\ \A q \in Procs : w[q].pc # "idle" /\ k \in DOMAIN w[q].doc => k \in DOMAIN doc
    <2>1. k # w[p].key
      BY <1>5
    <2>2. /\ k \in DOMAIN doc <=> k \in DOMAIN w[p].doc
          /\ k \in DOMAIN doc => doc[k] = w[p].doc[k]
      BY <2>1, DocAfterFacts
    <2>3. w[p].pc # "idle"
      BY DEF Active
    <2> HIDE DEF doc
    <2> QED
      BY <1>0, <2>2, <2>3, Contents DEF EntriesKept
  <1>7. EntriesKept'
    <2> HIDE DEF doc
    <2> QED
      BY <1>0, <1>1, <1>4, <1>5, <1>6 DEF EntriesKept
  <1>8. LoginSaved'
    <2>1. CASE p = "login"
      <3>1. w[p].key \in DOMAIN doc /\ doc[w[p].key] = "login"
        BY <2>1, DocAfterFacts
      <3> HIDE DEF doc
      <3> QED
        BY <1>0, <1>1, <1>4, <2>1, <3>1 DEF LoginSaved
    <2>2. CASE p # "login"
      BY <2>2 DEF LoginSaved
    <2> QED
      BY <2>1, <2>2
  <1> QED
    BY <1>3, <1>7, <1>8

\* The last entry is removed, and the file with it.
LEMMA LiveRemoved ==
  ASSUME StoreInv, ~overlap, plan' = plan, NEW p \in Procs, Active(p), p # "login",
         w[p].pc = "read", DOMAIN w[p].doc = {w[p].key}, files'.live = 0,
         w'[p].key = w[p].key, w'[p].doc = w[p].doc, w'[p].pc \in {"done", "failed"},
         \A q \in Procs \ {p} : w'[q] = w[q]
  PROVE  (TurnsTaken /\ EntriesKept /\ LoginSaved)'
  <1>0. TurnsTaken /\ EntriesKept /\ LoginSaved /\ w[p].doc = Live.doc
    BY DEF StoreInv, TurnsTaken, LiveWasRead
  <1>1. \A q \in Procs : ~Active(q)'
    BY <1>0 DEF TurnsTaken, Active
  <1>2. TurnsTaken'
    BY <1>1 DEF TurnsTaken
  <1>3. \A q \in Procs : /\ w'[q].pc # "idle" <=> w[q].pc # "idle"
                         /\ w'[q].key = w[q].key /\ w'[q].doc = w[q].doc
    BY DEF Active
  <1>4. Others' = Others /\ w[p].key \notin Others
    BY <1>3 DEF Others, Touched, Active
  <1>5. EntriesKept'
    BY <1>0, <1>3, <1>4 DEF EntriesKept
  <1>6. LoginSaved'
    BY DEF LoginSaved
  <1> QED
    BY <1>2, <1>5, <1>6
-----------------------------------------------------------------------------
(* The steps of a writer.                                                  *)

\* The types of what a writer's step reads.
LEMMA WriterTypes ==
  ASSUME StoreInv, NEW p \in Procs
  PROVE  /\ IsWriter(w[p]) /\ w = [q \in Procs |-> w[q]]
         /\ files = [live |-> files.live, tmp |-> files.tmp]
         /\ files.live \in Inodes /\ files.tmp \in Inodes
         /\ inode = [i \in Inodes |-> inode[i]] /\ \A i \in Inodes : IsContent(inode[i])
         /\ overlap \in BOOLEAN /\ 0 \in Inodes
         /\ files.tmp # 0 => files.tmp # files.live
  BY DEF StoreInv, StoreTypeOK, Inodes

\* Ending and nothing else: a failed write, a crash, a refused document.
LEMMA EndPreserves ==
  ASSUME StoreInv, NEW p \in Procs, Active(p), NEW pc \in {"failed", "dead"}, Goto(p, pc),
         UNCHANGED <<plan, overlap, inode>>,
         files' = files \/ files' = [files EXCEPT !.tmp = 0]
  PROVE  StoreInv'
  <1> DEFINE x == [w[p] EXCEPT !.pc = pc]
  <1>0. IsWriter(x) /\ x.pc = pc /\ x.key = w[p].key /\ x.doc = w[p].doc
    BY WriterTypes, WriterMoves DEF PCs
  <1>1. w' = [w EXCEPT ![p] = x]
    BY WriterTypes DEF Goto
  <1>2. /\ files' = [live |-> files'.live, tmp |-> files'.tmp]
        /\ files'.live = files.live /\ files'.tmp \in {files.tmp, 0}
    BY WriterTypes
  <1>3. StoreTypeOK' /\ w'[p] = x /\ \A q \in Procs \ {p} : w'[q] = w[q]
    BY <1>0, <1>1, <1>2, WriterTypes, TypesAfter DEF StoreInv
  <1>4. Live' = Live
    BY <1>2 DEF Live
  <1>5. ~Active(p)'
    BY <1>0, <1>3 DEF Active
  <1>6. ~overlap' => (TurnsTaken /\ EntriesKept /\ LoginSaved)'
    BY <1>0, <1>2, <1>3, <1>4, <1>5, PrivateStep
  <1> QED
    BY <1>2, <1>3, <1>6, WriterTypes DEF StoreInv

\* The three ways to begin.
LEMMA BeginMoves ==
  ASSUME StoreInv, NEW p \in Procs, Begin(p)
  PROVE  \E x : /\ IsWriter(x) /\ w' = [w EXCEPT ![p] = x]
                /\ \/ x.pc = "failed" /\ x.doc = NoDoc
                   \/ x.pc = "open" /\ x.doc = NoDoc /\ files.live = 0
                   \/ x.pc = "read" /\ x.doc = Live.doc /\ files.live # 0 /\ (p # "login" => Live.whole)
  <1>1. IsWriter(w[p]) /\ w[p].pc = "idle" /\ w[p].doc = NoDoc /\ w = [q \in Procs |-> w[q]]
    BY WriterTypes DEF Begin, IsWriter
  <1>2. CASE Goto(p, "failed")
    <2> DEFINE x == [w[p] EXCEPT !.pc = "failed"]
    <2>1. IsWriter(x) /\ x.pc = "failed" /\ x.doc = NoDoc
      BY <1>1, WriterMoves DEF PCs
    <2>2. w' = [w EXCEPT ![p] = x]
      BY <1>1, <1>2 DEF Goto
    <2> QED
      BY <2>1, <2>2
  <1>3. ASSUME NEW pc \in {"open", "read"}, NEW k, NEW doc,
               w' = [w EXCEPT ![p].pc = pc, ![p].key = k, ![p].doc = doc]
        PROVE  \E x : IsWriter(x) /\ w' = [w EXCEPT ![p] = x] /\ x.pc = pc /\ x.doc = doc
    <2> DEFINE x == [w[p] EXCEPT !.pc = pc, !.key = k, !.doc = doc]
    <2>1. IsWriter(x) /\ x.pc = pc /\ x.doc = doc
      BY <1>1 DEF IsWriter, PCs
    <2>2. w' = [w EXCEPT ![p] = x]
      BY <1>1, <1>3
    <2> QED
      BY <2>1, <2>2
  <1>4. CASE files.live = 0
    <2>1. \/ Goto(p, "failed")
          \/ \E k : w' = [w EXCEPT ![p].pc = "open", ![p].key = k, ![p].doc = NoDoc]
      BY <1>4 DEF Begin
    <2>2. ASSUME NEW k, w' = [w EXCEPT ![p].pc = "open", ![p].key = k, ![p].doc = NoDoc]
          PROVE  \E x : IsWriter(x) /\ w' = [w EXCEPT ![p] = x] /\ x.pc = "open" /\ x.doc = NoDoc
      BY <1>3, <2>2, Zenon
    <2> QED
      BY <1>2, <1>4, <2>1, <2>2, Zenon
  <1>5. CASE files.live # 0
    <2>1. \/ Goto(p, "failed")
          \/ /\ p # "login" => Live.whole
             /\ \E k : w' = [w EXCEPT ![p].pc = "read", ![p].key = k, ![p].doc = Live.doc]
      BY <1>5 DEF Begin
    <2>2. ASSUME NEW k, w' = [w EXCEPT ![p].pc = "read", ![p].key = k, ![p].doc = Live.doc]
          PROVE  \E x : IsWriter(x) /\ w' = [w EXCEPT ![p] = x] /\ x.pc = "read" /\ x.doc = Live.doc
      BY <1>3, <2>2, Zenon
    <2> QED
      BY <1>2, <1>5, <2>1, <2>2, Zenon
  <1> QED
    BY <1>4, <1>5

\* A writer begins: from then on it is the one at work, or the writers overlap.
LEMMA BeginPreserves ==
  ASSUME StoreInv, NEW p \in Procs, Begin(p)
  PROVE  StoreInv'
  <1>0. /\ UNCHANGED <<plan, files, inode>> /\ w[p].pc = "idle"
        /\ overlap' = (overlap \/ \E q \in Procs \ {p} : Active(q))
    BY DEF Begin
  <1>1. PICK x : /\ IsWriter(x) /\ w' = [w EXCEPT ![p] = x]
                 /\ \/ x.pc = "failed" /\ x.doc = NoDoc
                    \/ x.pc = "open" /\ x.doc = NoDoc /\ files.live = 0
                    \/ x.pc = "read" /\ x.doc = Live.doc /\ files.live # 0 /\ (p # "login" => Live.whole)
    BY BeginMoves
  <1>2. overlap' \in BOOLEAN
    BY <1>0, Zenon
  <1>3. StoreTypeOK' /\ w'[p] = x /\ \A q \in Procs \ {p} : w'[q] = w[q]
    BY <1>0, <1>1, <1>2, WriterTypes, TypesAfter DEF StoreInv
  <1>4. ~overlap' => ~overlap /\ \A q \in Procs \ {p} : ~Active(q)
    BY <1>0, Zenon
  <1>5. ASSUME ~overlap'
        PROVE  (TurnsTaken /\ EntriesKept /\ LoginSaved)'
    <2>0. /\ TurnsTaken /\ EntriesKept /\ LoginSaved /\ Live' = Live
          /\ \A q \in Procs \ {p} : ~Active(q) /\ ~Active(q)'
      BY <1>0, <1>3, <1>4, <1>5 DEF StoreInv, Live, Active
    <2>1. Active(p)' => TmpIsMine(p)' /\ LiveWasRead(p)'
      BY <1>0, <1>1, <1>3, <2>0 DEF TmpIsMine, LiveWasRead, Active, Doing, Steps
    <2>2. TurnsTaken'
      BY <1>0, <2>0, <2>1 DEF TurnsTaken
    <2>3. Others' \subseteq Others
      BY <1>0, <1>3 DEF Others, Touched
    <2>4. x.doc = NoDoc \/ (x.doc = Live.doc /\ files.live # 0)
      BY <1>1
    <2>5. files.live # 0 => Live.whole \/ Live.doc = NoDoc
      BY WriterTypes DEF Live, IsContent
    <2>6. EntriesKept'
      BY <1>0, <1>3, <2>0, <2>3, <2>4, <2>5, Contents DEF EntriesKept
    <2>7. LoginSaved'
      BY <1>0, <1>1, <1>3, <2>0 DEF LoginSaved
    <2> QED
      BY <2>2, <2>6, <2>7
  <1> QED
    BY <1>0, <1>3, <1>5, WriterTypes DEF StoreInv

\* The document is read again, or the last entry is removed.
LEMMA ReadPreserves ==
  ASSUME StoreInv, NEW p \in Procs, ReadDoc(p)
  PROVE  StoreInv'
  <1> DEFINE doc == IF p = "logout" THEN w[p].doc ELSE Live.doc
  <1>0. UNCHANGED <<plan, inode, overlap>> /\ w[p].pc = "read" /\ Active(p)
    BY DEF ReadDoc, Active
  <1>1. \/ Goto(p, "failed") /\ files' = files
        \/ /\ p = "logout" /\ DOMAIN w[p].doc = {w[p].key}
           /\ Goto(p, IF files.live = 0 THEN "failed" ELSE "done")
           /\ files' = [files EXCEPT !.live = 0]
        \/ /\ p # "logout" => files.live # 0 /\ Live.whole
           /\ w' = [w EXCEPT ![p].pc = "open", ![p].doc = doc] /\ files' = files
    BY DEF ReadDoc, End
  <1>2. CASE Goto(p, "failed") /\ files' = files
    BY <1>0, <1>2, EndPreserves
  <1>3. CASE /\ p = "logout" /\ DOMAIN w[p].doc = {w[p].key}
             /\ Goto(p, IF files.live = 0 THEN "failed" ELSE "done")
             /\ files' = [files EXCEPT !.live = 0]
    <2> DEFINE pc == IF files.live = 0 THEN "failed" ELSE "done"
               x == [w[p] EXCEPT !.pc = pc]
    <2>1. IsWriter(x) /\ x.pc = pc /\ x.key = w[p].key /\ x.doc = w[p].doc
      BY WriterTypes, WriterMoves DEF PCs
    <2>2. w' = [w EXCEPT ![p] = x]
      BY <1>3, WriterTypes DEF Goto
    <2>3. /\ files' = [live |-> files'.live, tmp |-> files'.tmp]
          /\ files'.live = 0 /\ files'.tmp = files.tmp
      BY <1>3, WriterTypes
    <2>4. StoreTypeOK' /\ w'[p] = x /\ \A q \in Procs \ {p} : w'[q] = w[q]
      BY <1>0, <2>1, <2>2, <2>3, WriterTypes, TypesAfter DEF StoreInv
    <2>5. ~overlap' => (TurnsTaken /\ EntriesKept /\ LoginSaved)'
      BY <1>0, <1>3, <2>1, <2>3, <2>4, LiveRemoved
    <2> QED
      BY <2>3, <2>4, <2>5 DEF StoreInv
  <1>4. CASE /\ p # "logout" => files.live # 0 /\ Live.whole
             /\ w' = [w EXCEPT ![p].pc = "open", ![p].doc = doc] /\ files' = files
    <2> DEFINE x == [w[p] EXCEPT !.pc = "open", !.doc = doc]
    <2>1. IsWriter(x) /\ x.pc = "open" /\ x.key = w[p].key /\ x.doc = doc
      BY WriterTypes DEF IsWriter, PCs
    <2>2. w' = [w EXCEPT ![p] = x]
      BY <1>4, WriterTypes
    <2>3. StoreTypeOK' /\ w'[p] = x /\ \A q \in Procs \ {p} : w'[q] = w[q]
      BY <1>0, <1>4, <2>1, <2>2, WriterTypes, TypesAfter DEF StoreInv
    <2>4. ASSUME ~overlap'
          PROVE  (TurnsTaken /\ EntriesKept /\ LoginSaved)'
      <3>1. LiveWasRead(p) /\ Live' = Live
        BY <1>0, <1>4, <2>4 DEF StoreInv, TurnsTaken, Live
      <3>2. doc = w[p].doc /\ files.live # 0 /\ w[p].doc = Live.doc /\ Live.whole
        BY <1>0, <1>4, <3>1 DEF LiveWasRead
      <3>3. TmpIsMine(p)' /\ LiveWasRead(p)'
        BY <1>4, <2>1, <2>3, <3>1, <3>2 DEF TmpIsMine, LiveWasRead, Doing
      <3> QED
        BY <1>0, <1>4, <2>1, <2>3, <2>4, <3>1, <3>2, <3>3, PrivateStep
    <2> QED
      BY <1>4, <2>3, <2>4, WriterTypes DEF StoreInv
  <1> QED
    BY <1>1, <1>2, <1>3, <1>4

\* The temp file is opened, also by the late call of a dropped refresh.
LEMMA OpenPreserves ==
  ASSUME StoreInv, NEW p \in Procs, w[p].pc \in {"open", "late"}, Doing(p) = "open",
         OpenTmp(p), UNCHANGED <<plan, overlap>>
  PROVE  StoreInv'
  <1>1. PICK i \in (IF files.tmp = 0 THEN Free ELSE {files.tmp}) :
               /\ inode' = [inode EXCEPT ![i] = Content(FALSE, NoDoc)]
               /\ files' = [files EXCEPT !.tmp = i]
               /\ w' = [w EXCEPT ![p].fd = i, ![p].pc = IF w[p].pc = "late" THEN "gone" ELSE "write"]
    BY DEF OpenTmp
  <1>2. i \in Inodes /\ i # 0 /\ i # files.live
    BY <1>1, WriterTypes DEF Free, Unused
  <1> DEFINE x == [w[p] EXCEPT !.fd = i, !.pc = IF w[p].pc = "late" THEN "gone" ELSE "write"]
  <1>3. /\ IsWriter(x) /\ x.key = w[p].key /\ x.doc = w[p].doc /\ x.fd = i
        /\ x.pc = IF w[p].pc = "late" THEN "gone" ELSE "write"
    BY <1>2, WriterTypes DEF IsWriter, PCs
  <1>4. w' = [w EXCEPT ![p] = x]
    BY <1>1, WriterTypes
  <1>5. /\ files' = [live |-> files'.live, tmp |-> files'.tmp]
        /\ files'.live = files.live /\ files'.tmp = i
    BY <1>1, WriterTypes
  <1>6. StoreTypeOK' /\ w'[p] = x /\ \A q \in Procs \ {p} : w'[q] = w[q]
    BY <1>1, <1>2, <1>3, <1>4, <1>5, WriterTypes, TypesAfter, Contents DEF StoreInv
  <1>7. ASSUME ~overlap'
        PROVE  (TurnsTaken /\ EntriesKept /\ LoginSaved)'
    <2>1. Active(p) /\ LiveWasRead(p)
      BY <1>7 DEF StoreInv, TurnsTaken, Active
    <2>2. Live' = Live
      BY <1>1, <1>2, <1>5, WriterTypes DEF Live
    <2>3. Active(p)' => TmpIsMine(p)' /\ LiveWasRead(p)'
      BY <1>2, <1>3, <1>5, <1>6, <2>1, <2>2 DEF TmpIsMine, LiveWasRead, Active, Doing, Steps
    <2> QED
      <3>1. w'[p].key = w[p].key /\ w'[p].doc = w[p].doc /\ w'[p].pc \notin {"idle", "done"}
        BY <1>3, <1>6
      <3> HIDE DEF x
      <3> QED
        BY <1>5, <1>6, <1>7, <2>1, <2>2, <2>3, <3>1, PrivateStep
  <1> QED
    BY <1>2, <1>5, <1>6, <1>7 DEF StoreInv

\* The open file is written.
LEMMA WritePreserves ==
  ASSUME StoreInv, NEW p \in Procs, w[p].pc \in {"write", "late"}, Doing(p) = "write",
         inode' = [inode EXCEPT ![w[p].fd] = Content(TRUE, DocAfter(p, w[p].doc, w[p].key))],
         NEW pc, pc = IF w[p].pc = "late" THEN "gone" ELSE "rename",
         Goto(p, pc), UNCHANGED <<plan, files, overlap>>
  PROVE  StoreInv'
  <1> DEFINE x == [w[p] EXCEPT !.pc = pc]
             doc == DocAfter(p, w[p].doc, w[p].key)
  <1>1. IsWriter(x) /\ x.pc = pc /\ x.key = w[p].key /\ x.doc = w[p].doc /\ x.fd = w[p].fd
    BY WriterTypes, WriterMoves DEF PCs
  <1>2. w' = [w EXCEPT ![p] = x]
    BY WriterTypes DEF Goto
  <1>3. w[p].fd \in Inodes
    BY WriterTypes DEF IsWriter
  <1>4. IsContent(Content(TRUE, doc))
    BY Contents, Zenon
  <1> HIDE DEF doc, x
  <1>5. StoreTypeOK' /\ w'[p] = x /\ \A q \in Procs \ {p} : w'[q] = w[q]
    <2>1. inode' = [inode EXCEPT ![w[p].fd] = Content(TRUE, doc)]
      BY DEF doc
    <2> QED
      <3>1. \E i \in Inodes : \E c : IsContent(c) /\ inode' = [inode EXCEPT ![i] = c]
        BY <1>3, <1>4, <2>1
      <3> QED
        BY <1>1, <1>2, <3>1, WriterTypes, TypesAfter DEF StoreInv
  <1>6. ASSUME ~overlap'
        PROVE  (TurnsTaken /\ EntriesKept /\ LoginSaved)'
    <2>1. Active(p) /\ LiveWasRead(p) /\ TmpIsMine(p)
      BY <1>6 DEF StoreInv, TurnsTaken, Active
    <2>2. files.tmp # 0 /\ w[p].fd = files.tmp /\ files.tmp # files.live
      BY <2>1, WriterTypes DEF TmpIsMine
    <2>3. Live' = Live /\ inode'[files.tmp] = Content(TRUE, doc)
      BY <1>3, <2>2, WriterTypes DEF Live, doc
    <2>4. Active(p)' => TmpIsMine(p)' /\ LiveWasRead(p)'
      BY <1>1, <1>5, <2>1, <2>2, <2>3 DEF TmpIsMine, LiveWasRead, Active, Doing, Steps, doc
    <2> QED
      <3>1. w'[p].key = w[p].key /\ w'[p].doc = w[p].doc /\ w'[p].pc \notin {"idle", "done"}
        BY <1>1, <1>5
      <3> QED
        BY <1>5, <1>6, <2>1, <2>3, <2>4, <3>1, PrivateStep
  <1> QED
    BY <1>5, <1>6, WriterTypes DEF StoreInv

\* The temp file takes the live name.
LEMMA RenamePreserves ==
  ASSUME StoreInv, NEW p \in Procs, w[p].pc \in {"rename", "late"}, Doing(p) = "rename",
         files' = RenameTmp, NEW pc \in {"done", "gone", "failed"},
         pc = "failed" => files.tmp = 0,
         Goto(p, pc), UNCHANGED <<plan, inode, overlap>>
  PROVE  StoreInv'
  <1> DEFINE x == [w[p] EXCEPT !.pc = pc]
  <1>1. IsWriter(x) /\ x.pc = pc /\ x.key = w[p].key /\ x.doc = w[p].doc
    BY WriterTypes, WriterMoves DEF PCs
  <1>2. w' = [w EXCEPT ![p] = x]
    BY WriterTypes DEF Goto
  <1>3. /\ files' = [live |-> files'.live, tmp |-> files'.tmp]
        /\ files'.live \in Inodes /\ files'.tmp = 0
    BY WriterTypes DEF RenameTmp
  <1>4. StoreTypeOK' /\ w'[p] = x /\ \A q \in Procs \ {p} : w'[q] = w[q]
    BY <1>1, <1>2, <1>3, WriterTypes, TypesAfter DEF StoreInv
  <1>5. ASSUME ~overlap'
        PROVE  (TurnsTaken /\ EntriesKept /\ LoginSaved)'
    <2>1. Active(p) /\ files.tmp # 0
      BY <1>5 DEF StoreInv, TurnsTaken, TmpIsMine, Active
    <2> QED
      BY <1>1, <1>4, <1>5, <2>1, LiveReplaced
  <1> QED
    BY <1>3, <1>4, <1>5 DEF StoreInv

\* A refresh is dropped before its last call ran.
LEMMA DropPreserves ==
  ASSUME StoreInv, NEW p \in Procs, Drop(p)
  PROVE  StoreInv'
  <1>0. UNCHANGED <<plan, files, inode, overlap>> /\ w[p].pc \in Steps /\ Active(p)
    BY DEF Drop, Active, Steps
  <1> DEFINE x == [w[p] EXCEPT !.pc = "late", !.late = w[p].pc]
  <1>1. /\ IsWriter(x) /\ x.pc = "late" /\ x.late = w[p].pc
        /\ x.key = w[p].key /\ x.doc = w[p].doc /\ x.fd = w[p].fd
    BY <1>0, WriterTypes DEF IsWriter, PCs
  <1>2. w' = [w EXCEPT ![p] = x]
    BY WriterTypes DEF Drop
  <1>3. StoreTypeOK' /\ w'[p] = x /\ \A q \in Procs \ {p} : w'[q] = w[q]
    BY <1>0, <1>1, <1>2, WriterTypes, TypesAfter DEF StoreInv
  <1>4. ASSUME ~overlap'
        PROVE  (TurnsTaken /\ EntriesKept /\ LoginSaved)'
    <2>1. LiveWasRead(p) /\ TmpIsMine(p)
      BY <1>0, <1>4 DEF StoreInv, TurnsTaken
    <2>2. Live' = Live /\ Doing(p)' = Doing(p)
      BY <1>0, <1>1, <1>3 DEF Live, Doing, Steps
    <2>3. TmpIsMine(p)' /\ LiveWasRead(p)'
      BY <1>0, <1>1, <1>3, <2>1, <2>2 DEF TmpIsMine, LiveWasRead, Active
    <2> QED
      BY <1>0, <1>1, <1>3, <1>4, <2>2, <2>3, PrivateStep
  <1> QED
    BY <1>0, <1>3, <1>4, WriterTypes DEF StoreInv
-----------------------------------------------------------------------------
(* The store as a whole.                                                   *)

\* The store at the start: a whole document, a corrupt file or none.
LEMMA StoreInit == Init => StoreInv
  <1> SUFFICES ASSUME Init PROVE StoreInv
    OBVIOUS
  <1>1. PICK doc \in Docs, whole \in BOOLEAN, there \in BOOLEAN :
          /\ there \/ (whole /\ doc = NoDoc)
          /\ ~whole => doc = NoDoc
          /\ plan \in Plans(whole)
          /\ inode = [i \in Inodes |-> IF i = 1 THEN Content(whole, doc) ELSE Content(FALSE, NoDoc)]
          /\ files = [live |-> IF there THEN 1 ELSE 0, tmp |-> 0]
    BY DEF Init
  <1>2. w = [p \in Procs |-> Writer] /\ overlap = FALSE
    BY DEF Init
  <1>3. plan.sound = whole
    BY <1>1 DEF Plans
  <1>4. IsWriter(Writer) /\ Writer.pc = "idle" /\ Writer.doc = NoDoc
    <2>1. Writer = [f \in {"pc", "key", "doc", "fd", "late"} |-> Writer[f]]
      BY DEF Writer
    <2>2. Writer.pc = "idle" /\ Writer.doc = NoDoc /\ Writer.fd = 0
      BY DEF Writer
    <2> QED
      BY <2>1, <2>2 DEF IsWriter, PCs, Inodes
  <1>5. IsContent(Content(whole, doc)) /\ IsContent(Content(FALSE, NoDoc))
        /\ Content(whole, doc).whole = whole /\ Content(whole, doc).doc = doc
    BY <1>1 DEF IsContent, Content
  <1>6. files.live \in Inodes /\ files.tmp = 0 /\ (files.live # 0 => Live = Content(whole, doc))
    BY <1>1 DEF Inodes, Live
  <1>7. StoreTypeOK
    <2>1. files = [live |-> files.live, tmp |-> files.tmp]
      BY <1>1
    <2>2. inode = [i \in Inodes |-> inode[i]] /\ \A i \in Inodes : IsContent(inode[i])
      BY <1>1, <1>5
    <2>3. w = [p \in Procs |-> w[p]] /\ \A p \in Procs : IsWriter(w[p])
      BY <1>2, <1>4
    <2>4. 0 \in Inodes
      BY DEF Inodes
    <2>5. plan.sound \in BOOLEAN /\ overlap \in BOOLEAN
      BY <1>2, <1>3, Zenon
    <2> QED
      BY <1>6, <2>1, <2>2, <2>3, <2>4, <2>5, Zenon DEF StoreTypeOK
  <1>8. TurnsTaken
    BY <1>1, <1>2, <1>3, <1>4, <1>5, <1>6 DEF TurnsTaken, Active
  <1>9. \A k \in DOMAIN doc : doc[k] = "old"
    BY DEF Docs
  <1>10. EntriesKept
    BY <1>2, <1>4, <1>5, <1>6, <1>9 DEF EntriesKept
  <1>11. LoginSaved
    BY <1>2, <1>4 DEF LoginSaved, Procs
  <1> QED
    BY <1>6, <1>7, <1>8, <1>10, <1>11 DEF StoreInv

\* Every step of a writer.
LEMMA WriterPreserves ==
  ASSUME StoreInv, NEW p \in Procs, WriterStep(p)
  PROVE  StoreInv'
  <1>1. CASE Begin(p)
    BY <1>1, BeginPreserves
  <1>2. CASE ReadDoc(p)
    BY <1>2, ReadPreserves
  <1>3. CASE Open(p)
    BY <1>3, OpenPreserves DEF Open, Doing
  <1>4. CASE Write(p)
    BY <1>4, WritePreserves DEF Write, Doing
  <1>5. CASE Rename(p)
    BY <1>5, RenamePreserves DEF Rename, End, Doing
  <1>6. CASE WriteFails(p)
    BY <1>6, EndPreserves DEF WriteFails, End, Active
  <1>7. CASE Crash(p)
    BY <1>7, EndPreserves DEF Crash, End
  <1> QED
    BY <1>1, <1>2, <1>3, <1>4, <1>5, <1>6, <1>7 DEF WriterStep

\* The call that outlives its dropped refresh.
LEMMA LatePreserves ==
  ASSUME StoreInv, NEW p \in Procs, LateCall(p)
  PROVE  StoreInv'
  <1>0. w[p].pc = "late" /\ Doing(p) = w[p].late /\ UNCHANGED <<plan, overlap>>
    BY DEF LateCall, Doing
  <1>1. CASE LateOpen(p)
    BY <1>0, <1>1, OpenPreserves DEF LateOpen
  <1>2. CASE LateWrite(p)
    BY <1>0, <1>2, WritePreserves DEF LateWrite
  <1>3. CASE LateRename(p)
    BY <1>0, <1>3, RenamePreserves DEF LateRename
  <1> QED
    BY <1>1, <1>2, <1>3 DEF LateCall

\* The login flow's own steps leave the store alone.
LEMMA StoreKept ==
  ASSUME StoreInv, UNCHANGED <<plan, store>>
  PROVE  StoreInv'
  <1>1. plan' = plan /\ files' = files /\ inode' = inode /\ w' = w /\ overlap' = overlap
    BY DEF store
  <1>2. StoreTypeOK' <=> StoreTypeOK
    BY <1>1, Zenon DEF StoreTypeOK
  <1>3. TurnsTaken' <=> TurnsTaken
    BY <1>1, Zenon DEF TurnsTaken, TmpIsMine, LiveWasRead, Live, Active, Doing
  <1>4. EntriesKept' <=> EntriesKept
    BY <1>1, Zenon DEF EntriesKept, Others, Touched, Live
  <1>5. LoginSaved' <=> LoginSaved
    BY <1>1, Zenon DEF LoginSaved, Live
  <1> QED
    BY <1>1, <1>2, <1>3, <1>4, <1>5 DEF StoreInv

\* Every step of the system.
LEMMA StoreNext ==
  ASSUME StoreInv, [Next]_vars
  PROVE  StoreInv'
  <1>1. CASE UNCHANGED vars
    BY <1>1, StoreKept DEF vars, store
  <1>2. ASSUME NEW p \in Procs, WriterStep(p)
        PROVE  StoreInv'
    BY <1>2, WriterPreserves
  <1>3. ASSUME NEW p \in Refreshers, Drop(p) \/ LateCall(p)
        PROVE  StoreInv'
    BY <1>3, DropPreserves, LatePreserves DEF Procs
  <1>4. CASE LoginStep
    <2>1. UNCHANGED <<plan, store>>
      BY <1>4 DEF LoginStep, StartLogin, Callback, Exchange, StartDevice, Poll, TellUser
    <2> QED
      BY <2>1, StoreKept
  <1> QED
    BY <1>1, <1>2, <1>3, <1>4 DEF Next

\* Whatever login, logout and any number of refreshes do, crashes, failed writes and
\* dropped refreshes included: a writer has the live file and the temp file it thinks
\* it has, for as long as writers take turns.
THEOREM StoreInvariance == Spec => []StoreInv
  <1>1. StoreInv /\ [Next]_vars => StoreInv'
    BY StoreNext
  <1> QED
    BY <1>1, StoreInit, PTL DEF Spec

\* Writers that take turns never leave a live file that is no whole document
\* (write_secret_file renames only what is written and synced).
THEOREM TornOnlyByOverlapHolds == Spec => []TornOnlyByOverlap
  <1>1. StoreInv => TornOnlyByOverlap
    BY DEF StoreInv, TurnsTaken, TornOnlyByOverlap
  <1> QED
    BY <1>1, StoreInvariance, PTL

\* Writers that take turns leave every entry that none of them chose in the live file
\* as it was (write_tokens, remove_store_entry).
THEOREM SiblingsAreKept == Spec => []SiblingsKept
  <1>1. StoreInv => SiblingsKept
    <2>1. Keys \ {w[p].key : p \in Procs} \subseteq Others
      BY DEF Others, Touched
    <2> QED
      BY <2>1 DEF StoreInv, EntriesKept, SiblingsKept
  <1> QED
    BY <1>1, StoreInvariance, PTL
-----------------------------------------------------------------------------
(* The login flow.                                                         *)

FlowFields == {"phase", "told", "state", "interval", "timeout", "elapsed", "posted", "round"}

\* Polling keeps to the capped interval and lifetime; success is told only by a login
\* that is saved, and a foreign callback ends the flow.
FlowInv ==
  /\ flow = [f \in FlowFields |-> flow[f]]
  /\ flow.interval \in Nat /\ flow.timeout \in Nat /\ flow.elapsed \in Nat /\ flow.posted \in Nat
  /\ flow.phase = "poll" => flow.interval <= MaxInterval /\ flow.timeout <= MaxTimeout
  /\ PollDeadline
  /\ flow.told = "ok" => flow.phase = "told" /\ w["login"].pc = "done"
  /\ flow.state \notin {"own", None} => flow.phase = "told" /\ flow.told # "ok"

\* A login that is done stays so.
LEMMA DoneStays ==
  ASSUME StoreInv, w["login"].pc = "done", NEW p \in Procs,
         WriterStep(p) \/ Drop(p) \/ LateCall(p)
  PROVE  w'["login"].pc = "done"
  <1>1. w[p].pc # "done"
    BY DEF WriterStep, Begin, ReadDoc, Open, Write, Rename, WriteFails, Crash, Active, Drop, LateCall
  <1>2. p # "login" /\ "login" \in Procs /\ w = [q \in Procs |-> w[q]]
    BY <1>1, WriterTypes DEF Procs
  <1>3. \E x : w' = [w EXCEPT ![p] = x]
    <2>1. CASE Begin(p)
      BY <2>1, BeginMoves
    <2>2. CASE ReadDoc(p)
      BY <1>2, <2>2 DEF ReadDoc, End, Goto
    <2>3. CASE Open(p) \/ LateCall(p)
      BY <1>2, <2>3 DEF Open, OpenTmp, LateCall, LateOpen, LateWrite, LateRename, Goto
    <2>4. CASE Write(p) \/ Rename(p) \/ WriteFails(p) \/ Crash(p) \/ Drop(p)
      BY <1>2, <2>4 DEF Write, Rename, WriteFails, Crash, Drop, End, Goto
    <2> QED
      BY <2>1, <2>2, <2>3, <2>4 DEF WriterStep
  <1> QED
    BY <1>2, <1>3

\* What the vendor asks for is capped.
LEMMA PollCaps ==
  /\ \A n \in Nat : PollInterval(n) \in Nat /\ PollInterval(n) <= MaxInterval
  /\ \A n \in Nat : PollTimeout(n) \in Nat /\ PollTimeout(n) <= MaxTimeout
  /\ \A n \in Nat : AtMost(n, MaxInterval) \in Nat /\ AtMost(n, MaxInterval) <= MaxInterval
  BY DEF PollInterval, PollTimeout, AtMost

\* A flow that starts anew keeps its promises.
LEMMA IdleFlow ==
  ASSUME NEW phase, NEW told, told # "ok",
         \/ flow' = [Idle EXCEPT !.phase = phase, !.told = told]
         \/ flow' = [Idle EXCEPT !.phase = phase] /\ told = None
  PROVE  FlowInv'
  <1>1. /\ flow' = [f \in FlowFields |-> flow'[f]]
        /\ flow'.phase = phase /\ flow'.told = told /\ flow'.state = None
        /\ flow'.interval = 0 /\ flow'.timeout = 0 /\ flow'.elapsed = 0 /\ flow'.posted = 0
    BY DEF Idle, FlowFields
  <1> QED
    BY <1>1 DEF FlowInv, PollDeadline

\* Before the login starts.
LEMMA FlowInit == Init => FlowInv
  BY DEF Init, FlowInv, FlowFields, PollDeadline, Idle, None

\* One round of poll_device_token stays within the deadline.
LEMMA PollKeepsFlow ==
  ASSUME FlowInv, Poll
  PROVE  FlowInv'
  <1>0. flow.phase = "poll" /\ flow.told # "ok" /\ flow.state \in {"own", None}
    BY DEF Poll, FlowInv
  <1>1. \/ flow' = [Idle EXCEPT !.phase = "told", !.told = "error"]
        \/ flow' = [Idle EXCEPT !.phase = "persist"]
        \/ /\ flow.elapsed <= flow.timeout
           /\ \E d \in 0..MaxRequest, i \in Nat :
                /\ i <= MaxInterval
                /\ flow' = [flow EXCEPT !.elapsed = @ + flow.interval + d,
                                        !.posted = flow.elapsed + flow.interval,
                                        !.round = 1 - @, !.interval = i]
    <2>1. CASE flow.elapsed > flow.timeout
      BY <2>1 DEF Poll
    <2>2. CASE ~(flow.elapsed > flow.timeout)
      <3> DEFINE now(d) == [flow EXCEPT !.elapsed = @ + flow.interval + d,
                                        !.posted = flow.elapsed + flow.interval,
                                        !.round = 1 - @]
      <3>1. PICK d \in 0..MaxRequest :
                 \/ flow' = [Idle EXCEPT !.phase = "persist"]
                 \/ flow' = [Idle EXCEPT !.phase = "told", !.told = "error"]
                 \/ flow' = now(d)
                 \/ flow' = [now(d) EXCEPT !.interval = AtMost(@ + SlowDown, MaxInterval)]
        BY <2>2, Zenon DEF Poll
      <3>2. flow.interval \in Nat /\ flow.interval <= MaxInterval /\ flow.elapsed <= flow.timeout
        BY <1>0, <2>2 DEF FlowInv
      <3>3. CASE flow' = now(d)
        <4>1. now(d) = [flow EXCEPT !.elapsed = @ + flow.interval + d,
                                    !.posted = flow.elapsed + flow.interval,
                                    !.round = 1 - @, !.interval = flow.interval]
          BY DEF FlowInv, FlowFields
        <4> QED
          BY <3>2, <3>3, <4>1
      <3>4. CASE flow' = [now(d) EXCEPT !.interval = AtMost(@ + SlowDown, MaxInterval)]
        <4> DEFINE i == AtMost(flow.interval + SlowDown, MaxInterval)
        <4>1. [now(d) EXCEPT !.interval = AtMost(@ + SlowDown, MaxInterval)]
              = [flow EXCEPT !.elapsed = @ + flow.interval + d,
                             !.posted = flow.elapsed + flow.interval,
                             !.round = 1 - @, !.interval = i]
          BY DEF FlowInv, FlowFields
        <4>2. i \in Nat /\ i <= MaxInterval
          BY <3>2, PollCaps
        <4> HIDE DEF i
        <4> QED
          BY <3>2, <3>4, <4>1, <4>2
      <3>5. CASE \/ flow' = [Idle EXCEPT !.phase = "persist"]
                 \/ flow' = [Idle EXCEPT !.phase = "told", !.told = "error"]
        BY <3>5
      <3> QED
        BY <3>1, <3>3, <3>4, <3>5, Zenon
    <2> QED
      BY <2>1, <2>2
  <1>2. CASE flow' = [Idle EXCEPT !.phase = "told", !.told = "error"]
    BY <1>2, IdleFlow
  <1>3. CASE flow' = [Idle EXCEPT !.phase = "persist"]
    BY <1>3, IdleFlow DEF None
  <1>4. ASSUME NEW d \in 0..MaxRequest, NEW i \in Nat, i <= MaxInterval,
               flow.elapsed <= flow.timeout,
               flow' = [flow EXCEPT !.elapsed = @ + flow.interval + d,
                                    !.posted = flow.elapsed + flow.interval,
                                    !.round = 1 - @, !.interval = i]
        PROVE  FlowInv'
    <2>1. /\ flow' = [f \in FlowFields |-> flow'[f]]
          /\ flow'.phase = "poll" /\ flow'.told = flow.told /\ flow'.state = flow.state
          /\ flow'.interval = i /\ flow'.timeout = flow.timeout
          /\ flow'.elapsed = flow.elapsed + flow.interval + d
          /\ flow'.posted = flow.elapsed + flow.interval
      BY <1>0, <1>4 DEF FlowInv, FlowFields
    <2>2. /\ flow.interval \in Nat /\ flow.timeout \in Nat /\ flow.elapsed \in Nat
          /\ flow.interval <= MaxInterval /\ flow.timeout <= MaxTimeout
      BY <1>0 DEF FlowInv
    <2>3. PollDeadline'
      BY <1>4, <2>1, <2>2 DEF PollDeadline
    <2>4. /\ flow'.interval \in Nat /\ flow'.timeout \in Nat /\ flow'.elapsed \in Nat
          /\ flow'.posted \in Nat
          /\ flow'.interval <= MaxInterval /\ flow'.timeout <= MaxTimeout
      BY <1>4, <2>1, <2>2
    <2> QED
      BY <1>0, <2>1, <2>3, <2>4, Zenon DEF FlowInv
  <1> QED
    BY <1>1, <1>2, <1>3, <1>4

\* Every step of the login flow.
LEMMA LoginKeepsFlow ==
  ASSUME FlowInv, LoginStep
  PROVE  FlowInv'
  <1>0. w' = w
    BY DEF LoginStep, StartLogin, Callback, Exchange, StartDevice, Poll, TellUser, store
  <1>1. ASSUME NEW phase, phase \notin {"poll"}, flow.phase # "told", Phase(phase)
        PROVE  FlowInv'
    BY <1>0, <1>1 DEF Phase, FlowInv, FlowFields, PollDeadline
  <1>2. ASSUME NEW what, what = "ok" => w["login"].pc = "done", flow.phase # "told", Tell(what)
        PROVE  FlowInv'
    BY <1>0, <1>2 DEF Tell, FlowInv, FlowFields, PollDeadline
  <1>3. CASE StartLogin
    BY <1>1, <1>2, <1>3 DEF StartLogin
  <1>4. CASE Callback
    <2>0. flow.phase = "callback" /\ flow.told # "ok"
      BY <1>4 DEF Callback, FlowInv
    <2>1. PICK cb \in Callbacks :
            flow' = [flow EXCEPT !.state = cb.state, !.phase = Reply(cb).phase, !.told = Reply(cb).told]
      BY <1>4 DEF Callback
    <2>2. /\ Reply(cb).phase \in {"exchange", "told"} /\ Reply(cb).told # "ok"
          /\ cb.state # "own" => Reply(cb).phase = "told"
      BY DEF Reply, None
    <2>3. /\ flow' = [f \in FlowFields |-> flow'[f]]
          /\ flow'.phase = Reply(cb).phase /\ flow'.told = Reply(cb).told
          /\ flow'.state = cb.state /\ flow'.interval = flow.interval
          /\ flow'.timeout = flow.timeout /\ flow'.elapsed = flow.elapsed
          /\ flow'.posted = flow.posted
      BY <2>1 DEF FlowInv, FlowFields
    <2> QED
      BY <2>2, <2>3 DEF FlowInv, PollDeadline
  <1>5. CASE Exchange
    BY <1>1, <1>2, <1>5 DEF Exchange
  <1>6. CASE StartDevice
    <2>1. ASSUME NEW i \in Intervals, NEW e \in Lifetimes,
                 flow' = [flow EXCEPT !.phase = "poll", !.interval = PollInterval(i),
                                      !.timeout = PollTimeout(e)]
          PROVE  FlowInv'
      <3>1. /\ PollInterval(i) \in Nat /\ PollInterval(i) <= MaxInterval
            /\ PollTimeout(e) \in Nat /\ PollTimeout(e) <= MaxTimeout
        BY PollCaps
      <3>2. flow.phase = "device"
        BY <1>6 DEF StartDevice
      <3> QED
        BY <1>0, <2>1, <3>1, <3>2 DEF FlowInv, FlowFields, PollDeadline
    <2> QED
      BY <1>2, <1>6, <2>1 DEF StartDevice
  <1>7. CASE Poll
    BY <1>7, PollKeepsFlow
  <1>8. CASE TellUser
    BY <1>1, <1>2, <1>8 DEF TellUser
  <1> QED
    BY <1>3, <1>4, <1>5, <1>6, <1>7, <1>8 DEF LoginStep

\* Every step of the system: the writers leave the flow alone.
LEMMA FlowNext ==
  ASSUME StoreInv, FlowInv, [Next]_vars
  PROVE  FlowInv'
  <1>1. CASE LoginStep
    BY <1>1, LoginKeepsFlow
  <1>2. ASSUME flow' = flow, w["login"].pc = "done" => w'["login"].pc = "done"
        PROVE  FlowInv'
    BY <1>2 DEF FlowInv, PollDeadline
  <1>3. CASE UNCHANGED vars
    BY <1>2, <1>3 DEF vars
  <1>4. ASSUME NEW p \in Procs, WriterStep(p) \/ Drop(p) \/ LateCall(p)
        PROVE  FlowInv'
    <2>1. flow' = flow
      BY <1>4 DEF WriterStep, Begin, ReadDoc, Open, Write, Rename, WriteFails, Crash, Drop, LateCall
    <2> QED
      BY <1>2, <1>4, <2>1, DoneStays
  <1> QED
    BY <1>1, <1>3, <1>4 DEF Next, Procs

\* The login flow's promises, next to those of the store they rest on.
THEOREM FlowInvariance == Spec => [](StoreInv /\ FlowInv)
  <1>1. StoreInv /\ FlowInv /\ [Next]_vars => FlowInv'
    BY FlowNext
  <1> QED
    BY <1>1, FlowInit, StoreInvariance, PTL DEF Spec

\* "Login saved" is told only by a login whose code was its own and whose tokens are in
\* the live file (run_pkce and run_device tell after persist_login_tokens).
THEOREM ToldOkSaved == Spec => []ToldOkIsSaved
  <1>1. StoreInv /\ FlowInv => ToldOkIsSaved
    BY DEF StoreInv, LoginSaved, FlowInv, ToldOkIsSaved
  <1> QED
    BY <1>1, FlowInvariance, PTL

\* poll_device_token: whatever interval, lifetime and slow_down answers the vendor gives,
\* the capped lifetime and interval bound the last poll.
THEOREM PollDeadlineKept == Spec => []PollDeadline
  <1>1. FlowInv => PollDeadline
    BY DEF FlowInv
  <1> QED
    BY <1>1, FlowInvariance, PTL
=============================================================================
