------------------------- MODULE TokenRefreshProofs -------------------------
(***************************************************************************)
(* Proofs about TokenRefresh for every set of processes and callers, every *)
(* bound on the grants and every combination of faults.                    *)
(*                                                                         *)
(* None of the three safety properties is inductive by itself.  A leader   *)
(* is alone because the slot names it; a writer is alone because the lock  *)
(* names it; a token handed out is durable because nobody but the one      *)
(* leader can leave an unsaved token in memory, and that leader's own ways *)
(* of returning the cached token all pass the pending-save check.          *)
(***************************************************************************)
EXTENDS TokenRefresh, TLAPS

\* The in-flight slot names whoever runs the leader's closure.
SlotOwned == \A c \in Caller : pc[c] \in Leading => slot[ProcOf[c]] = c

\* The file lock names whoever is past try_acquire_refresh_lock.
LockOwned == \A c \in Caller : pc[c] \in Locked => lock = c

\* A provider exists while one of its calls is under way.
CallsHaveProvider ==
  \A c \in Caller : pc[c] \notin {"idle", "publish"} => cached[ProcOf[c]].access # NoTok

\* refresh_as_leader never runs with a save pending, up to its own answer.
NoPendingInRefresh ==
  \A c \in Caller :
    pc[c] \in {"lock", "decide", "post", "answer", "reject"} => ~cached[ProcOf[c]].unsaved

\* What memory holds has been in the store, unless its save is pending.
MemoryRecorded ==
  \A p \in Proc : \/ cached[p].access = NoTok
                  \/ cached[p].unsaved
                  \/ cached[p].access \in stored

\* What the store holds has been recorded, and so has a completed rename.
StoreRecorded ==
  /\ store.access # NoTok => store.access \in stored
  /\ \A c \in Caller : pc[c] = "saved" => cached[ProcOf[c]].access \in stored

IInv ==
  /\ TypeOK
  /\ SlotOwned
  /\ LockOwned
  /\ CallsHaveProvider
  /\ NoPendingInRefresh
  /\ MemoryRecorded
  /\ StoreRecorded
  /\ AnswerDurable
-----------------------------------------------------------------------------
\* Constants and abbreviations every step below relies on.
USE ProcOfAssumption, NoCallerAssumption, MaxGrantAssumption
USE DEF NoTok, Tok, MaybeTok, provider, outside, local, history

\* Results are results.
LEMMA ResultTypes ==
  /\ \A t \in MaybeTok : Ok(t) \in Result
  /\ NoRes \in Result /\ Err \in Result /\ Stale \in Result
  /\ \A r \in Result : r.tok \in MaybeTok
  <1>1. \A t \in MaybeTok : Ok(t) \in Result
    BY DEF Ok, Result
  <1>2. NoRes \in Result /\ Err \in Result /\ Stale \in Result
    BY DEF NoRes, Err, Stale, Result
  <1>3. \A r \in Result : r.tok \in MaybeTok
    BY DEF Result
  <1> QED
    BY <1>1, <1>2, <1>3

\* What the provider puts in its state is a cached token.
LEMMA CachedTypes ==
  /\ NoProvider \in Cached
  /\ \A r \in Cached : /\ r.access \in MaybeTok
                         /\ r.refresh \in MaybeTok
                         /\ [r EXCEPT !.old = TRUE] \in Cached
                         /\ [r EXCEPT !.unsaved = FALSE] \in Cached
  <1>1. NoProvider \in Cached
    BY DEF NoProvider, Cached
  <1>2. ASSUME NEW r \in Cached
        PROVE  r.access \in MaybeTok /\ r.refresh \in MaybeTok
    BY DEF Cached
  <1>3. ASSUME NEW r \in Cached PROVE [r EXCEPT !.old = TRUE] \in Cached
    BY DEF Cached
  <1>4. ASSUME NEW r \in Cached PROVE [r EXCEPT !.unsaved = FALSE] \in Cached
    BY DEF Cached
  <1> QED
    BY <1>1, <1>2, <1>3, <1>4

\* Replies, and the cached token an answer makes.
LEMMA ReplyTypes ==
  /\ NoReply \in Reply
  /\ \A a, r \in MaybeTok :
       /\ [access |-> a, refresh |-> r] \in Reply
       /\ [access |-> a, refresh |-> r, old |-> FALSE, unsaved |-> TRUE] \in Cached
  /\ \A r \in Reply : r.access \in MaybeTok /\ r.refresh \in MaybeTok
  BY DEF NoReply, Reply, Cached

\* The states of the credential file.
LEMMA StoreTypes ==
  /\ \A b, o \in BOOLEAN, a, r \in MaybeTok :
       [file |-> b, access |-> a, refresh |-> r, old |-> o] \in Store
  /\ \A s \in Store : /\ s.access \in MaybeTok
                        /\ s.refresh \in MaybeTok
                        /\ [s EXCEPT !.old = TRUE] \in Store
  BY DEF Store

\* A provider built from the store holds what the store holds.
LEMMA AdoptedTypes ==
  ASSUME TypeOK
  PROVE  Adopted \in Cached /\ Adopted.access = store.access /\ ~Adopted.unsaved
  BY DEF TypeOK, Adopted, Cached, Store

\* A reload leaves a cached token: the held one, or a different one that the
\* store holds and that has no save pending.
LEMMA ReloadedTypes ==
  ASSUME TypeOK, NEW held \in Cached, NEW now \in Reloaded(held)
  PROVE  /\ now \in Cached
         /\ \/ now = held
            \/ now.access = store.access /\ now.access # NoTok /\ ~now.unsaved
  <1>1. Reloaded(held) \subseteq {held, Adopted}
    BY DEF Reloaded
  <1>2. CASE now = held
    BY <1>2
  <1>3. CASE now # held
    <2>1. now = Adopted /\ CanAdopt(held)
      BY <1>1, <1>3 DEF Reloaded
    <2> QED
      BY <2>1, AdoptedTypes DEF CanAdopt, CanRead
  <1> QED
    BY <1>2, <1>3

\* Every step keeps the types.
LEMMA TypePreserved ==
  TypeOK /\ [Next]_vars => (TypeOK)'
  <1> SUFFICES ASSUME TypeOK, [Next]_vars PROVE (TypeOK)'
    OBVIOUS
  <1> USE DEF TypeOK, PCs
  <1>1. ASSUME NEW p \in Proc, Start(p) PROVE (TypeOK)'
    BY <1>1, AdoptedTypes DEF Start, Running, CanRead
  <1>2. ASSUME NEW p \in Proc, Age(p) PROVE (TypeOK)'
    BY <1>2, CachedTypes DEF Age, Running
  <1>3. ASSUME NEW p \in Proc, Wake(p) PROVE (TypeOK)'
    BY <1>3 DEF Wake, Running
  <1>4. ASSUME NEW p \in Proc, WithoutHttpRefresh(p) PROVE (TypeOK)'
    BY <1>4 DEF WithoutHttpRefresh, Running
  <1>5. ASSUME NEW p \in Proc, Crash(p) PROVE (TypeOK)'
    <2>1. cached' \in [Proc -> Cached]
      BY <1>5, CachedTypes DEF Crash
    <2>2. force' \in [Proc -> BOOLEAN]
      BY <1>5 DEF Crash
    <2>3. skip' \in [Proc -> BOOLEAN]
      BY <1>5 DEF Crash
    <2>4. slot' \in [Proc -> Caller \cup {NoCaller}]
      BY <1>5 DEF Crash
    <2>5. lock' \in Caller \cup {NoCaller}
      BY <1>5 DEF Crash
    <2>6. pc' \in [Caller -> PCs]
      BY <1>5 DEF Crash
    <2>7. forced' \in [Caller -> BOOLEAN]
      BY <1>5 DEF Crash
    <2>8. lead' \in [Caller -> Caller \cup {NoCaller}]
      BY <1>5 DEF Crash
    <2>9. rt' \in [Caller -> MaybeTok]
      BY <1>5 DEF Crash
    <2>10. reply' \in [Caller -> Reply]
      BY <1>5, ReplyTypes DEF Crash
    <2>11. res' \in [Caller -> Result]
      BY <1>5, ResultTypes, CachedTypes DEF Crash
    <2>12. rejected' \in [Caller -> MaybeTok]
      BY <1>5, ResultTypes DEF Crash
    <2>13. cut' \in BOOLEAN
      BY <1>5 DEF Crash
    <2>14. \A d \in Caller :
            /\ pc'[d] \in {"post", "answer"} => rt'[d] # NoTok
            /\ pc'[d] = "answer" => reply'[d].access # NoTok
      BY <1>5, ReplyTypes DEF Crash
    <2> QED
      BY <1>5, <2>1, <2>2, <2>3, <2>4, <2>5, <2>6, <2>7, <2>8, <2>9, <2>10, <2>11, <2>12, <2>13, <2>14 DEF Crash, Running
  <1>6. ASSUME NEW c \in Caller, MarkStale(c) PROVE (TypeOK)'
    <2>1. force' \in [Proc -> BOOLEAN]
      BY <1>6 DEF MarkStale
    <2>2. rejected' \in [Caller -> MaybeTok]
      BY <1>6, ResultTypes DEF MarkStale
    <2>3. res' \in [Caller -> Result]
      BY <1>6, ResultTypes, CachedTypes DEF MarkStale
    <2> QED
      BY <1>6, <2>1, <2>2, <2>3 DEF MarkStale
  <1>7. ASSUME NEW c \in Caller, GetToken(c) PROVE (TypeOK)'
    <2>1. Ok(cached[ProcOf[c]].access) \in Result
      BY CachedTypes, ResultTypes
    <2>2. pc' \in [Caller -> PCs]
      BY <1>7, <2>1 DEF GetToken, PCs
    <2>3. res' \in [Caller -> Result]
      BY <1>7, ResultTypes, CachedTypes, <2>1 DEF GetToken, PCs
    <2>4. \A d \in Caller :
            /\ pc'[d] \in {"post", "answer"} => rt'[d] # NoTok
            /\ pc'[d] = "answer" => reply'[d].access # NoTok
      BY <1>7, ReplyTypes, <2>1 DEF GetToken, PCs
    <2> QED
      BY <1>7, <2>1, <2>2, <2>3, <2>4 DEF GetToken, Running, FastPath
  <1>8. ASSUME NEW c \in Caller, Cancel(c) PROVE (TypeOK)'
    BY <1>8, ReplyTypes, ResultTypes DEF Cancel, Unlocked, Followers, HoldsSlot, Awaits
  <1>9. ASSUME NEW c \in Caller, Claim(c) PROVE (TypeOK)'
    BY <1>9 DEF Claim, Busy
  <1>10. ASSUME NEW c \in Caller, LeadStart(c) PROVE (TypeOK)'
    <2>1. force' \in [Proc -> BOOLEAN]
      BY <1>10 DEF LeadStart, PCs
    <2>2. pc' \in [Caller -> PCs]
      BY <1>10 DEF LeadStart, PCs
    <2>3. forced' \in [Caller -> BOOLEAN]
      BY <1>10 DEF LeadStart, PCs
    <2>4. \A d \in Caller :
            /\ pc'[d] \in {"post", "answer"} => rt'[d] # NoTok
            /\ pc'[d] = "answer" => reply'[d].access # NoTok
      BY <1>10, ReplyTypes DEF LeadStart, PCs
    <2> QED
      BY <1>10, <2>1, <2>2, <2>3, <2>4 DEF LeadStart
  <1>11. ASSUME NEW c \in Caller, LockAcquire(c) PROVE (TypeOK)'
    BY <1>11 DEF LockAcquire
  <1>12. ASSUME NEW c \in Caller, LockFail(c) PROVE (TypeOK)'
    BY <1>12, CachedTypes, ResultTypes DEF LockFail, Ends
  <1>13. ASSUME NEW c \in Caller, DecideFresh(c) PROVE (TypeOK)'
    BY <1>13, CachedTypes, ResultTypes DEF DecideFresh, Ends
  <1>14. ASSUME NEW c \in Caller, DecideReload(c) PROVE (TypeOK)'
    <2>1. \A now \in Reloaded(cached[ProcOf[c]]) :
            /\ now \in Cached /\ now.refresh \in MaybeTok
            /\ Ok(now.access) \in Result
      BY ReloadedTypes, CachedTypes, ResultTypes
    <2>2. cached' \in [Proc -> Cached]
      BY <1>14, CachedTypes, <2>1 DEF DecideReload, Ends, PCs, HasRefresh
    <2>3. pc' \in [Caller -> PCs]
      BY <1>14, <2>1 DEF DecideReload, Ends, PCs, HasRefresh
    <2>4. rt' \in [Caller -> MaybeTok]
      BY <1>14, <2>1 DEF DecideReload, Ends, PCs, HasRefresh
    <2>5. res' \in [Caller -> Result]
      <3>1. PICK now \in Reloaded(cached[ProcOf[c]]) :
              \/ res' = [res EXCEPT ![c] = Ok(now.access)]
              \/ res' = [res EXCEPT ![c] = Err]
              \/ res' = res
        BY <1>14 DEF DecideReload, Ends
      <3>2. Ok(now.access) \in Result /\ Err \in Result
        BY <2>1, ResultTypes
      <3> QED
        BY <3>1, <3>2
    <2>6. \A d \in Caller :
            /\ pc'[d] \in {"post", "answer"} => rt'[d] # NoTok
            /\ pc'[d] = "answer" => reply'[d].access # NoTok
      BY <1>14, ReplyTypes, <2>1 DEF DecideReload, Ends, PCs, HasRefresh
    <2> QED
      BY <1>14, <2>1, <2>2, <2>3, <2>4, <2>5, <2>6 DEF DecideReload, Ends, HasRefresh
  <1>15. ASSUME NEW c \in Caller, AdoptCopilotHosts(c) PROVE (TypeOK)'
    <2>1. \A now \in Reloaded(cached[ProcOf[c]]) :
            /\ now \in Cached /\ now.refresh \in MaybeTok
            /\ Ok(now.access) \in Result
      BY ReloadedTypes, CachedTypes, ResultTypes
    <2>2. cached' \in [Proc -> Cached]
      BY <1>15, CachedTypes, <2>1 DEF AdoptCopilotHosts, Ends, PCs
    <2>3. pc' \in [Caller -> PCs]
      BY <1>15, <2>1 DEF AdoptCopilotHosts, Ends, PCs
    <2>4. res' \in [Caller -> Result]
      BY <1>15, ResultTypes, CachedTypes, <2>1 DEF AdoptCopilotHosts, Ends, PCs
    <2>5. \A d \in Caller :
            /\ pc'[d] \in {"post", "answer"} => rt'[d] # NoTok
            /\ pc'[d] = "answer" => reply'[d].access # NoTok
      BY <1>15, ReplyTypes, <2>1 DEF AdoptCopilotHosts, Ends, PCs
    <2> QED
      BY <1>15, <2>1, <2>2, <2>3, <2>4, <2>5 DEF AdoptCopilotHosts, Ends
  <1>16. ASSUME NEW c \in Caller, PostLost(c) PROVE (TypeOK)'
    BY <1>16, CachedTypes, ResultTypes DEF PostLost, Ends, TransportEnd
  <1>17. ASSUME NEW c \in Caller, VendorGrant(c) PROVE (TypeOK)'
    <2>1. /\ issued + 1 \in Tok /\ issued' = issued + 1
          /\ [access |-> issued + 1, refresh |-> issued + 1] \in Reply
          /\ [access |-> issued + 1, refresh |-> NoTok] \in Reply
      BY <1>17 DEF VendorGrant, Reply
    <2>2. live' \subseteq Tok /\ issued' \in Tok
      BY <1>17, <2>1 DEF VendorGrant, PCs
    <2>3. reply' \in [Caller -> Reply]
      <3>1. \/ reply' = [reply EXCEPT ![c] = [access |-> issued + 1, refresh |-> issued + 1]]
            \/ reply' = [reply EXCEPT ![c] = [access |-> issued + 1, refresh |-> NoTok]]
        BY <1>17, <2>1 DEF VendorGrant
      <3> QED
        BY <2>1, <3>1
    <2>4. pc' \in [Caller -> PCs]
      BY <1>17, <2>1 DEF VendorGrant, PCs
    <2>5. \A d \in Caller :
            /\ pc'[d] \in {"post", "answer"} => rt'[d] # NoTok
            /\ pc'[d] = "answer" => reply'[d].access # NoTok
      BY <1>17, ReplyTypes, <2>1 DEF VendorGrant, PCs
    <2> QED
      BY <1>17, <2>1, <2>2, <2>3, <2>4, <2>5 DEF VendorGrant
  <1>18. ASSUME NEW c \in Caller, VendorRotated(c) PROVE (TypeOK)'
    BY <1>18 DEF VendorRotated
  <1>19. ASSUME NEW c \in Caller, VendorRefuse(c) PROVE (TypeOK)'
    BY <1>19, ResultTypes DEF VendorRefuse, Ends
  <1>20. ASSUME NEW c \in Caller, AdoptAfterReject(c) PROVE (TypeOK)'
    <2>1. \A now \in Reloaded(cached[ProcOf[c]]) :
            /\ now \in Cached /\ now.refresh \in MaybeTok
            /\ Ok(now.access) \in Result
      BY ReloadedTypes, CachedTypes, ResultTypes
    <2>2. cached' \in [Proc -> Cached]
      BY <1>20, CachedTypes, <2>1 DEF AdoptAfterReject, Ends, PCs
    <2>3. pc' \in [Caller -> PCs]
      BY <1>20, <2>1 DEF AdoptAfterReject, Ends, PCs
    <2>4. res' \in [Caller -> Result]
      BY <1>20, ResultTypes, CachedTypes, <2>1 DEF AdoptAfterReject, Ends, PCs
    <2>5. \A d \in Caller :
            /\ pc'[d] \in {"post", "answer"} => rt'[d] # NoTok
            /\ pc'[d] = "answer" => reply'[d].access # NoTok
      BY <1>20, ReplyTypes, <2>1 DEF AdoptAfterReject, Ends, PCs
    <2> QED
      BY <1>20, <2>1, <2>2, <2>3, <2>4, <2>5 DEF AdoptAfterReject, Ends
  <1>21. ASSUME NEW c \in Caller, AnswerLost(c) PROVE (TypeOK)'
    <2>1. Ok(cached[ProcOf[c]].access) \in Result
      BY CachedTypes, ResultTypes
    <2>2. pc' \in [Caller -> PCs]
      BY <1>21, <2>1 DEF AnswerLost, Ends, TransportEnd, PCs
    <2>3. reply' \in [Caller -> Reply]
      BY <1>21, ReplyTypes, <2>1 DEF AnswerLost, Ends, TransportEnd, PCs
    <2>4. res' \in [Caller -> Result]
      BY <1>21, ResultTypes, CachedTypes, <2>1 DEF AnswerLost, Ends, TransportEnd, PCs
    <2>5. cut' \in BOOLEAN
      BY <1>21, <2>1 DEF AnswerLost, Ends, TransportEnd, PCs
    <2>6. \A d \in Caller :
            /\ pc'[d] \in {"post", "answer"} => rt'[d] # NoTok
            /\ pc'[d] = "answer" => reply'[d].access # NoTok
      BY <1>21, ReplyTypes, <2>1 DEF AnswerLost, Ends, TransportEnd, PCs
    <2> QED
      BY <1>21, <2>1, <2>2, <2>3, <2>4, <2>5, <2>6 DEF AnswerLost, Ends, TransportEnd
  <1>22. ASSUME NEW c \in Caller, Answer(c) PROVE (TypeOK)'
    BY <1>22, ReplyTypes, CachedTypes DEF Answer
  <1>23. ASSUME NEW c \in Caller, SaveLock(c) PROVE (TypeOK)'
    BY <1>23 DEF SaveLock
  <1>24. ASSUME NEW c \in Caller, SaveLockFail(c) PROVE (TypeOK)'
    BY <1>24, ResultTypes DEF SaveLockFail, Ends
  <1>25. ASSUME NEW c \in Caller, Save(c) PROVE (TypeOK)'
    <2>1. cached[ProcOf[c]].access \in MaybeTok
      BY CachedTypes
    <2>2. store' \in Store
      BY <1>25, StoreTypes, CachedTypes, <2>1 DEF Save, SavedRefresh, PCs
    <2>3. stored' \subseteq MaybeTok
      BY <1>25, CachedTypes, <2>1 DEF Save, SavedRefresh, PCs
    <2>4. pc' \in [Caller -> PCs]
      BY <1>25, <2>1 DEF Save, SavedRefresh, PCs
    <2>5. \A d \in Caller :
            /\ pc'[d] \in {"post", "answer"} => rt'[d] # NoTok
            /\ pc'[d] = "answer" => reply'[d].access # NoTok
      BY <1>25, ReplyTypes, <2>1 DEF Save, SavedRefresh, PCs
    <2> QED
      BY <1>25, <2>1, <2>2, <2>3, <2>4, <2>5 DEF Save, SavedRefresh
  <1>26. ASSUME NEW c \in Caller, SaveFail(c) PROVE (TypeOK)'
    BY <1>26, ResultTypes DEF SaveFail, Ends
  <1>27. ASSUME NEW c \in Caller, Saved(c) PROVE (TypeOK)'
    BY <1>27, CachedTypes, ResultTypes DEF Saved, Ends
  <1>28. ASSUME NEW c \in Caller, Complete(c) PROVE (TypeOK)'
    BY <1>28 DEF Complete, Unlocked, Rearms
  <1>29. ASSUME NEW c \in Caller, Publish(c) PROVE (TypeOK)'
    BY <1>29, ResultTypes DEF Publish, Followers
  <1>30. CASE AgeStore
    BY <1>30, StoreTypes DEF AgeStore, CanRead
  <1>31. CASE Login
    <2>1. /\ issued + 1 \in Tok /\ issued' = issued + 1
          /\ [file |-> TRUE, access |-> issued + 1, refresh |-> issued + 1,
              old |-> FALSE] \in Store
      BY <1>31 DEF Login, Store
    <2>2. live' \subseteq Tok /\ issued' \in Tok
      BY <1>31, <2>1 DEF Login
    <2>3. store' \in Store
      BY <1>31, StoreTypes, CachedTypes, <2>1 DEF Login
    <2>4. stored' \subseteq MaybeTok
      BY <1>31, CachedTypes, <2>1 DEF Login
    <2>5. cut' \in BOOLEAN
      BY <1>31, <2>1 DEF Login
    <2> QED
      BY <1>31, <2>1, <2>2, <2>3, <2>4, <2>5 DEF Login
  <1>32. CASE Logout
    <2>1. store' \in Store
      BY <1>32, StoreTypes, CachedTypes DEF Logout, Store
    <2>2. cut' \in BOOLEAN
      BY <1>32 DEF Logout, Store
    <2> QED
      BY <1>32, <2>1, <2>2 DEF Logout, CanRead
  <1>33. CASE UNCHANGED vars
    BY <1>33 DEF vars
  <1> QED
    BY <1>1, <1>2, <1>3, <1>4, <1>5, <1>6, <1>7, <1>8, <1>9, <1>10, <1>11,
       <1>12, <1>13, <1>14, <1>15, <1>16, <1>17, <1>18, <1>19, <1>20,
       <1>21, <1>22, <1>23, <1>24, <1>25, <1>26, <1>27, <1>28, <1>29,
       <1>30, <1>31, <1>32, <1>33 DEF Next, Progress

\* Every step keeps the slot and the lock with the caller they name.
LEMMA OwnersPreserved ==
  TypeOK /\ SlotOwned /\ LockOwned /\ [Next]_vars => (SlotOwned /\ LockOwned)'
  <1> SUFFICES ASSUME TypeOK, SlotOwned, LockOwned, [Next]_vars PROVE (SlotOwned /\ LockOwned)'
    OBVIOUS
  <1> USE DEF TypeOK, SlotOwned, LockOwned, Leading, Locked
  <1>1. ASSUME NEW p \in Proc, Start(p) PROVE (SlotOwned /\ LockOwned)'
    BY <1>1 DEF Start, Running, CanRead
  <1>2. ASSUME NEW p \in Proc, Age(p) PROVE (SlotOwned /\ LockOwned)'
    BY <1>2 DEF Age, Running
  <1>3. ASSUME NEW p \in Proc, Wake(p) PROVE (SlotOwned /\ LockOwned)'
    BY <1>3 DEF Wake, Running
  <1>4. ASSUME NEW p \in Proc, WithoutHttpRefresh(p) PROVE (SlotOwned /\ LockOwned)'
    BY <1>4 DEF WithoutHttpRefresh, Running
  <1>5. ASSUME NEW p \in Proc, Crash(p) PROVE (SlotOwned /\ LockOwned)'
    BY <1>5 DEF Crash, Running
  <1>6. ASSUME NEW c \in Caller, MarkStale(c) PROVE (SlotOwned /\ LockOwned)'
    BY <1>6 DEF MarkStale
  <1>7. ASSUME NEW c \in Caller, GetToken(c) PROVE (SlotOwned /\ LockOwned)'
    BY <1>7 DEF GetToken, Running, FastPath
  <1>8. ASSUME NEW c \in Caller, Cancel(c) PROVE (SlotOwned /\ LockOwned)'
    BY <1>8 DEF Cancel, Unlocked, Followers, HoldsSlot, Awaits
  <1>9. ASSUME NEW c \in Caller, Claim(c) PROVE (SlotOwned /\ LockOwned)'
    BY <1>9 DEF Claim, Busy
  <1>10. ASSUME NEW c \in Caller, LeadStart(c) PROVE (SlotOwned /\ LockOwned)'
    BY <1>10 DEF LeadStart
  <1>11. ASSUME NEW c \in Caller, LockAcquire(c) PROVE (SlotOwned /\ LockOwned)'
    BY <1>11 DEF LockAcquire
  <1>12. ASSUME NEW c \in Caller, LockFail(c) PROVE (SlotOwned /\ LockOwned)'
    BY <1>12 DEF LockFail, Ends
  <1>13. ASSUME NEW c \in Caller, DecideFresh(c) PROVE (SlotOwned /\ LockOwned)'
    BY <1>13 DEF DecideFresh, Ends
  <1>14. ASSUME NEW c \in Caller, DecideReload(c) PROVE (SlotOwned /\ LockOwned)'
    BY <1>14 DEF DecideReload, Ends, HasRefresh
  <1>15. ASSUME NEW c \in Caller, AdoptCopilotHosts(c) PROVE (SlotOwned /\ LockOwned)'
    BY <1>15 DEF AdoptCopilotHosts, Ends
  <1>16. ASSUME NEW c \in Caller, PostLost(c) PROVE (SlotOwned /\ LockOwned)'
    BY <1>16 DEF PostLost, Ends, TransportEnd
  <1>17. ASSUME NEW c \in Caller, VendorGrant(c) PROVE (SlotOwned /\ LockOwned)'
    BY <1>17 DEF VendorGrant
  <1>18. ASSUME NEW c \in Caller, VendorRotated(c) PROVE (SlotOwned /\ LockOwned)'
    BY <1>18 DEF VendorRotated
  <1>19. ASSUME NEW c \in Caller, VendorRefuse(c) PROVE (SlotOwned /\ LockOwned)'
    BY <1>19 DEF VendorRefuse, Ends
  <1>20. ASSUME NEW c \in Caller, AdoptAfterReject(c) PROVE (SlotOwned /\ LockOwned)'
    BY <1>20 DEF AdoptAfterReject, Ends
  <1>21. ASSUME NEW c \in Caller, AnswerLost(c) PROVE (SlotOwned /\ LockOwned)'
    BY <1>21 DEF AnswerLost, Ends, TransportEnd
  <1>22. ASSUME NEW c \in Caller, Answer(c) PROVE (SlotOwned /\ LockOwned)'
    BY <1>22 DEF Answer
  <1>23. ASSUME NEW c \in Caller, SaveLock(c) PROVE (SlotOwned /\ LockOwned)'
    BY <1>23 DEF SaveLock
  <1>24. ASSUME NEW c \in Caller, SaveLockFail(c) PROVE (SlotOwned /\ LockOwned)'
    BY <1>24 DEF SaveLockFail, Ends
  <1>25. ASSUME NEW c \in Caller, Save(c) PROVE (SlotOwned /\ LockOwned)'
    BY <1>25 DEF Save, SavedRefresh
  <1>26. ASSUME NEW c \in Caller, SaveFail(c) PROVE (SlotOwned /\ LockOwned)'
    BY <1>26 DEF SaveFail, Ends
  <1>27. ASSUME NEW c \in Caller, Saved(c) PROVE (SlotOwned /\ LockOwned)'
    BY <1>27 DEF Saved, Ends
  <1>28. ASSUME NEW c \in Caller, Complete(c) PROVE (SlotOwned /\ LockOwned)'
    BY <1>28 DEF Complete, Unlocked, Rearms
  <1>29. ASSUME NEW c \in Caller, Publish(c) PROVE (SlotOwned /\ LockOwned)'
    BY <1>29 DEF Publish, Followers
  <1>30. CASE AgeStore
    BY <1>30 DEF AgeStore, CanRead
  <1>31. CASE Login
    BY <1>31 DEF Login
  <1>32. CASE Logout
    BY <1>32 DEF Logout, CanRead
  <1>33. CASE UNCHANGED vars
    BY <1>33 DEF vars
  <1> QED
    BY <1>1, <1>2, <1>3, <1>4, <1>5, <1>6, <1>7, <1>8, <1>9, <1>10, <1>11,
       <1>12, <1>13, <1>14, <1>15, <1>16, <1>17, <1>18, <1>19, <1>20,
       <1>21, <1>22, <1>23, <1>24, <1>25, <1>26, <1>27, <1>28, <1>29,
       <1>30, <1>31, <1>32, <1>33 DEF Next, Progress

\* Only the one leader of a provider can leave a save pending, and a refresh
\* never starts over one.
LEMMA PendingPreserved ==
  TypeOK /\ SlotOwned /\ CallsHaveProvider /\ NoPendingInRefresh /\ [Next]_vars => (CallsHaveProvider /\ NoPendingInRefresh)'
  <1> SUFFICES ASSUME TypeOK, SlotOwned, CallsHaveProvider, NoPendingInRefresh, [Next]_vars PROVE (CallsHaveProvider /\ NoPendingInRefresh)'
    OBVIOUS
  <1> USE DEF TypeOK, SlotOwned, CallsHaveProvider, NoPendingInRefresh, Leading, NoProvider
  <1>1. ASSUME NEW p \in Proc, Start(p) PROVE (CallsHaveProvider /\ NoPendingInRefresh)'
    BY <1>1, AdoptedTypes DEF Start, Running, CanRead
  <1>2. ASSUME NEW p \in Proc, Age(p) PROVE (CallsHaveProvider /\ NoPendingInRefresh)'
    BY <1>2 DEF Age, Running
  <1>3. ASSUME NEW p \in Proc, Wake(p) PROVE (CallsHaveProvider /\ NoPendingInRefresh)'
    BY <1>3 DEF Wake, Running
  <1>4. ASSUME NEW p \in Proc, WithoutHttpRefresh(p) PROVE (CallsHaveProvider /\ NoPendingInRefresh)'
    BY <1>4 DEF WithoutHttpRefresh, Running
  <1>5. ASSUME NEW p \in Proc, Crash(p) PROVE (CallsHaveProvider /\ NoPendingInRefresh)'
    BY <1>5 DEF Crash, Running
  <1>6. ASSUME NEW c \in Caller, MarkStale(c) PROVE (CallsHaveProvider /\ NoPendingInRefresh)'
    BY <1>6 DEF MarkStale
  <1>7. ASSUME NEW c \in Caller, GetToken(c) PROVE (CallsHaveProvider /\ NoPendingInRefresh)'
    BY <1>7 DEF GetToken, Running, FastPath
  <1>8. ASSUME NEW c \in Caller, Cancel(c) PROVE (CallsHaveProvider /\ NoPendingInRefresh)'
    BY <1>8 DEF Cancel, Unlocked, Followers, HoldsSlot, Awaits
  <1>9. ASSUME NEW c \in Caller, Claim(c) PROVE (CallsHaveProvider /\ NoPendingInRefresh)'
    BY <1>9 DEF Claim, Busy
  <1>10. ASSUME NEW c \in Caller, LeadStart(c) PROVE (CallsHaveProvider /\ NoPendingInRefresh)'
    BY <1>10 DEF LeadStart
  <1>11. ASSUME NEW c \in Caller, LockAcquire(c) PROVE (CallsHaveProvider /\ NoPendingInRefresh)'
    BY <1>11 DEF LockAcquire
  <1>12. ASSUME NEW c \in Caller, LockFail(c) PROVE (CallsHaveProvider /\ NoPendingInRefresh)'
    BY <1>12 DEF LockFail, Ends
  <1>13. ASSUME NEW c \in Caller, DecideFresh(c) PROVE (CallsHaveProvider /\ NoPendingInRefresh)'
    BY <1>13 DEF DecideFresh, Ends
  <1>14. ASSUME NEW c \in Caller, DecideReload(c) PROVE (CallsHaveProvider /\ NoPendingInRefresh)'
    BY <1>14, ReloadedTypes DEF DecideReload, Ends, HasRefresh
  <1>15. ASSUME NEW c \in Caller, AdoptCopilotHosts(c) PROVE (CallsHaveProvider /\ NoPendingInRefresh)'
    BY <1>15, ReloadedTypes DEF AdoptCopilotHosts, Ends
  <1>16. ASSUME NEW c \in Caller, PostLost(c) PROVE (CallsHaveProvider /\ NoPendingInRefresh)'
    BY <1>16 DEF PostLost, Ends, TransportEnd
  <1>17. ASSUME NEW c \in Caller, VendorGrant(c) PROVE (CallsHaveProvider /\ NoPendingInRefresh)'
    BY <1>17 DEF VendorGrant
  <1>18. ASSUME NEW c \in Caller, VendorRotated(c) PROVE (CallsHaveProvider /\ NoPendingInRefresh)'
    BY <1>18 DEF VendorRotated
  <1>19. ASSUME NEW c \in Caller, VendorRefuse(c) PROVE (CallsHaveProvider /\ NoPendingInRefresh)'
    BY <1>19 DEF VendorRefuse, Ends
  <1>20. ASSUME NEW c \in Caller, AdoptAfterReject(c) PROVE (CallsHaveProvider /\ NoPendingInRefresh)'
    BY <1>20, ReloadedTypes DEF AdoptAfterReject, Ends
  <1>21. ASSUME NEW c \in Caller, AnswerLost(c) PROVE (CallsHaveProvider /\ NoPendingInRefresh)'
    BY <1>21 DEF AnswerLost, Ends, TransportEnd
  <1>22. ASSUME NEW c \in Caller, Answer(c) PROVE (CallsHaveProvider /\ NoPendingInRefresh)'
    BY <1>22 DEF Answer
  <1>23. ASSUME NEW c \in Caller, SaveLock(c) PROVE (CallsHaveProvider /\ NoPendingInRefresh)'
    BY <1>23 DEF SaveLock
  <1>24. ASSUME NEW c \in Caller, SaveLockFail(c) PROVE (CallsHaveProvider /\ NoPendingInRefresh)'
    BY <1>24 DEF SaveLockFail, Ends
  <1>25. ASSUME NEW c \in Caller, Save(c) PROVE (CallsHaveProvider /\ NoPendingInRefresh)'
    BY <1>25 DEF Save, SavedRefresh
  <1>26. ASSUME NEW c \in Caller, SaveFail(c) PROVE (CallsHaveProvider /\ NoPendingInRefresh)'
    BY <1>26 DEF SaveFail, Ends
  <1>27. ASSUME NEW c \in Caller, Saved(c) PROVE (CallsHaveProvider /\ NoPendingInRefresh)'
    BY <1>27 DEF Saved, Ends
  <1>28. ASSUME NEW c \in Caller, Complete(c) PROVE (CallsHaveProvider /\ NoPendingInRefresh)'
    BY <1>28 DEF Complete, Unlocked, Rearms
  <1>29. ASSUME NEW c \in Caller, Publish(c) PROVE (CallsHaveProvider /\ NoPendingInRefresh)'
    BY <1>29 DEF Publish, Followers
  <1>30. CASE AgeStore
    BY <1>30 DEF AgeStore, CanRead
  <1>31. CASE Login
    BY <1>31 DEF Login
  <1>32. CASE Logout
    BY <1>32 DEF Logout, CanRead
  <1>33. CASE UNCHANGED vars
    BY <1>33 DEF vars
  <1> QED
    BY <1>1, <1>2, <1>3, <1>4, <1>5, <1>6, <1>7, <1>8, <1>9, <1>10, <1>11,
       <1>12, <1>13, <1>14, <1>15, <1>16, <1>17, <1>18, <1>19, <1>20,
       <1>21, <1>22, <1>23, <1>24, <1>25, <1>26, <1>27, <1>28, <1>29,
       <1>30, <1>31, <1>32, <1>33 DEF Next, Progress

\* What memory and the store hold stays recorded.
LEMMA RecordedPreserved ==
  TypeOK /\ SlotOwned /\ MemoryRecorded /\ StoreRecorded /\ [Next]_vars => (MemoryRecorded /\ StoreRecorded)'
  <1> SUFFICES ASSUME TypeOK, SlotOwned, MemoryRecorded, StoreRecorded, [Next]_vars PROVE (MemoryRecorded /\ StoreRecorded)'
    OBVIOUS
  <1> USE DEF TypeOK, SlotOwned, MemoryRecorded, StoreRecorded, Leading, NoProvider
  <1>1. ASSUME NEW p \in Proc, Start(p) PROVE (MemoryRecorded /\ StoreRecorded)'
    BY <1>1, AdoptedTypes DEF Start, Running, CanRead
  <1>2. ASSUME NEW p \in Proc, Age(p) PROVE (MemoryRecorded /\ StoreRecorded)'
    BY <1>2 DEF Age, Running
  <1>3. ASSUME NEW p \in Proc, Wake(p) PROVE (MemoryRecorded /\ StoreRecorded)'
    BY <1>3 DEF Wake, Running
  <1>4. ASSUME NEW p \in Proc, WithoutHttpRefresh(p) PROVE (MemoryRecorded /\ StoreRecorded)'
    BY <1>4 DEF WithoutHttpRefresh, Running
  <1>5. ASSUME NEW p \in Proc, Crash(p) PROVE (MemoryRecorded /\ StoreRecorded)'
    BY <1>5 DEF Crash, Running
  <1>6. ASSUME NEW c \in Caller, MarkStale(c) PROVE (MemoryRecorded /\ StoreRecorded)'
    BY <1>6 DEF MarkStale
  <1>7. ASSUME NEW c \in Caller, GetToken(c) PROVE (MemoryRecorded /\ StoreRecorded)'
    BY <1>7 DEF GetToken, Running, FastPath
  <1>8. ASSUME NEW c \in Caller, Cancel(c) PROVE (MemoryRecorded /\ StoreRecorded)'
    BY <1>8 DEF Cancel, Unlocked, Followers, HoldsSlot, Awaits
  <1>9. ASSUME NEW c \in Caller, Claim(c) PROVE (MemoryRecorded /\ StoreRecorded)'
    BY <1>9 DEF Claim, Busy
  <1>10. ASSUME NEW c \in Caller, LeadStart(c) PROVE (MemoryRecorded /\ StoreRecorded)'
    BY <1>10 DEF LeadStart
  <1>11. ASSUME NEW c \in Caller, LockAcquire(c) PROVE (MemoryRecorded /\ StoreRecorded)'
    BY <1>11 DEF LockAcquire
  <1>12. ASSUME NEW c \in Caller, LockFail(c) PROVE (MemoryRecorded /\ StoreRecorded)'
    BY <1>12 DEF LockFail, Ends
  <1>13. ASSUME NEW c \in Caller, DecideFresh(c) PROVE (MemoryRecorded /\ StoreRecorded)'
    BY <1>13 DEF DecideFresh, Ends
  <1>14. ASSUME NEW c \in Caller, DecideReload(c) PROVE (MemoryRecorded /\ StoreRecorded)'
    BY <1>14, ReloadedTypes DEF DecideReload, Ends, HasRefresh
  <1>15. ASSUME NEW c \in Caller, AdoptCopilotHosts(c) PROVE (MemoryRecorded /\ StoreRecorded)'
    BY <1>15, ReloadedTypes DEF AdoptCopilotHosts, Ends
  <1>16. ASSUME NEW c \in Caller, PostLost(c) PROVE (MemoryRecorded /\ StoreRecorded)'
    BY <1>16 DEF PostLost, Ends, TransportEnd
  <1>17. ASSUME NEW c \in Caller, VendorGrant(c) PROVE (MemoryRecorded /\ StoreRecorded)'
    BY <1>17 DEF VendorGrant
  <1>18. ASSUME NEW c \in Caller, VendorRotated(c) PROVE (MemoryRecorded /\ StoreRecorded)'
    BY <1>18 DEF VendorRotated
  <1>19. ASSUME NEW c \in Caller, VendorRefuse(c) PROVE (MemoryRecorded /\ StoreRecorded)'
    BY <1>19 DEF VendorRefuse, Ends
  <1>20. ASSUME NEW c \in Caller, AdoptAfterReject(c) PROVE (MemoryRecorded /\ StoreRecorded)'
    BY <1>20, ReloadedTypes DEF AdoptAfterReject, Ends
  <1>21. ASSUME NEW c \in Caller, AnswerLost(c) PROVE (MemoryRecorded /\ StoreRecorded)'
    BY <1>21 DEF AnswerLost, Ends, TransportEnd
  <1>22. ASSUME NEW c \in Caller, Answer(c) PROVE (MemoryRecorded /\ StoreRecorded)'
    BY <1>22 DEF Answer
  <1>23. ASSUME NEW c \in Caller, SaveLock(c) PROVE (MemoryRecorded /\ StoreRecorded)'
    BY <1>23 DEF SaveLock
  <1>24. ASSUME NEW c \in Caller, SaveLockFail(c) PROVE (MemoryRecorded /\ StoreRecorded)'
    BY <1>24 DEF SaveLockFail, Ends
  <1>25. ASSUME NEW c \in Caller, Save(c) PROVE (MemoryRecorded /\ StoreRecorded)'
    BY <1>25 DEF Save, SavedRefresh
  <1>26. ASSUME NEW c \in Caller, SaveFail(c) PROVE (MemoryRecorded /\ StoreRecorded)'
    BY <1>26 DEF SaveFail, Ends
  <1>27. ASSUME NEW c \in Caller, Saved(c) PROVE (MemoryRecorded /\ StoreRecorded)'
    BY <1>27 DEF Saved, Ends
  <1>28. ASSUME NEW c \in Caller, Complete(c) PROVE (MemoryRecorded /\ StoreRecorded)'
    BY <1>28 DEF Complete, Unlocked, Rearms
  <1>29. ASSUME NEW c \in Caller, Publish(c) PROVE (MemoryRecorded /\ StoreRecorded)'
    BY <1>29 DEF Publish, Followers
  <1>30. CASE AgeStore
    BY <1>30 DEF AgeStore, CanRead
  <1>31. CASE Login
    BY <1>31 DEF Login
  <1>32. CASE Logout
    BY <1>32 DEF Logout, CanRead
  <1>33. CASE UNCHANGED vars
    BY <1>33 DEF vars
  <1> QED
    BY <1>1, <1>2, <1>3, <1>4, <1>5, <1>6, <1>7, <1>8, <1>9, <1>10, <1>11,
       <1>12, <1>13, <1>14, <1>15, <1>16, <1>17, <1>18, <1>19, <1>20,
       <1>21, <1>22, <1>23, <1>24, <1>25, <1>26, <1>27, <1>28, <1>29,
       <1>30, <1>31, <1>32, <1>33 DEF Next, Progress

\* Every way a call can end with a token ends with a recorded one.
LEMMA DurablePreserved ==
  IInv /\ [Next]_vars => (AnswerDurable)'
  <1> SUFFICES ASSUME IInv, [Next]_vars PROVE (AnswerDurable)'
    OBVIOUS
  <1> USE DEF IInv, TypeOK, CallsHaveProvider, NoPendingInRefresh, MemoryRecorded, StoreRecorded, AnswerDurable, Ok, NoRes, Err, Stale
  <1>1. ASSUME NEW p \in Proc, Start(p) PROVE (AnswerDurable)'
    BY <1>1, AdoptedTypes DEF Start, Running, CanRead
  <1>2. ASSUME NEW p \in Proc, Age(p) PROVE (AnswerDurable)'
    BY <1>2 DEF Age, Running
  <1>3. ASSUME NEW p \in Proc, Wake(p) PROVE (AnswerDurable)'
    BY <1>3 DEF Wake, Running
  <1>4. ASSUME NEW p \in Proc, WithoutHttpRefresh(p) PROVE (AnswerDurable)'
    BY <1>4 DEF WithoutHttpRefresh, Running
  <1>5. ASSUME NEW p \in Proc, Crash(p) PROVE (AnswerDurable)'
    BY <1>5 DEF Crash, Running
  <1>6. ASSUME NEW c \in Caller, MarkStale(c) PROVE (AnswerDurable)'
    BY <1>6 DEF MarkStale
  <1>7. ASSUME NEW c \in Caller, GetToken(c) PROVE (AnswerDurable)'
    BY <1>7 DEF GetToken, Running, FastPath
  <1>8. ASSUME NEW c \in Caller, Cancel(c) PROVE (AnswerDurable)'
    BY <1>8 DEF Cancel, Unlocked, Followers, HoldsSlot, Awaits
  <1>9. ASSUME NEW c \in Caller, Claim(c) PROVE (AnswerDurable)'
    BY <1>9 DEF Claim, Busy
  <1>10. ASSUME NEW c \in Caller, LeadStart(c) PROVE (AnswerDurable)'
    BY <1>10 DEF LeadStart
  <1>11. ASSUME NEW c \in Caller, LockAcquire(c) PROVE (AnswerDurable)'
    BY <1>11 DEF LockAcquire
  <1>12. ASSUME NEW c \in Caller, LockFail(c) PROVE (AnswerDurable)'
    BY <1>12 DEF LockFail, Ends
  <1>13. ASSUME NEW c \in Caller, DecideFresh(c) PROVE (AnswerDurable)'
    BY <1>13 DEF DecideFresh, Ends
  <1>14. ASSUME NEW c \in Caller, DecideReload(c) PROVE (AnswerDurable)'
    BY <1>14, ReloadedTypes DEF DecideReload, Ends, HasRefresh
  <1>15. ASSUME NEW c \in Caller, AdoptCopilotHosts(c) PROVE (AnswerDurable)'
    BY <1>15, ReloadedTypes DEF AdoptCopilotHosts, Ends
  <1>16. ASSUME NEW c \in Caller, PostLost(c) PROVE (AnswerDurable)'
    BY <1>16 DEF PostLost, Ends, TransportEnd
  <1>17. ASSUME NEW c \in Caller, VendorGrant(c) PROVE (AnswerDurable)'
    BY <1>17 DEF VendorGrant
  <1>18. ASSUME NEW c \in Caller, VendorRotated(c) PROVE (AnswerDurable)'
    BY <1>18 DEF VendorRotated
  <1>19. ASSUME NEW c \in Caller, VendorRefuse(c) PROVE (AnswerDurable)'
    BY <1>19 DEF VendorRefuse, Ends
  <1>20. ASSUME NEW c \in Caller, AdoptAfterReject(c) PROVE (AnswerDurable)'
    BY <1>20, ReloadedTypes DEF AdoptAfterReject, Ends
  <1>21. ASSUME NEW c \in Caller, AnswerLost(c) PROVE (AnswerDurable)'
    BY <1>21 DEF AnswerLost, Ends, TransportEnd
  <1>22. ASSUME NEW c \in Caller, Answer(c) PROVE (AnswerDurable)'
    BY <1>22 DEF Answer
  <1>23. ASSUME NEW c \in Caller, SaveLock(c) PROVE (AnswerDurable)'
    BY <1>23 DEF SaveLock
  <1>24. ASSUME NEW c \in Caller, SaveLockFail(c) PROVE (AnswerDurable)'
    BY <1>24 DEF SaveLockFail, Ends
  <1>25. ASSUME NEW c \in Caller, Save(c) PROVE (AnswerDurable)'
    BY <1>25 DEF Save, SavedRefresh
  <1>26. ASSUME NEW c \in Caller, SaveFail(c) PROVE (AnswerDurable)'
    BY <1>26 DEF SaveFail, Ends
  <1>27. ASSUME NEW c \in Caller, Saved(c) PROVE (AnswerDurable)'
    BY <1>27 DEF Saved, Ends
  <1>28. ASSUME NEW c \in Caller, Complete(c) PROVE (AnswerDurable)'
    BY <1>28 DEF Complete, Unlocked, Rearms
  <1>29. ASSUME NEW c \in Caller, Publish(c) PROVE (AnswerDurable)'
    BY <1>29 DEF Publish, Followers
  <1>30. CASE AgeStore
    BY <1>30 DEF AgeStore, CanRead
  <1>31. CASE Login
    BY <1>31 DEF Login
  <1>32. CASE Logout
    BY <1>32 DEF Logout, CanRead
  <1>33. CASE UNCHANGED vars
    BY <1>33 DEF vars
  <1> QED
    BY <1>1, <1>2, <1>3, <1>4, <1>5, <1>6, <1>7, <1>8, <1>9, <1>10, <1>11,
       <1>12, <1>13, <1>14, <1>15, <1>16, <1>17, <1>18, <1>19, <1>20,
       <1>21, <1>22, <1>23, <1>24, <1>25, <1>26, <1>27, <1>28, <1>29,
       <1>30, <1>31, <1>32, <1>33 DEF Next, Progress

\* The initial states satisfy the inductive invariant.
LEMMA InitEstablishes == Init => IInv
  <1> SUFFICES ASSUME Init PROVE IInv
    OBVIOUS
  <1> USE DEF Init
  <1>1. TypeOK
    <2>1. cached \in [Proc -> Cached]
      BY CachedTypes
    <2>2. store \in Store
      <3>1. PICK r \in {1, NoTok} :
              store = [file |-> TRUE, access |-> 1, refresh |-> r, old |-> FALSE]
        OBVIOUS
      <3>2. r \in MaybeTok /\ 1 \in MaybeTok
        OBVIOUS
      <3> QED
        BY <3>1, <3>2 DEF Store
    <2>3. reply \in [Caller -> Reply] /\ res \in [Caller -> Result]
      BY ReplyTypes, ResultTypes
    <2>4. cut \in BOOLEAN
      BY Zenon
    <2>5. /\ force \in [Proc -> BOOLEAN] /\ skip \in [Proc -> BOOLEAN]
          /\ forced \in [Caller -> BOOLEAN] /\ pc \in [Caller -> PCs]
          /\ slot \in [Proc -> Caller \cup {NoCaller}]
          /\ lead \in [Caller -> Caller \cup {NoCaller}]
      BY DEF PCs
    <2>6. /\ live \subseteq Tok /\ issued \in Tok /\ stored \subseteq MaybeTok
          /\ rt \in [Caller -> MaybeTok] /\ rejected \in [Caller -> MaybeTok]
      OBVIOUS
    <2> QED
      BY <2>1, <2>2, <2>3, <2>4, <2>5, <2>6 DEF TypeOK
  <1>2. SlotOwned /\ LockOwned
    BY DEF SlotOwned, LockOwned, Leading, Locked
  <1>3. CallsHaveProvider /\ NoPendingInRefresh
    BY DEF CallsHaveProvider, NoPendingInRefresh
  <1>4. MemoryRecorded /\ StoreRecorded
    BY DEF MemoryRecorded, StoreRecorded, NoProvider
  <1>5. AnswerDurable
    BY DEF AnswerDurable, NoRes
  <1> QED
    BY <1>1, <1>2, <1>3, <1>4, <1>5 DEF IInv

\* The inductive invariant holds in every reachable state.
THEOREM Invariance == Spec => []IInv
  <1>1. IInv /\ [Next]_vars => IInv'
    BY TypePreserved, OwnersPreserved, PendingPreserved, RecordedPreserved,
       DurablePreserved DEF IInv
  <1> QED
    BY InitEstablishes, <1>1, PTL DEF Spec

\* Every variable keeps its type, a refresh POST always carries a refresh
\* token, and an answer always an access token (Inner, do_refresh).
THEOREM TypeCorrect == Spec => []TypeOK
  <1>1. IInv => TypeOK
    BY DEF IInv
  <1> QED
    BY Invariance, <1>1, PTL

\* InFlight::claim and RefreshLeader::drop: one leader per provider, however
\* many calls are made, dropped or crashed.
THEOREM SingleLeader == Spec => []OneLeader
  <1>1. IInv => OneLeader
    BY DEF IInv, SlotOwned, OneLeader
  <1> QED
    BY Invariance, <1>1, PTL

\* try_acquire_refresh_lock: one leader at a time, over all processes, between
\* rereading the store and having written it.
THEOREM SingleWriter == Spec => []OneWriter
  <1>1. IInv => OneWriter
    BY DEF IInv, LockOwned, OneWriter
  <1> QED
    BY Invariance, <1>1, PTL

\* get_token never hands out a token that has not been in the store, whatever
\* fails: stale_save_error is returned instead.
THEOREM AnswersAreDurable == Spec => []AnswerDurable
  <1>1. IInv => AnswerDurable
    BY DEF IInv
  <1> QED
    BY Invariance, <1>1, PTL
=============================================================================
