--------------------------- MODULE TokenKeptProofs ---------------------------
(***************************************************************************)
(* What TokenRefresh keeps across failures: the session, the report of a   *)
(* refused token, and a forced refresh that is one.                        *)
(*                                                                         *)
(* All three rest on one fact about the store: every token is written to   *)
(* it once, so a token that has left it never comes back (NewUnseen), and  *)
(* what a call of a provider has seen is in the store only while memory    *)
(* holds it (StoreMovesOn).  A dropped future breaks it: the blocking      *)
(* rename goes on, the pending mark stays, and a later save puts the old   *)
(* token back.  So the theorems are about providers whose calls are not    *)
(* dropped.                                                                *)
(***************************************************************************)
EXTENDS TokenRefreshProofs

\* Memory holds a token the store has not seen.
Pending(p) == cached[p].unsaved /\ \A c \in Caller : ProcOf[c] = p => pc[c] # "saved"

\* The tokens a caller got, or reported as refused.
Seen(c) == {t \in MaybeTok : t # NoTok /\ (t = rejected[c] \/ (res[c].tag = "ok" /\ t = res[c].tok))}

\* The slot and a follower's channel name a call of the same provider.
SameProvider ==
  /\ \A p \in Proc : slot[p] # NoCaller => ProcOf[slot[p]] = p
  /\ \A c \in Caller : pc[c] = "follow" => lead[c] # NoCaller /\ ProcOf[lead[c]] = ProcOf[c]

\* Whoever is about to save has something to save, and the token POSTed is the held one.
LeaderHolds ==
  \A c \in Caller :
    /\ pc[c] \in {"savelock", "save", "saved"} => cached[ProcOf[c]].unsaved
    /\ pc[c] \in {"post", "answer"} => rt[c] = cached[ProcOf[c]].refresh
    /\ forced[c] => pc[c] \in Leading \ {"lead", "savelock"}

\* A grant is one token, and the vendor counts.
Counted ==
  /\ \A t \in stored : t # NoTok /\ t <= issued
  /\ \A p \in Proc : cached[p].access <= issued /\ (cached[p].unsaved => cached[p].access # NoTok)
  /\ \A c \in Caller : pc[c] = "answer" => reply[c].access <= issued

\* A new token is in one place until it is saved.
NewUnseen ==
  /\ \A p \in Proc : Pending(p) => cached[p].access \notin stored
  /\ \A p, q \in Proc : Pending(p) /\ Pending(q) /\ p # q => cached[p].access # cached[q].access
  /\ \A c \in Caller : pc[c] = "answer" =>
       /\ reply[c].access \notin stored
       /\ \A p \in Proc : Pending(p) => reply[c].access # cached[p].access

\* What a call has seen was in the store, and is there no more once memory moved on.
StoreMovesOn ==
  \A c \in Caller : \A t \in Seen(c) :
    /\ t \in stored
    /\ cached[ProcOf[c]].access # NoTok
    /\ t = store.access => cached[ProcOf[c]].access = t \/ Pending(ProcOf[c])

\* A token just saved is new to every call of its provider.
SavedUnseen ==
  \A c, d \in Caller :
    pc[c] = "saved" /\ ProcOf[d] = ProcOf[c] => cached[ProcOf[c]].access \notin Seen(d)

SeenInv == /\ IInv /\ SameProvider /\ LeaderHolds /\ Counted /\ NewUnseen
           /\ StoreMovesOn /\ SavedUnseen

\* A forced refresh that does not fail has replaced what was refused.
ForcedReplaces ==
  \A c, d \in Caller :
    pc[c] = "finish" /\ forced[c] /\ res[c].tag # "err" /\ ProcOf[d] = ProcOf[c] =>
      \/ rejected[d] = NoTok
      \/ rejected[d] # cached[ProcOf[c]].access
      \/ force[ProcOf[c]]

\* No call of the provider has the token a forced refresh ends with.
ForcedUnseen ==
  /\ \A p \in Proc : ~skip[p]
  /\ \A c, d \in Caller :
       pc[c] = "finish" /\ forced[c] /\ res[c].tag = "ok" /\ ProcOf[d] = ProcOf[c] =>
         /\ rejected[d] # res[c].tok
         /\ d # c => res[c].tok \notin Seen(d)

\* A vendor that always rotates names both tokens of a grant alike, and a refresh
\* token some other process may hold has been in the store.
Paired ==
  "keep" \notin Rotation =>
    /\ \A p \in Proc : IF cached[p].unsaved THEN cached[p].refresh = cached[p].access
                       ELSE cached[p].refresh \in stored \cup {NoTok}
    /\ \A c \in Caller : pc[c] = "answer" => reply[c].refresh = reply[c].access
    /\ store.refresh \in stored \cup {NoTok}

\* The refresh token an answer brings.
Brought(c) == IF reply[c].refresh # NoTok THEN reply[c].refresh ELSE rt[c]

\* What is on its way to the store is live, and something is unless the store is.
OnItsWay ==
  /\ \A p \in Proc : Pending(p) => cached[p].refresh \in live
  /\ \A c \in Caller : pc[c] = "answer" => Brought(c) \in live
  /\ \/ cut
     \/ store.refresh \in live
     \/ \E p \in Proc : Pending(p)
     \/ \E c \in Caller : pc[c] = "answer"
-----------------------------------------------------------------------------
USE ProcOfAssumption, NoCallerAssumption, MaxGrantAssumption
USE DEF NoTok, Tok, MaybeTok, provider, outside, local, history

\* Tokens are numbers.
LEMMA TokenNumbers ==
  ASSUME TypeOK
  PROVE  /\ issued \in Nat /\ store.access \in Nat /\ stored \subseteq Nat
         /\ \A p \in Proc : cached[p] \in Cached /\ cached[p].access \in Nat /\ cached[p].refresh \in Nat
         /\ \A c \in Caller : reply[c].access \in Nat /\ reply[c].refresh \in Nat /\ rt[c] \in Nat
         /\ \A c \in Caller : res[c].tok \in Nat /\ rejected[c] \in Nat
  <1>1. issued \in Nat /\ store.access \in Nat /\ stored \subseteq Nat
    <2>1. store \in Store /\ stored \subseteq MaybeTok /\ issued \in Tok
      BY DEF TypeOK
    <2>2. store.access \in MaybeTok
      BY <2>1, StoreTypes
    <2> QED
      BY <2>1, <2>2
  <1>2. \A p \in Proc : cached[p] \in Cached /\ cached[p].access \in Nat /\ cached[p].refresh \in Nat
    <2>1. \A p \in Proc : cached[p] \in Cached
      BY DEF TypeOK
    <2>2. \A p \in Proc : cached[p].access \in MaybeTok /\ cached[p].refresh \in MaybeTok
      BY <2>1, CachedTypes
    <2> QED
      BY <2>1, <2>2
  <1>3. \A c \in Caller : reply[c].access \in Nat /\ reply[c].refresh \in Nat /\ rt[c] \in Nat
    <2>1. \A c \in Caller : reply[c] \in Reply /\ rt[c] \in MaybeTok
      BY DEF TypeOK
    <2>2. \A c \in Caller : reply[c].access \in MaybeTok /\ reply[c].refresh \in MaybeTok
      BY <2>1, ReplyTypes
    <2> QED
      BY <2>1, <2>2
  <1>4. \A c \in Caller : res[c].tok \in Nat /\ rejected[c] \in Nat
    BY ResultTypes DEF TypeOK
  <1> QED
    BY <1>1, <1>2, <1>3, <1>4

\* A reload keeps what memory holds or adopts another token from the store.
LEMMA ReloadChoices ==
  ASSUME TypeOK, NEW p \in Proc, NEW now \in Reloaded(cached[p])
  PROVE  /\ now \in Cached
         /\ \/ now = cached[p]
            \/ /\ now.access = store.access /\ now.refresh = store.refresh /\ ~now.unsaved
               /\ store.access # NoTok /\ store.access # cached[p].access /\ ~cached[p].unsaved
  <1>1. now = cached[p] \/ (CanAdopt(cached[p]) /\ now = Adopted)
    BY DEF Reloaded
  <1>2. cached[p] \in Cached
    BY DEF TypeOK
  <1>3. Adopted.refresh = store.refresh
    BY DEF Adopted
  <1> QED
    BY <1>1, <1>2, <1>3, AdoptedTypes DEF CanAdopt, CanRead

\* Slot and channels stay within a provider.
LEMMA ProvidersKeepApart ==
  ASSUME IInv, "cancel" \notin Faults, SameProvider, [Next]_vars
  PROVE  SameProvider'
  <1> USE DEF IInv, TypeOK, SlotOwned, SameProvider, Leading
  <1>1. ASSUME NEW p \in Proc, Start(p) PROVE SameProvider'
    BY <1>1, AdoptedTypes DEF Start, Running, CanRead
  <1>2. ASSUME NEW p \in Proc, Age(p) PROVE SameProvider'
    BY <1>2 DEF Age, Running
  <1>3. ASSUME NEW p \in Proc, Wake(p) PROVE SameProvider'
    BY <1>3 DEF Wake, Running
  <1>4. ASSUME NEW p \in Proc, WithoutHttpRefresh(p) PROVE SameProvider'
    BY <1>4 DEF WithoutHttpRefresh, Running
  <1>5. ASSUME NEW p \in Proc, Crash(p) PROVE SameProvider'
    BY <1>5 DEF Crash, Running
  <1>6. ASSUME NEW c \in Caller, MarkStale(c) PROVE SameProvider'
    BY <1>6 DEF MarkStale
  <1>7. ASSUME NEW c \in Caller, GetToken(c) PROVE SameProvider'
    BY <1>7 DEF GetToken, Running, FastPath
  <1>8. ASSUME NEW c \in Caller, Cancel(c) PROVE SameProvider'
    BY <1>8 DEF Cancel
  <1>9. ASSUME NEW c \in Caller, Claim(c) PROVE SameProvider'
    BY <1>9 DEF Claim, Busy
  <1>10. ASSUME NEW c \in Caller, LeadStart(c) PROVE SameProvider'
    BY <1>10 DEF LeadStart
  <1>11. ASSUME NEW c \in Caller, LockAcquire(c) PROVE SameProvider'
    BY <1>11 DEF LockAcquire
  <1>12. ASSUME NEW c \in Caller, LockFail(c) PROVE SameProvider'
    BY <1>12 DEF LockFail, Ends
  <1>13. ASSUME NEW c \in Caller, DecideFresh(c) PROVE SameProvider'
    BY <1>13 DEF DecideFresh, Ends
  <1>14. ASSUME NEW c \in Caller, DecideReload(c) PROVE SameProvider'
    BY <1>14, ReloadedTypes DEF DecideReload, Ends, HasRefresh
  <1>15. ASSUME NEW c \in Caller, AdoptCopilotHosts(c) PROVE SameProvider'
    BY <1>15, ReloadedTypes DEF AdoptCopilotHosts, Ends
  <1>16. ASSUME NEW c \in Caller, PostLost(c) PROVE SameProvider'
    BY <1>16 DEF PostLost, Ends, TransportEnd
  <1>17. ASSUME NEW c \in Caller, VendorGrant(c) PROVE SameProvider'
    BY <1>17 DEF VendorGrant
  <1>18. ASSUME NEW c \in Caller, VendorRotated(c) PROVE SameProvider'
    BY <1>18 DEF VendorRotated
  <1>19. ASSUME NEW c \in Caller, VendorRefuse(c) PROVE SameProvider'
    BY <1>19 DEF VendorRefuse, Ends
  <1>20. ASSUME NEW c \in Caller, AdoptAfterReject(c) PROVE SameProvider'
    BY <1>20, ReloadedTypes DEF AdoptAfterReject, Ends
  <1>21. ASSUME NEW c \in Caller, AnswerLost(c) PROVE SameProvider'
    BY <1>21 DEF AnswerLost, Ends, TransportEnd
  <1>22. ASSUME NEW c \in Caller, Answer(c) PROVE SameProvider'
    BY <1>22 DEF Answer
  <1>23. ASSUME NEW c \in Caller, SaveLock(c) PROVE SameProvider'
    BY <1>23 DEF SaveLock
  <1>24. ASSUME NEW c \in Caller, SaveLockFail(c) PROVE SameProvider'
    BY <1>24 DEF SaveLockFail, Ends
  <1>25. ASSUME NEW c \in Caller, Save(c) PROVE SameProvider'
    BY <1>25 DEF Save, SavedRefresh
  <1>26. ASSUME NEW c \in Caller, SaveFail(c) PROVE SameProvider'
    BY <1>26 DEF SaveFail, Ends
  <1>27. ASSUME NEW c \in Caller, Saved(c) PROVE SameProvider'
    BY <1>27 DEF Saved, Ends
  <1>28. ASSUME NEW c \in Caller, Complete(c) PROVE SameProvider'
    BY <1>28 DEF Complete, Unlocked, Rearms
  <1>29. ASSUME NEW c \in Caller, Publish(c) PROVE SameProvider'
    BY <1>29 DEF Publish, Followers
  <1>30. CASE AgeStore
    BY <1>30 DEF AgeStore, CanRead
  <1>31. CASE Login
    BY <1>31 DEF Login
  <1>32. CASE Logout
    BY <1>32 DEF Logout, CanRead
  <1>33. CASE UNCHANGED vars
    BY <1>33 DEF vars
  <1> QED
    BY <1>1, <1>2, <1>3, <1>4, <1>5, <1>6, <1>7, <1>8, <1>9, <1>10, <1>11,
       <1>12, <1>13, <1>14, <1>15, <1>16, <1>17, <1>18, <1>19, <1>20, <1>21,
       <1>22, <1>23, <1>24, <1>25, <1>26, <1>27, <1>28, <1>29, <1>30, <1>31,
       <1>32, <1>33 DEF Next, Progress

\* Only the leader changes what it holds.
LEMMA LeadersKeepHold ==
  ASSUME IInv, "cancel" \notin Faults, LeaderHolds, [Next]_vars
  PROVE  LeaderHolds'
  <1> USE DEF IInv, TypeOK, SlotOwned, CallsHaveProvider, NoPendingInRefresh, LeaderHolds, Leading, NoProvider
  <1>1. ASSUME NEW p \in Proc, Start(p) PROVE LeaderHolds'
    BY <1>1, AdoptedTypes DEF Start, Running, CanRead
  <1>2. ASSUME NEW p \in Proc, Age(p) PROVE LeaderHolds'
    BY <1>2 DEF Age, Running
  <1>3. ASSUME NEW p \in Proc, Wake(p) PROVE LeaderHolds'
    BY <1>3 DEF Wake, Running
  <1>4. ASSUME NEW p \in Proc, WithoutHttpRefresh(p) PROVE LeaderHolds'
    BY <1>4 DEF WithoutHttpRefresh, Running
  <1>5. ASSUME NEW p \in Proc, Crash(p) PROVE LeaderHolds'
    BY <1>5 DEF Crash, Running
  <1>6. ASSUME NEW c \in Caller, MarkStale(c) PROVE LeaderHolds'
    BY <1>6 DEF MarkStale
  <1>7. ASSUME NEW c \in Caller, GetToken(c) PROVE LeaderHolds'
    BY <1>7 DEF GetToken, Running, FastPath
  <1>8. ASSUME NEW c \in Caller, Cancel(c) PROVE LeaderHolds'
    BY <1>8 DEF Cancel
  <1>9. ASSUME NEW c \in Caller, Claim(c) PROVE LeaderHolds'
    BY <1>9 DEF Claim, Busy
  <1>10. ASSUME NEW c \in Caller, LeadStart(c) PROVE LeaderHolds'
    BY <1>10 DEF LeadStart
  <1>11. ASSUME NEW c \in Caller, LockAcquire(c) PROVE LeaderHolds'
    BY <1>11 DEF LockAcquire
  <1>12. ASSUME NEW c \in Caller, LockFail(c) PROVE LeaderHolds'
    BY <1>12 DEF LockFail, Ends
  <1>13. ASSUME NEW c \in Caller, DecideFresh(c) PROVE LeaderHolds'
    BY <1>13 DEF DecideFresh, Ends
  <1>14. ASSUME NEW c \in Caller, DecideReload(c) PROVE LeaderHolds'
    BY <1>14, ReloadedTypes DEF DecideReload, Ends, HasRefresh
  <1>15. ASSUME NEW c \in Caller, AdoptCopilotHosts(c) PROVE LeaderHolds'
    BY <1>15, ReloadedTypes DEF AdoptCopilotHosts, Ends
  <1>16. ASSUME NEW c \in Caller, PostLost(c) PROVE LeaderHolds'
    BY <1>16 DEF PostLost, Ends, TransportEnd
  <1>17. ASSUME NEW c \in Caller, VendorGrant(c) PROVE LeaderHolds'
    BY <1>17 DEF VendorGrant
  <1>18. ASSUME NEW c \in Caller, VendorRotated(c) PROVE LeaderHolds'
    BY <1>18 DEF VendorRotated
  <1>19. ASSUME NEW c \in Caller, VendorRefuse(c) PROVE LeaderHolds'
    BY <1>19 DEF VendorRefuse, Ends
  <1>20. ASSUME NEW c \in Caller, AdoptAfterReject(c) PROVE LeaderHolds'
    BY <1>20, ReloadedTypes DEF AdoptAfterReject, Ends
  <1>21. ASSUME NEW c \in Caller, AnswerLost(c) PROVE LeaderHolds'
    BY <1>21 DEF AnswerLost, Ends, TransportEnd
  <1>22. ASSUME NEW c \in Caller, Answer(c) PROVE LeaderHolds'
    BY <1>22 DEF Answer
  <1>23. ASSUME NEW c \in Caller, SaveLock(c) PROVE LeaderHolds'
    BY <1>23 DEF SaveLock
  <1>24. ASSUME NEW c \in Caller, SaveLockFail(c) PROVE LeaderHolds'
    BY <1>24 DEF SaveLockFail, Ends
  <1>25. ASSUME NEW c \in Caller, Save(c) PROVE LeaderHolds'
    BY <1>25 DEF Save, SavedRefresh
  <1>26. ASSUME NEW c \in Caller, SaveFail(c) PROVE LeaderHolds'
    BY <1>26 DEF SaveFail, Ends
  <1>27. ASSUME NEW c \in Caller, Saved(c) PROVE LeaderHolds'
    BY <1>27 DEF Saved, Ends
  <1>28. ASSUME NEW c \in Caller, Complete(c) PROVE LeaderHolds'
    BY <1>28 DEF Complete, Unlocked, Rearms
  <1>29. ASSUME NEW c \in Caller, Publish(c) PROVE LeaderHolds'
    BY <1>29 DEF Publish, Followers
  <1>30. CASE AgeStore
    BY <1>30 DEF AgeStore, CanRead
  <1>31. CASE Login
    BY <1>31 DEF Login
  <1>32. CASE Logout
    BY <1>32 DEF Logout, CanRead
  <1>33. CASE UNCHANGED vars
    BY <1>33 DEF vars
  <1> QED
    BY <1>1, <1>2, <1>3, <1>4, <1>5, <1>6, <1>7, <1>8, <1>9, <1>10, <1>11,
       <1>12, <1>13, <1>14, <1>15, <1>16, <1>17, <1>18, <1>19, <1>20, <1>21,
       <1>22, <1>23, <1>24, <1>25, <1>26, <1>27, <1>28, <1>29, <1>30, <1>31,
       <1>32, <1>33 DEF Next, Progress

\* Every token has been granted.
LEMMA TokensCounted ==
  ASSUME IInv, "cancel" \notin Faults, Counted, [Next]_vars
  PROVE  Counted'
  <1> USE DEF IInv, TypeOK, SlotOwned, StoreRecorded, CallsHaveProvider, Counted, Leading, NoProvider, NoReply
  <1>1. ASSUME NEW p \in Proc, Start(p) PROVE Counted'
    BY <1>1, AdoptedTypes DEF Start, Running, CanRead
  <1>2. ASSUME NEW p \in Proc, Age(p) PROVE Counted'
    BY <1>2 DEF Age, Running
  <1>3. ASSUME NEW p \in Proc, Wake(p) PROVE Counted'
    BY <1>3 DEF Wake, Running
  <1>4. ASSUME NEW p \in Proc, WithoutHttpRefresh(p) PROVE Counted'
    BY <1>4 DEF WithoutHttpRefresh, Running
  <1>5. ASSUME NEW p \in Proc, Crash(p) PROVE Counted'
    BY <1>5 DEF Crash, Running
  <1>6. ASSUME NEW c \in Caller, MarkStale(c) PROVE Counted'
    BY <1>6 DEF MarkStale
  <1>7. ASSUME NEW c \in Caller, GetToken(c) PROVE Counted'
    BY <1>7 DEF GetToken, Running, FastPath
  <1>8. ASSUME NEW c \in Caller, Cancel(c) PROVE Counted'
    BY <1>8 DEF Cancel
  <1>9. ASSUME NEW c \in Caller, Claim(c) PROVE Counted'
    BY <1>9 DEF Claim, Busy
  <1>10. ASSUME NEW c \in Caller, LeadStart(c) PROVE Counted'
    BY <1>10 DEF LeadStart
  <1>11. ASSUME NEW c \in Caller, LockAcquire(c) PROVE Counted'
    BY <1>11 DEF LockAcquire
  <1>12. ASSUME NEW c \in Caller, LockFail(c) PROVE Counted'
    BY <1>12 DEF LockFail, Ends
  <1>13. ASSUME NEW c \in Caller, DecideFresh(c) PROVE Counted'
    BY <1>13 DEF DecideFresh, Ends
  <1>14. ASSUME NEW c \in Caller, DecideReload(c) PROVE Counted'
    <2>1. PICK now \in Reloaded(cached[ProcOf[c]]) : cached' = [cached EXCEPT ![ProcOf[c]] = now]
      BY <1>14 DEF DecideReload
    <2>2. now = cached[ProcOf[c]] \/ (now.access \in stored /\ ~now.unsaved)
      BY ReloadChoices
    <2>3. UNCHANGED <<stored, issued, reply>> /\ \A d \in Caller : pc'[d] = "answer" => pc[d] = "answer"
      BY <1>14 DEF DecideReload, Ends
    <2> QED
      BY <2>1, <2>2, <2>3
  <1>15. ASSUME NEW c \in Caller, AdoptCopilotHosts(c) PROVE Counted'
    <2>1. PICK now \in Reloaded(cached[ProcOf[c]]) : cached' = [cached EXCEPT ![ProcOf[c]] = now]
      BY <1>15 DEF AdoptCopilotHosts
    <2>2. now = cached[ProcOf[c]] \/ (now.access \in stored /\ ~now.unsaved)
      BY ReloadChoices
    <2>3. UNCHANGED <<stored, issued, reply>> /\ \A d \in Caller : pc'[d] = "answer" => pc[d] = "answer"
      BY <1>15 DEF AdoptCopilotHosts, Ends
    <2> QED
      BY <2>1, <2>2, <2>3
  <1>16. ASSUME NEW c \in Caller, PostLost(c) PROVE Counted'
    BY <1>16 DEF PostLost, Ends, TransportEnd
  <1>17. ASSUME NEW c \in Caller, VendorGrant(c) PROVE Counted'
    BY <1>17, TokenNumbers DEF VendorGrant
  <1>18. ASSUME NEW c \in Caller, VendorRotated(c) PROVE Counted'
    BY <1>18 DEF VendorRotated
  <1>19. ASSUME NEW c \in Caller, VendorRefuse(c) PROVE Counted'
    BY <1>19 DEF VendorRefuse, Ends
  <1>20. ASSUME NEW c \in Caller, AdoptAfterReject(c) PROVE Counted'
    <2>1. PICK now \in Reloaded(cached[ProcOf[c]]) : cached' = [cached EXCEPT ![ProcOf[c]] = now]
      BY <1>20 DEF AdoptAfterReject
    <2>2. now = cached[ProcOf[c]] \/ (now.access \in stored /\ ~now.unsaved)
      BY ReloadChoices
    <2>3. UNCHANGED <<stored, issued, reply>> /\ \A d \in Caller : pc'[d] = "answer" => pc[d] = "answer"
      BY <1>20 DEF AdoptAfterReject, Ends
    <2> QED
      BY <2>1, <2>2, <2>3
  <1>21. ASSUME NEW c \in Caller, AnswerLost(c) PROVE Counted'
    BY <1>21 DEF AnswerLost, Ends, TransportEnd
  <1>22. ASSUME NEW c \in Caller, Answer(c) PROVE Counted'
    BY <1>22 DEF Answer
  <1>23. ASSUME NEW c \in Caller, SaveLock(c) PROVE Counted'
    BY <1>23 DEF SaveLock
  <1>24. ASSUME NEW c \in Caller, SaveLockFail(c) PROVE Counted'
    BY <1>24 DEF SaveLockFail, Ends
  <1>25. ASSUME NEW c \in Caller, Save(c) PROVE Counted'
    BY <1>25 DEF Save, SavedRefresh
  <1>26. ASSUME NEW c \in Caller, SaveFail(c) PROVE Counted'
    BY <1>26 DEF SaveFail, Ends
  <1>27. ASSUME NEW c \in Caller, Saved(c) PROVE Counted'
    BY <1>27 DEF Saved, Ends
  <1>28. ASSUME NEW c \in Caller, Complete(c) PROVE Counted'
    BY <1>28 DEF Complete, Unlocked, Rearms
  <1>29. ASSUME NEW c \in Caller, Publish(c) PROVE Counted'
    BY <1>29 DEF Publish, Followers
  <1>30. CASE AgeStore
    BY <1>30 DEF AgeStore, CanRead
  <1>31. CASE Login
    BY <1>31, TokenNumbers DEF Login
  <1>32. CASE Logout
    BY <1>32 DEF Logout, CanRead
  <1>33. CASE UNCHANGED vars
    BY <1>33 DEF vars
  <1> QED
    BY <1>1, <1>2, <1>3, <1>4, <1>5, <1>6, <1>7, <1>8, <1>9, <1>10, <1>11,
       <1>12, <1>13, <1>14, <1>15, <1>16, <1>17, <1>18, <1>19, <1>20, <1>21,
       <1>22, <1>23, <1>24, <1>25, <1>26, <1>27, <1>28, <1>29, <1>30, <1>31,
       <1>32, <1>33 DEF Next, Progress

\* Until it is saved, a new token is in one place.
LEMMA NewStaysUnseen ==
  ASSUME IInv, "cancel" \notin Faults, LeaderHolds, Counted, NewUnseen, [Next]_vars
  PROVE  NewUnseen'
  <1> USE DEF IInv, TypeOK, SlotOwned, LockOwned, Locked, StoreRecorded, NoPendingInRefresh, LeaderHolds, Counted, NewUnseen, Pending, Leading, NoProvider, NoReply
  <1>1. ASSUME NEW p \in Proc, Start(p) PROVE NewUnseen'
    BY <1>1, AdoptedTypes DEF Start, Running, CanRead
  <1>2. ASSUME NEW p \in Proc, Age(p) PROVE NewUnseen'
    BY <1>2 DEF Age, Running
  <1>3. ASSUME NEW p \in Proc, Wake(p) PROVE NewUnseen'
    BY <1>3 DEF Wake, Running
  <1>4. ASSUME NEW p \in Proc, WithoutHttpRefresh(p) PROVE NewUnseen'
    BY <1>4 DEF WithoutHttpRefresh, Running
  <1>5. ASSUME NEW p \in Proc, Crash(p) PROVE NewUnseen'
    <2>1. \A d \in Caller : ProcOf[d] # p => pc'[d] = pc[d] /\ reply'[d] = reply[d]
      BY <1>5 DEF Crash
    <2>2. stored' = stored /\ \A d \in Caller : ProcOf[d] = p => pc'[d] = "idle"
      BY <1>5 DEF Crash
    <2>3. ~cached'[p].unsaved /\ \A q \in Proc : q # p => cached'[q] = cached[q]
      BY <1>5 DEF Crash
    <2>4. \A q \in Proc : Pending(q)' => Pending(q) /\ cached'[q] = cached[q]
      BY <2>1, <2>2, <2>3
    <2> HIDE DEF Pending
    <2> QED
      BY <2>1, <2>2, <2>4
  <1>6. ASSUME NEW c \in Caller, MarkStale(c) PROVE NewUnseen'
    BY <1>6 DEF MarkStale
  <1>7. ASSUME NEW c \in Caller, GetToken(c) PROVE NewUnseen'
    BY <1>7 DEF GetToken, Running, FastPath
  <1>8. ASSUME NEW c \in Caller, Cancel(c) PROVE NewUnseen'
    BY <1>8 DEF Cancel
  <1>9. ASSUME NEW c \in Caller, Claim(c) PROVE NewUnseen'
    <2>1. /\ UNCHANGED <<cached, stored, reply>>
          /\ \A d \in Caller : \A a \in {"saved", "answer"} : pc'[d] = a <=> pc[d] = a
      BY <1>9 DEF Claim
    <2> QED
      BY <2>1
  <1>10. ASSUME NEW c \in Caller, LeadStart(c) PROVE NewUnseen'
    <2>1. /\ UNCHANGED <<cached, stored, reply>>
          /\ \A d \in Caller : \A a \in {"saved", "answer"} : pc'[d] = a <=> pc[d] = a
      BY <1>10 DEF LeadStart
    <2> QED
      BY <2>1
  <1>11. ASSUME NEW c \in Caller, LockAcquire(c) PROVE NewUnseen'
    BY <1>11 DEF LockAcquire
  <1>12. ASSUME NEW c \in Caller, LockFail(c) PROVE NewUnseen'
    BY <1>12 DEF LockFail, Ends
  <1>13. ASSUME NEW c \in Caller, DecideFresh(c) PROVE NewUnseen'
    BY <1>13 DEF DecideFresh, Ends
  <1>14. ASSUME NEW c \in Caller, DecideReload(c) PROVE NewUnseen'
    <2>1. PICK now \in Reloaded(cached[ProcOf[c]]) : cached' = [cached EXCEPT ![ProcOf[c]] = now]
      BY <1>14 DEF DecideReload
    <2>2. ~now.unsaved
      BY <1>14, ReloadChoices DEF DecideReload
    <2>3. /\ UNCHANGED <<stored, reply>>
          /\ \A d \in Caller : \A a \in {"saved", "answer"} : pc'[d] = a <=> pc[d] = a
      BY <1>14 DEF DecideReload, Ends
    <2>4. \A q \in Proc : Pending(q)' => Pending(q) /\ cached'[q] = cached[q]
      BY <2>1, <2>2, <2>3
    <2> HIDE DEF Pending
    <2> QED
      BY <2>3, <2>4
  <1>15. ASSUME NEW c \in Caller, AdoptCopilotHosts(c) PROVE NewUnseen'
    BY <1>15, ReloadedTypes DEF AdoptCopilotHosts, Ends
  <1>16. ASSUME NEW c \in Caller, PostLost(c) PROVE NewUnseen'
    BY <1>16 DEF PostLost, Ends, TransportEnd
  <1>17. ASSUME NEW c \in Caller, VendorGrant(c) PROVE NewUnseen'
    BY <1>17, TokenNumbers DEF VendorGrant
  <1>18. ASSUME NEW c \in Caller, VendorRotated(c) PROVE NewUnseen'
    BY <1>18 DEF VendorRotated
  <1>19. ASSUME NEW c \in Caller, VendorRefuse(c) PROVE NewUnseen'
    BY <1>19 DEF VendorRefuse, Ends
  <1>20. ASSUME NEW c \in Caller, AdoptAfterReject(c) PROVE NewUnseen'
    BY <1>20, ReloadedTypes DEF AdoptAfterReject, Ends
  <1>21. ASSUME NEW c \in Caller, AnswerLost(c) PROVE NewUnseen'
    BY <1>21 DEF AnswerLost, Ends, TransportEnd
  <1>22. ASSUME NEW c \in Caller, Answer(c) PROVE NewUnseen'
    BY <1>22 DEF Answer
  <1>23. ASSUME NEW c \in Caller, SaveLock(c) PROVE NewUnseen'
    BY <1>23 DEF SaveLock
  <1>24. ASSUME NEW c \in Caller, SaveLockFail(c) PROVE NewUnseen'
    BY <1>24 DEF SaveLockFail, Ends
  <1>25. ASSUME NEW c \in Caller, Save(c) PROVE NewUnseen'
    <2> DEFINE p == ProcOf[c]
    <2>1. pc[c] = "save" /\ pc' = [pc EXCEPT ![c] = "saved"]
          /\ UNCHANGED <<cached, reply>> /\ stored' = stored \cup {cached[p].access}
      BY <1>25 DEF Save
    <2>2. Pending(p) /\ \A d \in Caller : pc'[d] # "answer"
      BY <2>1
    <2>3. ~Pending(p)' /\ \A q \in Proc : Pending(q)' => Pending(q)
      BY <2>1
    <2> HIDE DEF Pending, p
    <2>4. p \in Proc
      BY DEF p
    <2> QED
      BY <2>1, <2>2, <2>3, <2>4
  <1>26. ASSUME NEW c \in Caller, SaveFail(c) PROVE NewUnseen'
    BY <1>26 DEF SaveFail, Ends
  <1>27. ASSUME NEW c \in Caller, Saved(c) PROVE NewUnseen'
    BY <1>27 DEF Saved, Ends
  <1>28. ASSUME NEW c \in Caller, Complete(c) PROVE NewUnseen'
    BY <1>28 DEF Complete, Unlocked, Rearms
  <1>29. ASSUME NEW c \in Caller, Publish(c) PROVE NewUnseen'
    BY <1>29 DEF Publish, Followers
  <1>30. CASE AgeStore
    BY <1>30 DEF AgeStore, CanRead
  <1>31. CASE Login
    BY <1>31, TokenNumbers DEF Login
  <1>32. CASE Logout
    BY <1>32 DEF Logout, CanRead
  <1>33. CASE UNCHANGED vars
    BY <1>33 DEF vars
  <1> QED
    BY <1>1, <1>2, <1>3, <1>4, <1>5, <1>6, <1>7, <1>8, <1>9, <1>10, <1>11,
       <1>12, <1>13, <1>14, <1>15, <1>16, <1>17, <1>18, <1>19, <1>20, <1>21,
       <1>22, <1>23, <1>24, <1>25, <1>26, <1>27, <1>28, <1>29, <1>30, <1>31,
       <1>32, <1>33 DEF Next, Progress

\* What has left memory has left the store.
LEMMA StoreKeepsMovingOn ==
  ASSUME IInv, "cancel" \notin Faults, SameProvider, LeaderHolds, Counted, NewUnseen, StoreMovesOn, [Next]_vars
  PROVE  StoreMovesOn'
  <1> USE DEF IInv, TypeOK, SlotOwned, NoPendingInRefresh, CallsHaveProvider, MemoryRecorded, StoreRecorded, SameProvider, LeaderHolds, NewUnseen, StoreMovesOn, Pending, Seen, Leading, NoProvider, Ok, NoRes, Err, Stale
  <1>1. ASSUME NEW p \in Proc, Start(p) PROVE StoreMovesOn'
    BY <1>1, AdoptedTypes DEF Start, Running, CanRead
  <1>2. ASSUME NEW p \in Proc, Age(p) PROVE StoreMovesOn'
    BY <1>2 DEF Age, Running
  <1>3. ASSUME NEW p \in Proc, Wake(p) PROVE StoreMovesOn'
    BY <1>3 DEF Wake, Running
  <1>4. ASSUME NEW p \in Proc, WithoutHttpRefresh(p) PROVE StoreMovesOn'
    BY <1>4 DEF WithoutHttpRefresh, Running
  <1>5. ASSUME NEW p \in Proc, Crash(p) PROVE StoreMovesOn'
    BY <1>5 DEF Crash, Running
  <1>6. ASSUME NEW c \in Caller, MarkStale(c) PROVE StoreMovesOn'
    BY <1>6 DEF MarkStale
  <1>7. ASSUME NEW c \in Caller, GetToken(c) PROVE StoreMovesOn'
    BY <1>7 DEF GetToken, Running, FastPath
  <1>8. ASSUME NEW c \in Caller, Cancel(c) PROVE StoreMovesOn'
    BY <1>8 DEF Cancel
  <1>9. ASSUME NEW c \in Caller, Claim(c) PROVE StoreMovesOn'
    BY <1>9 DEF Claim, Busy
  <1>10. ASSUME NEW c \in Caller, LeadStart(c) PROVE StoreMovesOn'
    BY <1>10 DEF LeadStart
  <1>11. ASSUME NEW c \in Caller, LockAcquire(c) PROVE StoreMovesOn'
    BY <1>11 DEF LockAcquire
  <1>12. ASSUME NEW c \in Caller, LockFail(c) PROVE StoreMovesOn'
    BY <1>12 DEF LockFail, Ends
  <1>13. ASSUME NEW c \in Caller, DecideFresh(c) PROVE StoreMovesOn'
    BY <1>13 DEF DecideFresh, Ends
  <1>14. ASSUME NEW c \in Caller, DecideReload(c) PROVE StoreMovesOn'
    <2> DEFINE p == ProcOf[c]
    <2>1. PICK now \in Reloaded(cached[p]) :
            /\ cached' = [cached EXCEPT ![p] = now]
            /\ \/ res' = [res EXCEPT ![c] = Ok(now.access)]
               \/ res' = [res EXCEPT ![c] = Err]
               \/ res' = res
      BY <1>14 DEF DecideReload, Ends
    <2>2. /\ UNCHANGED <<store, stored, rejected>>
          /\ \A d \in Caller : pc'[d] = "saved" <=> pc[d] = "saved"
      BY <1>14 DEF DecideReload, Ends
    <2>3. ~cached[p].unsaved /\ cached[p].access # NoTok /\ ~now.unsaved
          /\ now.access # NoTok /\ now.access \in stored
          /\ now.access \in {cached[p].access, store.access}
      <3>1. pc[c] = "decide" /\ ~cached[p].unsaved
        BY <1>14 DEF DecideReload
      <3>2. cached[p].access # NoTok /\ cached[p].access \in stored
        BY <3>1
      <3>3. \/ now = cached[p]
            \/ now.access = store.access /\ ~now.unsaved /\ store.access # NoTok
        BY ReloadChoices
      <3> HIDE DEF Pending, Seen
      <3> QED
        BY <3>1, <3>2, <3>3
    <2>4. \A d \in Caller : \A t \in Seen(d)' : t \in Seen(d) \/ (d = c /\ t = now.access)
      BY <2>1, <2>2
    <2>5. \A q \in Proc : q # p => cached'[q] = cached[q] /\ (Pending(q)' <=> Pending(q))
      BY <2>1, <2>2
    <2>6. cached'[p].access = now.access /\ ~Pending(p)
      BY <2>1, <2>3
    <2> HIDE DEF Seen, Pending
    <2> QED
      BY <2>2, <2>3, <2>4, <2>5, <2>6
  <1>15. ASSUME NEW c \in Caller, AdoptCopilotHosts(c) PROVE StoreMovesOn'
    BY <1>15, ReloadedTypes DEF AdoptCopilotHosts, Ends
  <1>16. ASSUME NEW c \in Caller, PostLost(c) PROVE StoreMovesOn'
    BY <1>16 DEF PostLost, Ends, TransportEnd
  <1>17. ASSUME NEW c \in Caller, VendorGrant(c) PROVE StoreMovesOn'
    BY <1>17, TokenNumbers DEF VendorGrant
  <1>18. ASSUME NEW c \in Caller, VendorRotated(c) PROVE StoreMovesOn'
    BY <1>18 DEF VendorRotated
  <1>19. ASSUME NEW c \in Caller, VendorRefuse(c) PROVE StoreMovesOn'
    BY <1>19 DEF VendorRefuse, Ends
  <1>20. ASSUME NEW c \in Caller, AdoptAfterReject(c) PROVE StoreMovesOn'
    BY <1>20, ReloadedTypes DEF AdoptAfterReject, Ends
  <1>21. ASSUME NEW c \in Caller, AnswerLost(c) PROVE StoreMovesOn'
    BY <1>21 DEF AnswerLost, Ends, TransportEnd
  <1>22. ASSUME NEW c \in Caller, Answer(c) PROVE StoreMovesOn'
    BY <1>22 DEF Answer
  <1>23. ASSUME NEW c \in Caller, SaveLock(c) PROVE StoreMovesOn'
    BY <1>23 DEF SaveLock
  <1>24. ASSUME NEW c \in Caller, SaveLockFail(c) PROVE StoreMovesOn'
    BY <1>24 DEF SaveLockFail, Ends
  <1>25. ASSUME NEW c \in Caller, Save(c) PROVE StoreMovesOn'
    BY <1>25 DEF Save, SavedRefresh
  <1>26. ASSUME NEW c \in Caller, SaveFail(c) PROVE StoreMovesOn'
    BY <1>26 DEF SaveFail, Ends
  <1>27. ASSUME NEW c \in Caller, Saved(c) PROVE StoreMovesOn'
    BY <1>27 DEF Saved, Ends
  <1>28. ASSUME NEW c \in Caller, Complete(c) PROVE StoreMovesOn'
    BY <1>28 DEF Complete, Unlocked, Rearms
  <1>29. ASSUME NEW c \in Caller, Publish(c) PROVE StoreMovesOn'
    BY <1>29 DEF Publish, Followers
  <1>30. CASE AgeStore
    BY <1>30 DEF AgeStore, CanRead
  <1>31. CASE Login
    BY <1>31, TokenNumbers DEF Login, Counted
  <1>32. CASE Logout
    BY <1>32 DEF Logout, CanRead
  <1>33. CASE UNCHANGED vars
    BY <1>33 DEF vars
  <1> QED
    BY <1>1, <1>2, <1>3, <1>4, <1>5, <1>6, <1>7, <1>8, <1>9, <1>10, <1>11,
       <1>12, <1>13, <1>14, <1>15, <1>16, <1>17, <1>18, <1>19, <1>20, <1>21,
       <1>22, <1>23, <1>24, <1>25, <1>26, <1>27, <1>28, <1>29, <1>30, <1>31,
       <1>32, <1>33 DEF Next, Progress

\* Nobody gets a token before its save is complete.
LEMMA SavedStaysUnseen ==
  ASSUME IInv, "cancel" \notin Faults, SameProvider, LeaderHolds, Counted, NewUnseen, StoreMovesOn, SavedUnseen, [Next]_vars
  PROVE  SavedUnseen'
  <1> USE DEF IInv, TypeOK, SlotOwned, NoPendingInRefresh, CallsHaveProvider, MemoryRecorded, StoreRecorded, SameProvider, LeaderHolds, NewUnseen, StoreMovesOn, Pending, Seen, Leading, NoProvider, Ok, NoRes, Err, Stale, SavedUnseen
  <1>1. ASSUME NEW p \in Proc, Start(p) PROVE SavedUnseen'
    BY <1>1, AdoptedTypes DEF Start, Running, CanRead
  <1>2. ASSUME NEW p \in Proc, Age(p) PROVE SavedUnseen'
    BY <1>2 DEF Age, Running
  <1>3. ASSUME NEW p \in Proc, Wake(p) PROVE SavedUnseen'
    BY <1>3 DEF Wake, Running
  <1>4. ASSUME NEW p \in Proc, WithoutHttpRefresh(p) PROVE SavedUnseen'
    BY <1>4 DEF WithoutHttpRefresh, Running
  <1>5. ASSUME NEW p \in Proc, Crash(p) PROVE SavedUnseen'
    BY <1>5 DEF Crash, Running
  <1>6. ASSUME NEW c \in Caller, MarkStale(c) PROVE SavedUnseen'
    BY <1>6 DEF MarkStale
  <1>7. ASSUME NEW c \in Caller, GetToken(c) PROVE SavedUnseen'
    BY <1>7 DEF GetToken, Running, FastPath
  <1>8. ASSUME NEW c \in Caller, Cancel(c) PROVE SavedUnseen'
    BY <1>8 DEF Cancel
  <1>9. ASSUME NEW c \in Caller, Claim(c) PROVE SavedUnseen'
    BY <1>9 DEF Claim, Busy
  <1>10. ASSUME NEW c \in Caller, LeadStart(c) PROVE SavedUnseen'
    BY <1>10 DEF LeadStart
  <1>11. ASSUME NEW c \in Caller, LockAcquire(c) PROVE SavedUnseen'
    BY <1>11 DEF LockAcquire
  <1>12. ASSUME NEW c \in Caller, LockFail(c) PROVE SavedUnseen'
    BY <1>12 DEF LockFail, Ends
  <1>13. ASSUME NEW c \in Caller, DecideFresh(c) PROVE SavedUnseen'
    BY <1>13 DEF DecideFresh, Ends
  <1>14. ASSUME NEW c \in Caller, DecideReload(c) PROVE SavedUnseen'
    BY <1>14, ReloadedTypes DEF DecideReload, Ends, HasRefresh
  <1>15. ASSUME NEW c \in Caller, AdoptCopilotHosts(c) PROVE SavedUnseen'
    BY <1>15, ReloadedTypes DEF AdoptCopilotHosts, Ends
  <1>16. ASSUME NEW c \in Caller, PostLost(c) PROVE SavedUnseen'
    BY <1>16 DEF PostLost, Ends, TransportEnd
  <1>17. ASSUME NEW c \in Caller, VendorGrant(c) PROVE SavedUnseen'
    BY <1>17 DEF VendorGrant
  <1>18. ASSUME NEW c \in Caller, VendorRotated(c) PROVE SavedUnseen'
    BY <1>18 DEF VendorRotated
  <1>19. ASSUME NEW c \in Caller, VendorRefuse(c) PROVE SavedUnseen'
    BY <1>19 DEF VendorRefuse, Ends
  <1>20. ASSUME NEW c \in Caller, AdoptAfterReject(c) PROVE SavedUnseen'
    BY <1>20, ReloadedTypes DEF AdoptAfterReject, Ends
  <1>21. ASSUME NEW c \in Caller, AnswerLost(c) PROVE SavedUnseen'
    BY <1>21 DEF AnswerLost, Ends, TransportEnd
  <1>22. ASSUME NEW c \in Caller, Answer(c) PROVE SavedUnseen'
    BY <1>22 DEF Answer
  <1>23. ASSUME NEW c \in Caller, SaveLock(c) PROVE SavedUnseen'
    BY <1>23 DEF SaveLock
  <1>24. ASSUME NEW c \in Caller, SaveLockFail(c) PROVE SavedUnseen'
    BY <1>24 DEF SaveLockFail, Ends
  <1>25. ASSUME NEW c \in Caller, Save(c) PROVE SavedUnseen'
    BY <1>25 DEF Save, SavedRefresh
  <1>26. ASSUME NEW c \in Caller, SaveFail(c) PROVE SavedUnseen'
    BY <1>26 DEF SaveFail, Ends
  <1>27. ASSUME NEW c \in Caller, Saved(c) PROVE SavedUnseen'
    BY <1>27 DEF Saved, Ends
  <1>28. ASSUME NEW c \in Caller, Complete(c) PROVE SavedUnseen'
    BY <1>28 DEF Complete, Unlocked, Rearms
  <1>29. ASSUME NEW c \in Caller, Publish(c) PROVE SavedUnseen'
    BY <1>29 DEF Publish, Followers
  <1>30. CASE AgeStore
    BY <1>30 DEF AgeStore, CanRead
  <1>31. CASE Login
    BY <1>31 DEF Login
  <1>32. CASE Logout
    BY <1>32 DEF Logout, CanRead
  <1>33. CASE UNCHANGED vars
    BY <1>33 DEF vars
  <1> QED
    BY <1>1, <1>2, <1>3, <1>4, <1>5, <1>6, <1>7, <1>8, <1>9, <1>10, <1>11,
       <1>12, <1>13, <1>14, <1>15, <1>16, <1>17, <1>18, <1>19, <1>20, <1>21,
       <1>22, <1>23, <1>24, <1>25, <1>26, <1>27, <1>28, <1>29, <1>30, <1>31,
       <1>32, <1>33 DEF Next, Progress

\* What a reload adopts is new to every call of the provider.
LEMMA AdoptedUnseen ==
  ASSUME SeenInv, NEW c \in Caller, pc[c] \in {"decide", "reject"}, NEW now \in Reloaded(cached[ProcOf[c]])
  PROVE  /\ now \in Cached /\ ~cached[ProcOf[c]].unsaved /\ ~now.unsaved /\ now.access # NoTok
         /\ \/ now = cached[ProcOf[c]]
            \/ /\ now # cached[ProcOf[c]] /\ now.access = store.access /\ now.refresh = store.refresh
               /\ \A d \in Caller : ProcOf[d] = ProcOf[c] => now.access \notin Seen(d)
  <1>1. ~cached[ProcOf[c]].unsaved /\ cached[ProcOf[c]].access # NoTok /\ ~Pending(ProcOf[c])
    BY DEF SeenInv, IInv, NoPendingInRefresh, CallsHaveProvider, Pending
  <1>2. /\ now \in Cached
        /\ \/ now = cached[ProcOf[c]]
           \/ /\ now.access = store.access /\ now.refresh = store.refresh /\ ~now.unsaved
              /\ store.access # NoTok /\ store.access # cached[ProcOf[c]].access
    BY ReloadChoices DEF SeenInv, IInv
  <1>3. CASE now = cached[ProcOf[c]]
    BY <1>1, <1>2, <1>3
  <1>4. CASE /\ now.access = store.access /\ now.refresh = store.refresh /\ ~now.unsaved
             /\ store.access # NoTok /\ store.access # cached[ProcOf[c]].access
    <2>1. \A d \in Caller : ProcOf[d] = ProcOf[c] => store.access \notin Seen(d)
      BY <1>1, <1>4 DEF SeenInv, StoreMovesOn
    <2> QED
      BY <1>1, <1>2, <1>4, <2>1
  <1> QED
    BY <1>2, <1>3, <1>4

\* Steps of other calls leave a mark alone.
LEMMA MarksUntouched ==
  ASSUME ForcedReplaces, MarkKept, UNCHANGED <<cached, force, rejected, forced>>,
         \A d \in Caller : /\ pc[d] \in Leading => pc'[d] \in Leading
                           /\ pc'[d] = "finish" => pc[d] = "finish" /\ res'[d] = res[d]
  PROVE  (ForcedReplaces /\ MarkKept)'
  <1>1. ForcedReplaces'
    BY DEF ForcedReplaces
  <1>2. MarkKept'
    BY DEF MarkKept
  <1> QED
    BY <1>1, <1>2

\* What rereading the store does, with or without a token to adopt.
LEMMA ReloadOutcome ==
  ASSUME SeenInv, NEW c \in Caller, DecideReload(c) \/ AdoptAfterReject(c)
  PROVE  \E now \in Cached :
           /\ ~cached[ProcOf[c]].unsaved /\ ~now.unsaved /\ now.access # NoTok
           /\ \/ now = cached[ProcOf[c]]
              \/ /\ now.access = store.access /\ now.refresh = store.refresh
                 /\ \A d \in Caller : ProcOf[d] = ProcOf[c] => now.access \notin Seen(d)
           /\ cached'[ProcOf[c]] = now /\ \A q \in Proc : q # ProcOf[c] => cached'[q] = cached[q]
           /\ \A d \in Caller : d # c => pc'[d] = pc[d] /\ res'[d] = res[d]
           /\ \/ pc'[c] = "post" /\ res'[c] = res[c]
              \/ pc'[c] = "finish" /\ res'[c] = Err
              \/ pc'[c] = "finish" /\ res'[c] = Ok(now.access) /\ (forced[c] => now # cached[ProcOf[c]])
           /\ pc[c] \in {"decide", "reject"}
           /\ UNCHANGED <<force, skip, store, live, stored, forced, rejected, reply, cut>>
  <1> DEFINE p == ProcOf[c]
  <1>0. /\ pc[c] \in {"decide", "reject"} /\ p \in Proc
        /\ UNCHANGED <<force, skip, store, live, stored, forced, rejected, reply, cut>>
        /\ cached = [q \in Proc |-> cached[q]]
        /\ pc = [d \in Caller |-> pc[d]] /\ res = [d \in Caller |-> res[d]]
    BY DEF DecideReload, AdoptAfterReject, SeenInv, IInv, TypeOK
  <1>1. PICK now \in Reloaded(cached[p]) :
          /\ cached' = [cached EXCEPT ![p] = now]
          /\ \/ pc' = [pc EXCEPT ![c] = "post"] /\ res' = res
             \/ pc' = [pc EXCEPT ![c] = "finish"] /\ res' = [res EXCEPT ![c] = Err]
             \/ /\ pc' = [pc EXCEPT ![c] = "finish"] /\ res' = [res EXCEPT ![c] = Ok(now.access)]
                /\ forced[c] => now # cached[p]
    <2>1. CASE DecideReload(c)
      BY <2>1 DEF DecideReload, Ends
    <2>2. CASE AdoptAfterReject(c)
      BY <2>2 DEF AdoptAfterReject, Ends
    <2> QED
      BY <2>1, <2>2
  <1>2. /\ now \in Cached /\ ~cached[p].unsaved /\ ~now.unsaved /\ now.access # NoTok
        /\ \/ now = cached[p]
           \/ /\ now.access = store.access /\ now.refresh = store.refresh
              /\ \A d \in Caller : ProcOf[d] = p => now.access \notin Seen(d)
    BY <1>0, <1>1, AdoptedUnseen
  <1>3. cached'[p] = now /\ \A q \in Proc : q # p => cached'[q] = cached[q]
    BY <1>0, <1>1
  <1>4. \A d \in Caller : d # c => pc'[d] = pc[d] /\ res'[d] = res[d]
    BY <1>0, <1>1
  <1>5. \/ pc'[c] = "post" /\ res'[c] = res[c]
        \/ pc'[c] = "finish" /\ res'[c] = Err
        \/ pc'[c] = "finish" /\ res'[c] = Ok(now.access) /\ (forced[c] => now # cached[p])
    BY <1>0, <1>1
  <1> QED
    BY <1>0, <1>2, <1>3, <1>4, <1>5, Zenon

\* The leader is alone in its provider.
LEMMA LeaderAlone ==
  ASSUME SeenInv, NEW c \in Caller, NEW d \in Caller, ProcOf[d] = ProcOf[c],
         pc[c] \in Leading, pc[d] \in Leading
  PROVE  d = c
  BY DEF SeenInv, IInv, SlotOwned

\* Rereading the store never brings a refused token back.
LEMMA ReloadKeepsMarks ==
  ASSUME SeenInv, ForcedReplaces, MarkKept, NEW c \in Caller, DecideReload(c) \/ AdoptAfterReject(c)
  PROVE  (ForcedReplaces /\ MarkKept)'
  <1> DEFINE p == ProcOf[c]
  <1>1. PICK now \in Cached :
           /\ now.access # NoTok
           /\ now = cached[p] \/ \A d \in Caller : ProcOf[d] = p => now.access \notin Seen(d)
           /\ cached'[p] = now /\ \A q \in Proc : q # p => cached'[q] = cached[q]
           /\ \A d \in Caller : d # c => pc'[d] = pc[d] /\ res'[d] = res[d]
           /\ \/ pc'[c] = "post"
              \/ pc'[c] = "finish" /\ res'[c] = Err
              \/ pc'[c] = "finish" /\ (forced[c] => now # cached[p])
           /\ pc[c] \in {"decide", "reject"}
           /\ UNCHANGED <<force, forced, rejected>>
    BY ReloadOutcome
  <1>2. now = cached[p] \/ \A d \in Caller : ProcOf[d] = p => rejected[d] # now.access
    BY <1>1, CachedTypes DEF Seen
  <1>3. p \in Proc /\ \A d \in Caller : ProcOf[d] = p /\ pc[d] \in Leading => d = c
    BY <1>1, LeaderAlone DEF Leading
  <1> HIDE DEF p
  <1>4. ForcedReplaces'
    <2> SUFFICES ASSUME NEW x \in Caller, NEW d \in Caller, ProcOf[d] = ProcOf[x],
                        pc'[x] = "finish", forced'[x], res'[x].tag # "err",
                        rejected'[d] # NoTok, ~force'[ProcOf[x]]
                 PROVE  rejected'[d] # cached'[ProcOf[x]].access
      BY DEF ForcedReplaces
    <2>1. CASE x = c
      BY <1>1, <1>2, <2>1 DEF Err, p
    <2>2. CASE x # c
      <3>1. ProcOf[x] # p /\ pc[x] = "finish" /\ res'[x] = res[x]
        BY <1>1, <1>3, <2>2 DEF Leading
      <3> QED
        BY <1>1, <3>1 DEF ForcedReplaces
    <2> QED
      BY <2>1, <2>2
  <1>5. MarkKept'
    BY <1>1, <1>2, <1>3 DEF MarkKept, Leading
  <1> QED
    BY <1>4, <1>5

\* The flag passes from the provider to its leader.
LEMMA LeadStartKeepsMarks ==
  ASSUME SeenInv, ForcedReplaces, MarkKept, NEW c \in Caller, LeadStart(c)
  PROVE  (ForcedReplaces /\ MarkKept)'
  <1> DEFINE p == ProcOf[c]
  <1>0. /\ pc = [d \in Caller |-> pc[d]] /\ forced = [d \in Caller |-> forced[d]]
        /\ force = [q \in Proc |-> force[q]] /\ p \in Proc
    BY DEF SeenInv, IInv, TypeOK
  <1>1. /\ UNCHANGED <<cached, rejected, res>> /\ pc[c] = "lead"
        /\ \E a \in {"savelock", "lock"} : pc' = [pc EXCEPT ![c] = a]
        /\ \/ UNCHANGED <<force, forced>>
           \/ forced' = [forced EXCEPT ![c] = force[p]] /\ force' = [force EXCEPT ![p] = FALSE]
    BY DEF LeadStart
  <1>2. /\ ~forced[c] /\ \A d \in Caller : ProcOf[d] = p /\ pc[d] \in Leading => d = c
    BY <1>1, LeaderAlone DEF SeenInv, LeaderHolds, Leading
  <1>3. /\ \A d \in Caller : d # c => pc'[d] = pc[d] /\ forced'[d] = forced[d]
        /\ \A q \in Proc : q # p => force'[q] = force[q]
        /\ pc'[c] \in {"savelock", "lock"}
        /\ force[p] => force'[p] \/ forced'[c]
    BY <1>0, <1>1
  <1>4. ForcedReplaces'
    <2> HIDE DEF p
    <2> QED
      BY <1>0, <1>1, <1>2, <1>3 DEF ForcedReplaces, Leading
  <1>5. MarkKept'
    <2>1. ASSUME NEW d \in Caller, rejected[d] # NoTok, rejected[d] = cached[ProcOf[d]].access
          PROVE  force'[ProcOf[d]] \/ \E e \in Caller : ProcOf[e] = ProcOf[d] /\ pc'[e] \in Leading /\ forced'[e]
      <3>1. CASE force[ProcOf[d]]
        BY <1>0, <1>3, <3>1 DEF Leading
      <3>2. CASE \E e \in Caller : ProcOf[e] = ProcOf[d] /\ pc[e] \in Leading /\ forced[e]
        BY <1>2, <1>3, <3>2
      <3> QED
        BY <2>1, <3>1, <3>2 DEF MarkKept
    <2> HIDE DEF p
    <2> QED
      BY <1>1, <2>1 DEF MarkKept
  <1> QED
    BY <1>4, <1>5

\* A forced refresh ends by replacing the refused token or by putting the flag back.
LEMMA MarksStay ==
  ASSUME SeenInv, "cancel" \notin Faults, "copilot-hosts" \notin Formats, ForcedReplaces, MarkKept, [Next]_vars
  PROVE  (ForcedReplaces /\ MarkKept)'
  <1> USE DEF IInv, TypeOK, SlotOwned, NoPendingInRefresh, CallsHaveProvider, SameProvider, LeaderHolds, NewUnseen, StoreMovesOn, SavedUnseen, SeenInv, Pending, Seen, Leading, NoProvider, Ok, NoRes, Err, Stale, ForcedReplaces, MarkKept
  <1>1. ASSUME NEW p \in Proc, Start(p) PROVE (ForcedReplaces /\ MarkKept)'
    BY <1>1, AdoptedTypes DEF Start, Running, CanRead
  <1>2. ASSUME NEW p \in Proc, Age(p) PROVE (ForcedReplaces /\ MarkKept)'
    BY <1>2 DEF Age, Running
  <1>3. ASSUME NEW p \in Proc, Wake(p) PROVE (ForcedReplaces /\ MarkKept)'
    BY <1>3 DEF Wake, Running
  <1>4. ASSUME NEW p \in Proc, WithoutHttpRefresh(p) PROVE (ForcedReplaces /\ MarkKept)'
    BY <1>4 DEF WithoutHttpRefresh, Running
  <1>5. ASSUME NEW p \in Proc, Crash(p) PROVE (ForcedReplaces /\ MarkKept)'
    BY <1>5 DEF Crash, Running
  <1>6. ASSUME NEW c \in Caller, MarkStale(c) PROVE (ForcedReplaces /\ MarkKept)'
    BY <1>6 DEF MarkStale
  <1>7. ASSUME NEW c \in Caller, GetToken(c) PROVE (ForcedReplaces /\ MarkKept)'
    <2>1. /\ UNCHANGED <<cached, force, rejected, forced>>
          /\ \A d \in Caller : /\ pc[d] \in Leading => pc'[d] \in Leading
                               /\ pc'[d] = "finish" => pc[d] = "finish" /\ res'[d] = res[d]
      BY <1>7 DEF GetToken
    <2> QED
      BY <2>1, MarksUntouched
  <1>8. ASSUME NEW c \in Caller, Cancel(c) PROVE (ForcedReplaces /\ MarkKept)'
    BY <1>8 DEF Cancel
  <1>9. ASSUME NEW c \in Caller, Claim(c) PROVE (ForcedReplaces /\ MarkKept)'
    <2>1. /\ UNCHANGED <<cached, force, rejected, forced>>
          /\ \A d \in Caller : /\ pc[d] \in Leading => pc'[d] \in Leading
                               /\ pc'[d] = "finish" => pc[d] = "finish" /\ res'[d] = res[d]
      BY <1>9 DEF Claim
    <2> QED
      BY <2>1, MarksUntouched
  <1>10. ASSUME NEW c \in Caller, LeadStart(c) PROVE (ForcedReplaces /\ MarkKept)'
    BY <1>10, LeadStartKeepsMarks
  <1>11. ASSUME NEW c \in Caller, LockAcquire(c) PROVE (ForcedReplaces /\ MarkKept)'
    BY <1>11 DEF LockAcquire
  <1>12. ASSUME NEW c \in Caller, LockFail(c) PROVE (ForcedReplaces /\ MarkKept)'
    BY <1>12 DEF LockFail, Ends
  <1>13. ASSUME NEW c \in Caller, DecideFresh(c) PROVE (ForcedReplaces /\ MarkKept)'
    BY <1>13 DEF DecideFresh, Ends
  <1>14. ASSUME NEW c \in Caller, DecideReload(c) PROVE (ForcedReplaces /\ MarkKept)'
    BY <1>14, ReloadKeepsMarks
  <1>15. ASSUME NEW c \in Caller, AdoptCopilotHosts(c) PROVE (ForcedReplaces /\ MarkKept)'
    BY <1>15, ReloadedTypes DEF AdoptCopilotHosts, Ends
  <1>16. ASSUME NEW c \in Caller, PostLost(c) PROVE (ForcedReplaces /\ MarkKept)'
    BY <1>16 DEF PostLost, Ends, TransportEnd
  <1>17. ASSUME NEW c \in Caller, VendorGrant(c) PROVE (ForcedReplaces /\ MarkKept)'
    BY <1>17 DEF VendorGrant
  <1>18. ASSUME NEW c \in Caller, VendorRotated(c) PROVE (ForcedReplaces /\ MarkKept)'
    BY <1>18 DEF VendorRotated
  <1>19. ASSUME NEW c \in Caller, VendorRefuse(c) PROVE (ForcedReplaces /\ MarkKept)'
    BY <1>19 DEF VendorRefuse, Ends
  <1>20. ASSUME NEW c \in Caller, AdoptAfterReject(c) PROVE (ForcedReplaces /\ MarkKept)'
    BY <1>20, ReloadKeepsMarks
  <1>21. ASSUME NEW c \in Caller, AnswerLost(c) PROVE (ForcedReplaces /\ MarkKept)'
    BY <1>21 DEF AnswerLost, Ends, TransportEnd
  <1>22. ASSUME NEW c \in Caller, Answer(c) PROVE (ForcedReplaces /\ MarkKept)'
    BY <1>22 DEF Answer
  <1>23. ASSUME NEW c \in Caller, SaveLock(c) PROVE (ForcedReplaces /\ MarkKept)'
    BY <1>23 DEF SaveLock
  <1>24. ASSUME NEW c \in Caller, SaveLockFail(c) PROVE (ForcedReplaces /\ MarkKept)'
    BY <1>24 DEF SaveLockFail, Ends
  <1>25. ASSUME NEW c \in Caller, Save(c) PROVE (ForcedReplaces /\ MarkKept)'
    BY <1>25 DEF Save, SavedRefresh
  <1>26. ASSUME NEW c \in Caller, SaveFail(c) PROVE (ForcedReplaces /\ MarkKept)'
    BY <1>26 DEF SaveFail, Ends
  <1>27. ASSUME NEW c \in Caller, Saved(c) PROVE (ForcedReplaces /\ MarkKept)'
    BY <1>27 DEF Saved, Ends
  <1>28. ASSUME NEW c \in Caller, Complete(c) PROVE (ForcedReplaces /\ MarkKept)'
    BY <1>28 DEF Complete, Unlocked, Rearms
  <1>29. ASSUME NEW c \in Caller, Publish(c) PROVE (ForcedReplaces /\ MarkKept)'
    BY <1>29 DEF Publish, Followers
  <1>30. CASE AgeStore
    BY <1>30 DEF AgeStore, CanRead
  <1>31. CASE Login
    BY <1>31 DEF Login
  <1>32. CASE Logout
    BY <1>32 DEF Logout, CanRead
  <1>33. CASE UNCHANGED vars
    BY <1>33 DEF vars
  <1> QED
    BY <1>1, <1>2, <1>3, <1>4, <1>5, <1>6, <1>7, <1>8, <1>9, <1>10, <1>11,
       <1>12, <1>13, <1>14, <1>15, <1>16, <1>17, <1>18, <1>19, <1>20, <1>21,
       <1>22, <1>23, <1>24, <1>25, <1>26, <1>27, <1>28, <1>29, <1>30, <1>31,
       <1>32, <1>33 DEF Next, Progress

\* A token adopted under force is new to every call.
LEMMA ReloadKeepsUnseen ==
  ASSUME SeenInv, ForcedUnseen, NEW c \in Caller, DecideReload(c) \/ AdoptAfterReject(c)
  PROVE  ForcedUnseen'
  <1> DEFINE p == ProcOf[c]
  <1>1. PICK now \in Cached :
           /\ now.access # NoTok
           /\ now = cached[p] \/ \A d \in Caller : ProcOf[d] = p => now.access \notin Seen(d)
           /\ \A d \in Caller : d # c => pc'[d] = pc[d] /\ res'[d] = res[d]
           /\ \/ pc'[c] = "post"
              \/ pc'[c] = "finish" /\ res'[c] = Err
              \/ pc'[c] = "finish" /\ res'[c] = Ok(now.access) /\ (forced[c] => now # cached[p])
           /\ pc[c] \in {"decide", "reject"}
           /\ UNCHANGED <<skip, forced, rejected>>
    BY ReloadOutcome
  <1>2. \A d \in Caller : d # c => Seen(d)' = Seen(d)
    BY <1>1 DEF Seen
  <1>3. \A d \in Caller : ProcOf[d] = p /\ pc[d] \in Leading => d = c
    BY <1>1, LeaderAlone DEF Leading
  <1> SUFFICES ASSUME NEW x \in Caller, NEW d \in Caller, ProcOf[d] = ProcOf[x],
                      pc'[x] = "finish", forced'[x], res'[x].tag = "ok"
               PROVE  rejected'[d] # res'[x].tok /\ (d # x => res'[x].tok \notin Seen(d)')
    BY <1>1 DEF ForcedUnseen
  <1>4. CASE x = c
    <2>1. res'[c] = Ok(now.access) /\ now.access \notin Seen(d)
      BY <1>1, <1>4 DEF Err
    <2>2. res'[c].tok = now.access
      BY <2>1 DEF Ok
    <2>3. now.access # rejected[d]
      <3>1. now.access \in MaybeTok
        BY CachedTypes
      <3> QED
        BY <1>1, <2>1, <3>1 DEF Seen
    <2> QED
      BY <1>1, <1>2, <1>4, <2>1, <2>2, <2>3
  <1>5. CASE x # c
    <2>1. ProcOf[x] # p /\ pc[x] = "finish" /\ res'[x] = res[x] /\ d # c
      BY <1>1, <1>3, <1>5 DEF Leading
    <2> QED
      BY <1>1, <1>2, <2>1 DEF ForcedUnseen
  <1> QED
    BY <1>4, <1>5

\* The save is complete: a forced refresh ends with the saved token.
LEMMA SavedKeepsUnseen ==
  ASSUME SeenInv, ForcedUnseen, NEW c \in Caller, Saved(c)
  PROVE  ForcedUnseen'
  <1> DEFINE p == ProcOf[c]
  <1>1. /\ \A d \in Caller : d # c => pc'[d] = pc[d] /\ res'[d] = res[d]
        /\ res'[c] = Ok(cached[p].access) /\ pc[c] = "saved"
        /\ UNCHANGED <<skip, forced, rejected>>
    BY DEF Saved, Ends, SeenInv, IInv, TypeOK
  <1>2. \A d \in Caller : d # c => Seen(d)' = Seen(d)
    BY <1>1 DEF Seen
  <1>3. \A d \in Caller : ProcOf[d] = p => (d = c \/ pc[d] \notin Leading) /\ cached[p].access \notin Seen(d)
    BY <1>1, LeaderAlone DEF Leading, SeenInv, SavedUnseen
  <1>4. cached[p].access # NoTok /\ cached[p].access \in MaybeTok
    BY <1>1, CachedTypes DEF SeenInv, IInv, CallsHaveProvider, TypeOK
  <1> SUFFICES ASSUME NEW x \in Caller, NEW d \in Caller, ProcOf[d] = ProcOf[x],
                      pc'[x] = "finish", forced'[x], res'[x].tag = "ok"
               PROVE  rejected'[d] # res'[x].tok /\ (d # x => res'[x].tok \notin Seen(d)')
    BY <1>1 DEF ForcedUnseen
  <1>5. CASE x = c
    <2>1. res'[c].tok = cached[p].access /\ cached[p].access # rejected[d]
      BY <1>1, <1>3, <1>4, <1>5 DEF Ok, Seen
    <2> QED
      BY <1>1, <1>2, <1>3, <1>5, <2>1
  <1>6. CASE x # c
    <2>1. ProcOf[x] # p /\ pc[x] = "finish" /\ res'[x] = res[x] /\ d # c
      BY <1>1, <1>3, <1>6 DEF Leading
    <2> QED
      BY <1>1, <1>2, <2>1 DEF ForcedUnseen
  <1> QED
    BY <1>5, <1>6

\* The host's own steps: a busy provider hands out nothing.
LEMMA HostKeepsUnseen ==
  ASSUME SeenInv, ForcedUnseen, NEW c \in Caller, GetToken(c) \/ MarkStale(c)
  PROVE  ForcedUnseen'
  <1>1. /\ pc[c] = "idle" /\ UNCHANGED <<skip, forced>>
        /\ \A d \in Caller : d # c => pc'[d] = pc[d] /\ res'[d] = res[d] /\ rejected'[d] = rejected[d]
    BY DEF GetToken, MarkStale, SeenInv, IInv, TypeOK
  <1>2. pc'[c] # "finish"
    BY <1>1 DEF GetToken, MarkStale, SeenInv, IInv, TypeOK
  <1>3. ASSUME NEW x \in Caller, ProcOf[x] = ProcOf[c], pc[x] = "finish"
        PROVE  Seen(c)' \subseteq Seen(c)
    <2>1. Busy(ProcOf[c])
      BY <1>3 DEF SeenInv, IInv, SlotOwned, Leading, Busy
    <2>2. CASE GetToken(c)
      <3>1. ~FastPath(ProcOf[c])
        BY <2>1 DEF FastPath, ForcedUnseen
      <3>2. res'[c] = NoRes /\ rejected' = rejected
        BY <2>2, <3>1 DEF GetToken, SeenInv, IInv, TypeOK
      <3> QED
        BY <3>2 DEF Seen, NoRes
    <2>3. CASE MarkStale(c)
      <3>1. res'[c] = NoRes /\ rejected'[c] = res[c].tok /\ res[c].tag = "ok"
        BY <2>3 DEF MarkStale, SeenInv, IInv, TypeOK
      <3> QED
        BY <3>1 DEF Seen, NoRes
    <2> QED
      BY <2>2, <2>3
  <1>4. \A d \in Caller : d # c => Seen(d)' = Seen(d)
    BY <1>1 DEF Seen
  <1> SUFFICES ASSUME NEW x \in Caller, NEW d \in Caller, ProcOf[d] = ProcOf[x],
                      pc'[x] = "finish", forced'[x], res'[x].tag = "ok"
               PROVE  rejected'[d] # res'[x].tok /\ (d # x => res'[x].tok \notin Seen(d)')
    BY <1>1 DEF ForcedUnseen
  <1>5. x # c /\ pc[x] = "finish" /\ res'[x] = res[x] /\ forced[x] /\ Seen(d)' \subseteq Seen(d)
    BY <1>1, <1>2, <1>3, <1>4
  <1>6. rejected[d] # res[x].tok /\ (d # x => res[x].tok \notin Seen(d))
    BY <1>5 DEF ForcedUnseen
  <1>7. rejected'[d] # res[x].tok
    <2>1. CASE d # c
      BY <1>1, <1>6, <2>1
    <2>2. CASE d = c
      <3>1. rejected'[c] = rejected[c] \/ (rejected'[c] = res[c].tok /\ res[c].tag = "ok")
        BY DEF GetToken, MarkStale, SeenInv, IInv, TypeOK
      <3>2. res[x].tok \in MaybeTok /\ res[x].tok # NoTok
        <4>1. res[x] \in Result /\ res[x].tok \in stored
          BY <1>5 DEF SeenInv, IInv, TypeOK, AnswerDurable
        <4> QED
          BY <4>1, ResultTypes DEF SeenInv, Counted
      <3> QED
        BY <1>5, <1>6, <2>2, <3>1, <3>2 DEF Seen
    <2> QED
      BY <2>1, <2>2
  <1> QED
    BY <1>5, <1>6, <1>7

\* A forced refresh ends with a token no call of the provider has.
LEMMA ForcedStaysUnseen ==
  ASSUME SeenInv, "cancel" \notin Faults, "copilot-hosts" \notin Formats, "skip" \notin Faults, ForcedUnseen, [Next]_vars
  PROVE  ForcedUnseen'
  <1> USE DEF IInv, TypeOK, SlotOwned, NoPendingInRefresh, CallsHaveProvider, SameProvider, LeaderHolds, NewUnseen, StoreMovesOn, SavedUnseen, SeenInv, Pending, Seen, Leading, NoProvider, Ok, NoRes, Err, Stale, ForcedUnseen
  <1>1. ASSUME NEW p \in Proc, Start(p) PROVE ForcedUnseen'
    BY <1>1, AdoptedTypes DEF Start, Running, CanRead
  <1>2. ASSUME NEW p \in Proc, Age(p) PROVE ForcedUnseen'
    BY <1>2 DEF Age, Running
  <1>3. ASSUME NEW p \in Proc, Wake(p) PROVE ForcedUnseen'
    BY <1>3 DEF Wake, Running
  <1>4. ASSUME NEW p \in Proc, WithoutHttpRefresh(p) PROVE ForcedUnseen'
    BY <1>4 DEF WithoutHttpRefresh, Running
  <1>5. ASSUME NEW p \in Proc, Crash(p) PROVE ForcedUnseen'
    BY <1>5 DEF Crash, Running
  <1>6. ASSUME NEW c \in Caller, MarkStale(c) PROVE ForcedUnseen'
    BY <1>6, HostKeepsUnseen
  <1>7. ASSUME NEW c \in Caller, GetToken(c) PROVE ForcedUnseen'
    BY <1>7, HostKeepsUnseen
  <1>8. ASSUME NEW c \in Caller, Cancel(c) PROVE ForcedUnseen'
    BY <1>8 DEF Cancel
  <1>9. ASSUME NEW c \in Caller, Claim(c) PROVE ForcedUnseen'
    BY <1>9 DEF Claim, Busy
  <1>10. ASSUME NEW c \in Caller, LeadStart(c) PROVE ForcedUnseen'
    BY <1>10 DEF LeadStart
  <1>11. ASSUME NEW c \in Caller, LockAcquire(c) PROVE ForcedUnseen'
    BY <1>11 DEF LockAcquire
  <1>12. ASSUME NEW c \in Caller, LockFail(c) PROVE ForcedUnseen'
    BY <1>12 DEF LockFail, Ends
  <1>13. ASSUME NEW c \in Caller, DecideFresh(c) PROVE ForcedUnseen'
    BY <1>13 DEF DecideFresh, Ends
  <1>14. ASSUME NEW c \in Caller, DecideReload(c) PROVE ForcedUnseen'
    BY <1>14, ReloadKeepsUnseen
  <1>15. ASSUME NEW c \in Caller, AdoptCopilotHosts(c) PROVE ForcedUnseen'
    BY <1>15, ReloadedTypes DEF AdoptCopilotHosts, Ends
  <1>16. ASSUME NEW c \in Caller, PostLost(c) PROVE ForcedUnseen'
    BY <1>16 DEF PostLost, Ends, TransportEnd
  <1>17. ASSUME NEW c \in Caller, VendorGrant(c) PROVE ForcedUnseen'
    BY <1>17 DEF VendorGrant
  <1>18. ASSUME NEW c \in Caller, VendorRotated(c) PROVE ForcedUnseen'
    BY <1>18 DEF VendorRotated
  <1>19. ASSUME NEW c \in Caller, VendorRefuse(c) PROVE ForcedUnseen'
    BY <1>19 DEF VendorRefuse, Ends
  <1>20. ASSUME NEW c \in Caller, AdoptAfterReject(c) PROVE ForcedUnseen'
    BY <1>20, ReloadKeepsUnseen
  <1>21. ASSUME NEW c \in Caller, AnswerLost(c) PROVE ForcedUnseen'
    BY <1>21 DEF AnswerLost, Ends, TransportEnd
  <1>22. ASSUME NEW c \in Caller, Answer(c) PROVE ForcedUnseen'
    BY <1>22 DEF Answer
  <1>23. ASSUME NEW c \in Caller, SaveLock(c) PROVE ForcedUnseen'
    BY <1>23 DEF SaveLock
  <1>24. ASSUME NEW c \in Caller, SaveLockFail(c) PROVE ForcedUnseen'
    BY <1>24 DEF SaveLockFail, Ends
  <1>25. ASSUME NEW c \in Caller, Save(c) PROVE ForcedUnseen'
    BY <1>25 DEF Save, SavedRefresh
  <1>26. ASSUME NEW c \in Caller, SaveFail(c) PROVE ForcedUnseen'
    BY <1>26 DEF SaveFail, Ends
  <1>27. ASSUME NEW c \in Caller, Saved(c) PROVE ForcedUnseen'
    BY <1>27, SavedKeepsUnseen
  <1>28. ASSUME NEW c \in Caller, Complete(c) PROVE ForcedUnseen'
    BY <1>28 DEF Complete, Unlocked, Rearms
  <1>29. ASSUME NEW c \in Caller, Publish(c) PROVE ForcedUnseen'
    BY <1>29 DEF Publish, Followers
  <1>30. CASE AgeStore
    BY <1>30 DEF AgeStore, CanRead
  <1>31. CASE Login
    BY <1>31 DEF Login
  <1>32. CASE Logout
    BY <1>32 DEF Logout, CanRead
  <1>33. CASE UNCHANGED vars
    BY <1>33 DEF vars
  <1> QED
    BY <1>1, <1>2, <1>3, <1>4, <1>5, <1>6, <1>7, <1>8, <1>9, <1>10, <1>11,
       <1>12, <1>13, <1>14, <1>15, <1>16, <1>17, <1>18, <1>19, <1>20, <1>21,
       <1>22, <1>23, <1>24, <1>25, <1>26, <1>27, <1>28, <1>29, <1>30, <1>31,
       <1>32, <1>33 DEF Next, Progress

\* Adopted refresh tokens come from the store.
LEMMA AdoptionStaysPaired ==
  ASSUME SeenInv, Paired, NEW p \in Proc, NEW now, cached' = [cached EXCEPT ![p] = now],
         now = cached[p] \/ (now.refresh = store.refresh /\ ~now.unsaved),
         UNCHANGED <<store, stored, reply>>, \A d \in Caller : pc'[d] = "answer" => pc[d] = "answer"
  PROVE  Paired'
  <1>1. cached'[p] = now /\ \A q \in Proc : q # p => cached'[q] = cached[q]
    BY DEF SeenInv, IInv, TypeOK
  <1> QED
    BY <1>1 DEF Paired

\* A vendor that always rotates: refresh tokens are shared through the store only.
LEMMA StaysPaired ==
  ASSUME SeenInv, "cancel" \notin Faults, Paired, [Next]_vars
  PROVE  Paired'
  <1> USE DEF IInv, TypeOK, SlotOwned, NoPendingInRefresh, StoreRecorded, SeenInv, LeaderHolds, Leading, NoProvider, NoReply, Paired
  <1>1. ASSUME NEW p \in Proc, Start(p) PROVE Paired'
    <2>1. Adopted.refresh = store.refresh /\ ~Adopted.unsaved
      BY AdoptedTypes DEF Adopted
    <2>2. cached' = [cached EXCEPT ![p] = Adopted] /\ UNCHANGED <<store, stored, reply, pc>>
      BY <1>1 DEF Start
    <2> QED
      BY <2>1, <2>2, AdoptionStaysPaired
  <1>2. ASSUME NEW p \in Proc, Age(p) PROVE Paired'
    BY <1>2 DEF Age, Running
  <1>3. ASSUME NEW p \in Proc, Wake(p) PROVE Paired'
    BY <1>3 DEF Wake, Running
  <1>4. ASSUME NEW p \in Proc, WithoutHttpRefresh(p) PROVE Paired'
    BY <1>4 DEF WithoutHttpRefresh, Running
  <1>5. ASSUME NEW p \in Proc, Crash(p) PROVE Paired'
    BY <1>5 DEF Crash, Running
  <1>6. ASSUME NEW c \in Caller, MarkStale(c) PROVE Paired'
    BY <1>6 DEF MarkStale
  <1>7. ASSUME NEW c \in Caller, GetToken(c) PROVE Paired'
    BY <1>7 DEF GetToken, Running, FastPath
  <1>8. ASSUME NEW c \in Caller, Cancel(c) PROVE Paired'
    BY <1>8 DEF Cancel
  <1>9. ASSUME NEW c \in Caller, Claim(c) PROVE Paired'
    BY <1>9 DEF Claim, Busy
  <1>10. ASSUME NEW c \in Caller, LeadStart(c) PROVE Paired'
    BY <1>10 DEF LeadStart
  <1>11. ASSUME NEW c \in Caller, LockAcquire(c) PROVE Paired'
    BY <1>11 DEF LockAcquire
  <1>12. ASSUME NEW c \in Caller, LockFail(c) PROVE Paired'
    BY <1>12 DEF LockFail, Ends
  <1>13. ASSUME NEW c \in Caller, DecideFresh(c) PROVE Paired'
    BY <1>13 DEF DecideFresh, Ends
  <1>14. ASSUME NEW c \in Caller, DecideReload(c) PROVE Paired'
    <2>1. PICK now \in Reloaded(cached[ProcOf[c]]) : cached' = [cached EXCEPT ![ProcOf[c]] = now]
      BY <1>14 DEF DecideReload
    <2>2. now = cached[ProcOf[c]] \/ (now.refresh = store.refresh /\ ~now.unsaved)
      BY ReloadChoices
    <2>3. UNCHANGED <<store, stored, reply>> /\ \A d \in Caller : pc'[d] = "answer" => pc[d] = "answer"
      BY <1>14 DEF DecideReload, Ends
    <2> QED
      BY <2>1, <2>2, <2>3, AdoptionStaysPaired
  <1>15. ASSUME NEW c \in Caller, AdoptCopilotHosts(c) PROVE Paired'
    <2>1. PICK now \in Reloaded(cached[ProcOf[c]]) : cached' = [cached EXCEPT ![ProcOf[c]] = now]
      BY <1>15 DEF AdoptCopilotHosts
    <2>2. now = cached[ProcOf[c]] \/ (now.refresh = store.refresh /\ ~now.unsaved)
      BY ReloadChoices
    <2>3. UNCHANGED <<store, stored, reply>> /\ \A d \in Caller : pc'[d] = "answer" => pc[d] = "answer"
      BY <1>15 DEF AdoptCopilotHosts, Ends
    <2> QED
      BY <2>1, <2>2, <2>3, AdoptionStaysPaired
  <1>16. ASSUME NEW c \in Caller, PostLost(c) PROVE Paired'
    BY <1>16 DEF PostLost, Ends, TransportEnd
  <1>17. ASSUME NEW c \in Caller, VendorGrant(c) PROVE Paired'
    BY <1>17 DEF VendorGrant
  <1>18. ASSUME NEW c \in Caller, VendorRotated(c) PROVE Paired'
    BY <1>18 DEF VendorRotated
  <1>19. ASSUME NEW c \in Caller, VendorRefuse(c) PROVE Paired'
    BY <1>19 DEF VendorRefuse, Ends
  <1>20. ASSUME NEW c \in Caller, AdoptAfterReject(c) PROVE Paired'
    <2>1. PICK now \in Reloaded(cached[ProcOf[c]]) : cached' = [cached EXCEPT ![ProcOf[c]] = now]
      BY <1>20 DEF AdoptAfterReject
    <2>2. now = cached[ProcOf[c]] \/ (now.refresh = store.refresh /\ ~now.unsaved)
      BY ReloadChoices
    <2>3. UNCHANGED <<store, stored, reply>> /\ \A d \in Caller : pc'[d] = "answer" => pc[d] = "answer"
      BY <1>20 DEF AdoptAfterReject, Ends
    <2> QED
      BY <2>1, <2>2, <2>3, AdoptionStaysPaired
  <1>21. ASSUME NEW c \in Caller, AnswerLost(c) PROVE Paired'
    BY <1>21 DEF AnswerLost, Ends, TransportEnd
  <1>22. ASSUME NEW c \in Caller, Answer(c) PROVE Paired'
    BY <1>22 DEF Answer
  <1>23. ASSUME NEW c \in Caller, SaveLock(c) PROVE Paired'
    BY <1>23 DEF SaveLock
  <1>24. ASSUME NEW c \in Caller, SaveLockFail(c) PROVE Paired'
    BY <1>24 DEF SaveLockFail, Ends
  <1>25. ASSUME NEW c \in Caller, Save(c) PROVE Paired'
    BY <1>25 DEF Save, SavedRefresh
  <1>26. ASSUME NEW c \in Caller, SaveFail(c) PROVE Paired'
    BY <1>26 DEF SaveFail, Ends
  <1>27. ASSUME NEW c \in Caller, Saved(c) PROVE Paired'
    BY <1>27 DEF Saved, Ends
  <1>28. ASSUME NEW c \in Caller, Complete(c) PROVE Paired'
    BY <1>28 DEF Complete, Unlocked, Rearms
  <1>29. ASSUME NEW c \in Caller, Publish(c) PROVE Paired'
    BY <1>29 DEF Publish, Followers
  <1>30. CASE AgeStore
    BY <1>30 DEF AgeStore, CanRead
  <1>31. CASE Login
    BY <1>31 DEF Login
  <1>32. CASE Logout
    BY <1>32 DEF Logout, CanRead
  <1>33. CASE UNCHANGED vars
    BY <1>33 DEF vars
  <1> QED
    BY <1>1, <1>2, <1>3, <1>4, <1>5, <1>6, <1>7, <1>8, <1>9, <1>10, <1>11,
       <1>12, <1>13, <1>14, <1>15, <1>16, <1>17, <1>18, <1>19, <1>20, <1>21,
       <1>22, <1>23, <1>24, <1>25, <1>26, <1>27, <1>28, <1>29, <1>30, <1>31,
       <1>32, <1>33 DEF Next, Progress

\* A live refresh token is in the store or on its way there.
LEMMA StaysOnItsWay ==
  ASSUME SeenInv, "cancel" \notin Faults, ~({"rotate", "keep"} \subseteq Rotation), Paired, OnItsWay, [Next]_vars
  PROVE  OnItsWay'
  <1> USE DEF IInv, TypeOK, SlotOwned, LockOwned, Locked, NoPendingInRefresh, StoreRecorded, SeenInv, LeaderHolds, NewUnseen, Pending, Brought, Leading, NoProvider, NoReply, Paired, OnItsWay
  <1>1. ASSUME NEW p \in Proc, Start(p) PROVE OnItsWay'
    <2>1. UNCHANGED <<live, reply, cut, store, pc, rt>>
      BY <1>1 DEF Start
    <2>2. ~cached'[p].unsaved /\ \A q \in Proc : q # p => cached'[q] = cached[q]
      BY <1>1, AdoptedTypes DEF Start
    <2>3. ~cached[p].unsaved
      BY <1>1 DEF Start, Running, Counted
    <2> QED
      BY <2>1, <2>2, <2>3
  <1>2. ASSUME NEW p \in Proc, Age(p) PROVE OnItsWay'
    BY <1>2 DEF Age, Running
  <1>3. ASSUME NEW p \in Proc, Wake(p) PROVE OnItsWay'
    BY <1>3 DEF Wake, Running
  <1>4. ASSUME NEW p \in Proc, WithoutHttpRefresh(p) PROVE OnItsWay'
    BY <1>4 DEF WithoutHttpRefresh, Running
  <1>5. ASSUME NEW p \in Proc, Crash(p) PROVE OnItsWay'
    <2>1. \A d \in Caller : ProcOf[d] # p => pc'[d] = pc[d] /\ reply'[d] = reply[d] /\ rt'[d] = rt[d]
      BY <1>5 DEF Crash
    <2>2. UNCHANGED <<live, store>> /\ \A d \in Caller : ProcOf[d] = p => pc'[d] = "idle"
      BY <1>5 DEF Crash
    <2>3. ~cached'[p].unsaved /\ \A q \in Proc : q # p => cached'[q] = cached[q]
      BY <1>5 DEF Crash
    <2>4. \A q \in Proc : Pending(q)' => Pending(q) /\ cached'[q] = cached[q]
      BY <2>1, <2>2, <2>3
    <2>5. \A q \in Proc : q # p /\ Pending(q) => Pending(q)'
      BY <2>1, <2>3
    <2>6. cut \/ cached[p].unsaved \/ (\E c \in Caller : ProcOf[c] = p /\ pc[c] = "answer") => cut'
      BY <1>5, Zenon DEF Crash
    <2>7. Pending(p) => cached[p].unsaved
      OBVIOUS
    <2> HIDE DEF Pending
    <2> QED
      BY <2>1, <2>2, <2>4, <2>5, <2>6, <2>7
  <1>6. ASSUME NEW c \in Caller, MarkStale(c) PROVE OnItsWay'
    BY <1>6 DEF MarkStale
  <1>7. ASSUME NEW c \in Caller, GetToken(c) PROVE OnItsWay'
    BY <1>7 DEF GetToken, Running, FastPath
  <1>8. ASSUME NEW c \in Caller, Cancel(c) PROVE OnItsWay'
    BY <1>8 DEF Cancel
  <1>9. ASSUME NEW c \in Caller, Claim(c) PROVE OnItsWay'
    BY <1>9 DEF Claim, Busy
  <1>10. ASSUME NEW c \in Caller, LeadStart(c) PROVE OnItsWay'
    BY <1>10 DEF LeadStart
  <1>11. ASSUME NEW c \in Caller, LockAcquire(c) PROVE OnItsWay'
    BY <1>11 DEF LockAcquire
  <1>12. ASSUME NEW c \in Caller, LockFail(c) PROVE OnItsWay'
    BY <1>12 DEF LockFail, Ends
  <1>13. ASSUME NEW c \in Caller, DecideFresh(c) PROVE OnItsWay'
    BY <1>13 DEF DecideFresh, Ends
  <1>14. ASSUME NEW c \in Caller, DecideReload(c) PROVE OnItsWay'
    <2>1. PICK now \in Cached :
            /\ ~cached[ProcOf[c]].unsaved /\ ~now.unsaved
            /\ cached'[ProcOf[c]] = now /\ \A q \in Proc : q # ProcOf[c] => cached'[q] = cached[q]
            /\ \A d \in Caller : d # c => pc'[d] = pc[d]
            /\ pc'[c] \in {"post", "finish"} /\ pc[c] \in {"decide", "reject"}
            /\ UNCHANGED <<store, live, reply, cut>>
      BY <1>14, ReloadOutcome
    <2>2. \A d \in Caller : d # c => rt'[d] = rt[d]
      BY <1>14 DEF DecideReload
    <2>3. \A q \in Proc : /\ Pending(q)' <=> Pending(q)
                          /\ Pending(q) => cached'[q] = cached[q]
      BY <2>1
    <2> HIDE DEF Pending
    <2> QED
      BY <2>1, <2>2, <2>3
  <1>15. ASSUME NEW c \in Caller, AdoptCopilotHosts(c) PROVE OnItsWay'
    BY <1>15, ReloadedTypes DEF AdoptCopilotHosts, Ends
  <1>16. ASSUME NEW c \in Caller, PostLost(c) PROVE OnItsWay'
    BY <1>16 DEF PostLost, Ends, TransportEnd
  <1>17. ASSUME NEW c \in Caller, VendorGrant(c) PROVE OnItsWay'
    BY <1>17 DEF VendorGrant
  <1>18. ASSUME NEW c \in Caller, VendorRotated(c) PROVE OnItsWay'
    BY <1>18 DEF VendorRotated
  <1>19. ASSUME NEW c \in Caller, VendorRefuse(c) PROVE OnItsWay'
    BY <1>19 DEF VendorRefuse, Ends
  <1>20. ASSUME NEW c \in Caller, AdoptAfterReject(c) PROVE OnItsWay'
    BY <1>20, ReloadedTypes DEF AdoptAfterReject, Ends
  <1>21. ASSUME NEW c \in Caller, AnswerLost(c) PROVE OnItsWay'
    BY <1>21 DEF AnswerLost, Ends, TransportEnd
  <1>22. ASSUME NEW c \in Caller, Answer(c) PROVE OnItsWay'
    BY <1>22 DEF Answer
  <1>23. ASSUME NEW c \in Caller, SaveLock(c) PROVE OnItsWay'
    BY <1>23 DEF SaveLock
  <1>24. ASSUME NEW c \in Caller, SaveLockFail(c) PROVE OnItsWay'
    BY <1>24 DEF SaveLockFail, Ends
  <1>25. ASSUME NEW c \in Caller, Save(c) PROVE OnItsWay'
    BY <1>25 DEF Save, SavedRefresh
  <1>26. ASSUME NEW c \in Caller, SaveFail(c) PROVE OnItsWay'
    BY <1>26 DEF SaveFail, Ends
  <1>27. ASSUME NEW c \in Caller, Saved(c) PROVE OnItsWay'
    BY <1>27 DEF Saved, Ends
  <1>28. ASSUME NEW c \in Caller, Complete(c) PROVE OnItsWay'
    BY <1>28 DEF Complete, Unlocked, Rearms
  <1>29. ASSUME NEW c \in Caller, Publish(c) PROVE OnItsWay'
    BY <1>29 DEF Publish, Followers
  <1>30. CASE AgeStore
    BY <1>30 DEF AgeStore, CanRead
  <1>31. CASE Login
    BY <1>31 DEF Login
  <1>32. CASE Logout
    BY <1>32 DEF Logout, CanRead
  <1>33. CASE UNCHANGED vars
    BY <1>33 DEF vars
  <1> QED
    BY <1>1, <1>2, <1>3, <1>4, <1>5, <1>6, <1>7, <1>8, <1>9, <1>10, <1>11,
       <1>12, <1>13, <1>14, <1>15, <1>16, <1>17, <1>18, <1>19, <1>20, <1>21,
       <1>22, <1>23, <1>24, <1>25, <1>26, <1>27, <1>28, <1>29, <1>30, <1>31,
       <1>32, <1>33 DEF Next, Progress
-----------------------------------------------------------------------------
(* The theorems.                                                           *)

\* Before any call, nobody has seen a token and the store's session is the live one.
LEMMA StartingPoint ==
  Init => SeenInv /\ ForcedReplaces /\ MarkKept /\ ForcedUnseen /\ Paired /\ OnItsWay
  <1> SUFFICES ASSUME Init PROVE SeenInv /\ ForcedReplaces /\ MarkKept /\ ForcedUnseen /\ Paired /\ OnItsWay
    OBVIOUS
  <1>1. IInv
    BY InitEstablishes
  <1>2. /\ cached = [p \in Proc |-> NoProvider] /\ slot = [p \in Proc |-> NoCaller]
        /\ skip = [p \in Proc |-> FALSE] /\ forced = [c \in Caller |-> FALSE]
        /\ pc = [c \in Caller |-> "idle"] /\ res = [c \in Caller |-> NoRes]
        /\ rejected = [c \in Caller |-> NoTok] /\ stored = {1} /\ live = {1} /\ issued = 1
    BY DEF Init
  <1>3. store.refresh \in {1, NoTok} /\ (store.refresh = NoTok => cut)
    <2>1. store.refresh \in {1, NoTok}
      BY DEF Init
    <2>2. cut = (store.refresh = NoTok)
      BY DEF Init
    <2>3. store.refresh = NoTok => cut
      BY <2>2, Zenon
    <2> QED
      BY <2>1, <2>3
  <1>4. \A c \in Caller : Seen(c) = {}
    BY <1>2 DEF Seen, NoRes
  <1>5. \A p \in Proc : ~Pending(p)
    BY <1>2 DEF Pending, NoProvider
  <1>6. SameProvider /\ LeaderHolds /\ Counted
    BY <1>2 DEF SameProvider, LeaderHolds, Counted, NoProvider
  <1>7. NewUnseen /\ StoreMovesOn /\ SavedUnseen
    BY <1>2, <1>4, <1>5 DEF NewUnseen, StoreMovesOn, SavedUnseen
  <1>8. ForcedReplaces /\ MarkKept /\ ForcedUnseen
    BY <1>2 DEF ForcedReplaces, MarkKept, ForcedUnseen
  <1>9. Paired /\ OnItsWay
    BY <1>2, <1>3, <1>5 DEF Paired, OnItsWay, NoProvider
  <1> QED
    BY <1>1, <1>6, <1>7, <1>8, <1>9 DEF SeenInv

\* Where no call is dropped, a token that has left the store does not come back to it.
THEOREM SeenInvariance ==
  ASSUME "cancel" \notin Faults
  PROVE  Spec => []SeenInv
  <1>1. SeenInv /\ IInv' /\ [Next]_vars => SeenInv'
    BY ProvidersKeepApart, LeadersKeepHold, TokensCounted, NewStaysUnseen, StoreKeepsMovingOn,
       SavedStaysUnseen DEF SeenInv
  <1>2. Init => SeenInv
    BY StartingPoint
  <1> QED
    BY <1>1, <1>2, Invariance, PTL DEF Spec

\* A session survives every interleaving of processes, failed saves, lost answers, logins
\* and restarts, for a vendor that always rotates the refresh token or never does
\* (write_cached keeps the answer pending in memory until it is in the store).
THEOREM SessionIsKept ==
  ASSUME "cancel" \notin Faults, ~({"rotate", "keep"} \subseteq Rotation)
  PROVE  Spec => []SessionKept
  <1>1. SeenInv /\ Paired /\ OnItsWay /\ [Next]_vars => (Paired /\ OnItsWay)'
    BY StaysPaired, StaysOnItsWay
  <1>2. Init => Paired /\ OnItsWay
    BY StartingPoint
  <1>3. SeenInv /\ OnItsWay => SessionKept
    BY DEF OnItsWay, SessionKept, Pending, Brought
  <1> QED
    BY <1>1, <1>2, <1>3, SeenInvariance, PTL DEF Spec

\* A 401 reported with mark_stale stays armed, or with the leader that took it, until the
\* refused token is replaced (get_token takes force_refresh and re-arms it on an error).
THEOREM MarksAreKept ==
  ASSUME "cancel" \notin Faults, "copilot-hosts" \notin Formats
  PROVE  Spec => []MarkKept
  <1>1. SeenInv /\ ForcedReplaces /\ MarkKept /\ [Next]_vars => (ForcedReplaces /\ MarkKept)'
    BY MarksStay
  <1>2. Init => ForcedReplaces /\ MarkKept
    BY StartingPoint
  <1> QED
    BY <1>1, <1>2, SeenInvariance, PTL DEF Spec

\* A forced refresh that ends with a token ends with one no caller of the provider has
\* reported (refresh_as_leader has no fallback to the cached token under force).
THEOREM ForcedRefreshIsFresh ==
  ASSUME "cancel" \notin Faults, "skip" \notin Faults, "copilot-hosts" \notin Formats
  PROVE  Spec => []ForcedIsFresh
  <1>1. SeenInv /\ ForcedUnseen /\ [Next]_vars => ForcedUnseen'
    BY ForcedStaysUnseen
  <1>2. Init => ForcedUnseen
    BY StartingPoint
  <1>3. ForcedUnseen => ForcedIsFresh
    BY DEF ForcedUnseen, ForcedIsFresh
  <1> QED
    BY <1>1, <1>2, <1>3, SeenInvariance, PTL DEF Spec
=============================================================================
