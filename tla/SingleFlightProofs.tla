------------------------- MODULE SingleFlightProofs -------------------------
(***************************************************************************)
(* TokenRefresh implements SingleFlight, for every set of processes and    *)
(* callers and every combination of faults.  SlotOwned (a leader owns the  *)
(* slot) shows that a call takes off alone.  The other direction is needed *)
(* as well: a call that finds the slot taken must find a leader behind it, *)
(* or it would wait for a flight nobody flies.                             *)
(***************************************************************************)
EXTENDS TokenRefreshProofs

\* A slot that is taken names a call of this provider that is leading.
SlotLed ==
  \A p \in Proc : slot[p] # NoCaller =>
    slot[p] \in Caller /\ ProcOf[slot[p]] = p /\ pc[slot[p]] \in Leading

\* A call under way has no result before its leader's closure has ended.
ResultPending ==
  \A c \in Caller :
    pc[c] \in {"claim", "follow"} \cup (Leading \ {"finish"}) => res[c] = NoRes

\* Only a follower waits for a leader.
OnlyFollowersWait == \A c \in Caller : pc[c] # "follow" => lead[c] = NoCaller

FlightInv == SlotLed /\ ResultPending /\ OnlyFollowersWait
-----------------------------------------------------------------------------
\* As in TokenRefreshProofs.
USE ProcOfAssumption, NoCallerAssumption, MaxGrantAssumption
USE DEF NoTok, Tok, MaybeTok, provider, outside, local, history

\* Every step keeps the slot, the results and the channels in step with pc.
LEMMA FlightInvPreserved ==
  TypeOK /\ SlotOwned /\ FlightInv /\ [Next]_vars => FlightInv'
  <1> SUFFICES ASSUME TypeOK, SlotOwned, FlightInv, [Next]_vars PROVE FlightInv'
    OBVIOUS
  <1> USE DEF TypeOK, SlotOwned, FlightInv, SlotLed, ResultPending, OnlyFollowersWait, Leading
  <1>1. ASSUME NEW p \in Proc, Start(p) PROVE FlightInv'
    BY <1>1 DEF Start, Running, CanRead
  <1>2. ASSUME NEW p \in Proc, Age(p) PROVE FlightInv'
    BY <1>2 DEF Age, Running
  <1>3. ASSUME NEW p \in Proc, Wake(p) PROVE FlightInv'
    BY <1>3 DEF Wake, Running
  <1>4. ASSUME NEW p \in Proc, WithoutHttpRefresh(p) PROVE FlightInv'
    BY <1>4 DEF WithoutHttpRefresh, Running
  <1>5. ASSUME NEW p \in Proc, Crash(p) PROVE FlightInv'
    BY <1>5 DEF Crash, Running
  <1>6. ASSUME NEW c \in Caller, MarkStale(c) PROVE FlightInv'
    BY <1>6 DEF MarkStale
  <1>7. ASSUME NEW c \in Caller, GetToken(c) PROVE FlightInv'
    BY <1>7 DEF GetToken, Running, FastPath
  <1>8. ASSUME NEW c \in Caller, Cancel(c) PROVE FlightInv'
    BY <1>8 DEF Cancel, Unlocked, Followers, HoldsSlot, Awaits
  <1>9. ASSUME NEW c \in Caller, Claim(c) PROVE FlightInv'
    BY <1>9 DEF Claim, Busy
  <1>10. ASSUME NEW c \in Caller, LeadStart(c) PROVE FlightInv'
    BY <1>10 DEF LeadStart
  <1>11. ASSUME NEW c \in Caller, LockAcquire(c) PROVE FlightInv'
    BY <1>11 DEF LockAcquire
  <1>12. ASSUME NEW c \in Caller, LockFail(c) PROVE FlightInv'
    BY <1>12 DEF LockFail, Ends
  <1>13. ASSUME NEW c \in Caller, DecideFresh(c) PROVE FlightInv'
    BY <1>13 DEF DecideFresh, Ends
  <1>14. ASSUME NEW c \in Caller, DecideReload(c) PROVE FlightInv'
    BY <1>14 DEF DecideReload, Ends, HasRefresh
  <1>15. ASSUME NEW c \in Caller, AdoptCopilotHosts(c) PROVE FlightInv'
    BY <1>15 DEF AdoptCopilotHosts, Ends
  <1>16. ASSUME NEW c \in Caller, PostLost(c) PROVE FlightInv'
    BY <1>16 DEF PostLost, Ends, TransportEnd
  <1>17. ASSUME NEW c \in Caller, VendorGrant(c) PROVE FlightInv'
    BY <1>17 DEF VendorGrant
  <1>18. ASSUME NEW c \in Caller, VendorRotated(c) PROVE FlightInv'
    BY <1>18 DEF VendorRotated
  <1>19. ASSUME NEW c \in Caller, VendorRefuse(c) PROVE FlightInv'
    BY <1>19 DEF VendorRefuse, Ends
  <1>20. ASSUME NEW c \in Caller, AdoptAfterReject(c) PROVE FlightInv'
    BY <1>20 DEF AdoptAfterReject, Ends
  <1>21. ASSUME NEW c \in Caller, AnswerLost(c) PROVE FlightInv'
    BY <1>21 DEF AnswerLost, Ends, TransportEnd
  <1>22. ASSUME NEW c \in Caller, Answer(c) PROVE FlightInv'
    BY <1>22 DEF Answer
  <1>23. ASSUME NEW c \in Caller, SaveLock(c) PROVE FlightInv'
    BY <1>23 DEF SaveLock
  <1>24. ASSUME NEW c \in Caller, SaveLockFail(c) PROVE FlightInv'
    BY <1>24 DEF SaveLockFail, Ends
  <1>25. ASSUME NEW c \in Caller, Save(c) PROVE FlightInv'
    BY <1>25 DEF Save, SavedRefresh
  <1>26. ASSUME NEW c \in Caller, SaveFail(c) PROVE FlightInv'
    BY <1>26 DEF SaveFail, Ends
  <1>27. ASSUME NEW c \in Caller, Saved(c) PROVE FlightInv'
    BY <1>27 DEF Saved, Ends
  <1>28. ASSUME NEW c \in Caller, Complete(c) PROVE FlightInv'
    BY <1>28 DEF Complete, Unlocked, Rearms
  <1>29. ASSUME NEW c \in Caller, Publish(c) PROVE FlightInv'
    BY <1>29 DEF Publish, Followers
  <1>30. CASE AgeStore
    BY <1>30 DEF AgeStore, CanRead
  <1>31. CASE Login
    BY <1>31 DEF Login
  <1>32. CASE Logout
    BY <1>32 DEF Logout, CanRead
  <1>33. CASE UNCHANGED vars
    BY <1>33 DEF vars
  <1> QED
    BY <1>1, <1>2, <1>3, <1>4, <1>5, <1>6, <1>7, <1>8, <1>9, <1>10, <1>11,
       <1>12, <1>13, <1>14, <1>15, <1>16, <1>17, <1>18, <1>19, <1>20,
       <1>21, <1>22, <1>23, <1>24, <1>25, <1>26, <1>27, <1>28, <1>29,
       <1>30, <1>31, <1>32, <1>33 DEF Next, Progress

\* The five abstract roles in terms of the await a call has reached.
LEMMA RoleTypes ==
  ASSUME TypeOK
  PROVE \A c \in Caller :
    /\ (RoleOf(c) = "out") <=> (pc[c] = "idle")
    /\ (RoleOf(c) = "asking") <=> (pc[c] = "claim")
    /\ (RoleOf(c) = "waiting") <=> (pc[c] = "follow")
    /\ (RoleOf(c) = "landed") <=> (pc[c] = "publish")
    /\ (RoleOf(c) = "leading") <=> (pc[c] \in Leading)
  BY DEF TypeOK, RoleOf, Leading, PCs

\* Steps of the host, the vendor and the store, and of a leader between
\* claim() and complete(), are invisible to the other calls.
LEMMA StutterSteps ==
  ASSUME TypeOK, ResultPending,
         UNCHANGED lead,
         \A c \in Caller : \/ pc'[c] = pc[c] /\ (pc[c] \in Leading \/ res'[c] = res[c])
                           \/ pc[c] \in Leading /\ pc'[c] \in Leading
  PROVE UNCHANGED Flight!fvars
  <1>1. FlightRole' = FlightRole
    BY DEF FlightRole, RoleOf, Leading
  <1>2. FlightOutcome' = FlightOutcome
    BY DEF FlightOutcome, Leading
  <1> QED
    BY <1>1, <1>2 DEF Flight!fvars

\* Every step of the provider is a step of SingleFlight or none.
LEMMA StepRefines ==
  TypeOK /\ TypeOK' /\ SlotOwned /\ FlightInv /\ [Next]_vars => [Flight!FlightNext]_(Flight!fvars)
  <1> SUFFICES ASSUME TypeOK, TypeOK', SlotOwned, FlightInv, [Next]_vars PROVE [Flight!FlightNext]_(Flight!fvars)
    OBVIOUS
  <1> USE DEF FlightInv
  <1>1. ASSUME NEW p \in Proc, Start(p) PROVE [Flight!FlightNext]_(Flight!fvars)
    BY <1>1, StutterSteps DEF Start, Running, CanRead, TypeOK, Leading
  <1>2. ASSUME NEW p \in Proc, Age(p) PROVE [Flight!FlightNext]_(Flight!fvars)
    BY <1>2, StutterSteps DEF Age, Running, TypeOK, Leading
  <1>3. ASSUME NEW p \in Proc, Wake(p) PROVE [Flight!FlightNext]_(Flight!fvars)
    BY <1>3, StutterSteps DEF Wake, Running, TypeOK, Leading
  <1>4. ASSUME NEW p \in Proc, WithoutHttpRefresh(p) PROVE [Flight!FlightNext]_(Flight!fvars)
    BY <1>4, StutterSteps DEF WithoutHttpRefresh, Running, TypeOK, Leading
  <1>5. ASSUME NEW p \in Proc, Crash(p) PROVE [Flight!FlightNext]_(Flight!fvars)
    <2>1. FlightRole' = [c \in Caller |-> IF ProcOf[c] = p THEN "out" ELSE FlightRole[c]]
      BY <1>5 DEF Crash, FlightRole, RoleOf, TypeOK
    <2>2. lead' = [c \in Caller |-> IF ProcOf[c] = p THEN NoCaller ELSE lead[c]]
      BY <1>5 DEF Crash
    <2>3. FlightOutcome' = [c \in Caller |-> IF ProcOf[c] = p THEN NoRes ELSE FlightOutcome[c]]
      BY <1>5 DEF Crash, FlightOutcome, TypeOK, Leading
    <2>4. Flight!Die(p)
      BY <2>1, <2>2, <2>3 DEF Flight!Die
    <2> QED
      BY <2>4 DEF Flight!FlightNext
  <1>6. ASSUME NEW c \in Caller, MarkStale(c) PROVE [Flight!FlightNext]_(Flight!fvars)
    <2>1. FlightRole' = FlightRole
      BY <1>6 DEF MarkStale, FlightRole, RoleOf
    <2>2. FlightOutcome' = [FlightOutcome EXCEPT ![c] = NoRes]
      BY <1>6 DEF MarkStale, FlightOutcome, TypeOK, Leading
    <2>3. Flight!Direct(c)
      BY <1>6, <2>1, <2>2, RoleTypes, ResultTypes DEF MarkStale, Flight!Direct, FlightRole
    <2> QED
      BY <2>3 DEF Flight!FlightNext
  <1>7. ASSUME NEW c \in Caller, GetToken(c) PROVE [Flight!FlightNext]_(Flight!fvars)
    <2>1. CASE FastPath(ProcOf[c])
      <3>1. FlightRole' = FlightRole
        BY <1>7, <2>1 DEF GetToken, FlightRole, RoleOf
      <3>2. FlightOutcome' = [FlightOutcome EXCEPT ![c] = res'[c]]
        BY <1>7, <2>1 DEF GetToken, FlightOutcome, TypeOK, Leading
      <3>3. Flight!Direct(c)
        BY <1>7, <2>1, <3>1, <3>2, RoleTypes DEF GetToken, Flight!Direct, FlightRole, TypeOK
      <3> QED
        BY <3>3 DEF Flight!FlightNext
    <2>2. CASE ~FastPath(ProcOf[c])
      <3>1. FlightRole' = [FlightRole EXCEPT ![c] = "asking"]
        BY <1>7, <2>2 DEF GetToken, FlightRole, RoleOf, TypeOK
      <3>2. FlightOutcome' = [FlightOutcome EXCEPT ![c] = NoRes]
        BY <1>7, <2>2 DEF GetToken, FlightOutcome, TypeOK, Leading
      <3>3. Flight!Ask(c)
        BY <1>7, <2>2, <3>1, <3>2, RoleTypes DEF GetToken, Flight!Ask, FlightRole
      <3> QED
        BY <3>3 DEF Flight!FlightNext
    <2> QED
      BY <2>1, <2>2
  <1>8. ASSUME NEW c \in Caller, Cancel(c) PROVE [Flight!FlightNext]_(Flight!fvars)
    <2>1. Flight!Waiting(c) = Followers(c)
      BY RoleTypes DEF Flight!Waiting, FlightRole, Followers
    <2>2. FlightRole' = [f \in Caller |-> IF f = c \/ f \in Followers(c) THEN "out" ELSE FlightRole[f]]
      BY <1>8 DEF Cancel, FlightRole, RoleOf, TypeOK
    <2>3. lead' = [f \in Caller |-> IF f = c \/ f \in Followers(c) THEN NoCaller ELSE lead[f]]
      BY <1>8 DEF Cancel, OnlyFollowersWait, TypeOK, Followers
    <2>4. FlightOutcome' = [f \in Caller |-> IF f \in Followers(c) THEN Err ELSE FlightOutcome[f]]
      BY <1>8 DEF Cancel, FlightOutcome, TypeOK, Leading, Followers, ResultPending, Awaits
    <2>5. Flight!Leave(c, Err)
      BY <2>1, <2>2, <2>3, <2>4 DEF Flight!Leave
    <2>6. Flight!Abort(c)
      BY <1>8, <2>5, RoleTypes DEF Cancel, Flight!Abort, FlightRole, Awaits, Leading
    <2> QED
      BY <2>6 DEF Flight!FlightNext
  <1>9. ASSUME NEW c \in Caller, Claim(c) PROVE [Flight!FlightNext]_(Flight!fvars)
    <2>1. FlightOutcome' = FlightOutcome
      BY <1>9 DEF Claim, FlightOutcome, TypeOK, Leading, ResultPending
    <2>2. CASE ~Busy(ProcOf[c])
      <3>1. FlightRole' = [FlightRole EXCEPT ![c] = "leading"]
        BY <1>9, <2>2 DEF Claim, FlightRole, RoleOf, TypeOK
      <3>2. ~\E d \in Caller : Flight!Leads(d, ProcOf[c])
        BY <2>2, RoleTypes DEF Busy, SlotOwned, Flight!Leads, FlightRole
      <3>3. Flight!TakeOff(c)
        BY <1>9, <2>1, <2>2, <3>1, <3>2, RoleTypes DEF Claim, Flight!TakeOff, FlightRole
      <3> QED
        BY <3>3 DEF Flight!FlightNext
    <2>3. CASE Busy(ProcOf[c])
      <3>1. FlightRole' = [FlightRole EXCEPT ![c] = "waiting"]
        BY <1>9, <2>3 DEF Claim, FlightRole, RoleOf, TypeOK
      <3>2. /\ slot[ProcOf[c]] \in Caller
            /\ Flight!Leads(slot[ProcOf[c]], ProcOf[c])
        BY <2>3, RoleTypes DEF Busy, SlotLed, Flight!Leads, FlightRole
      <3>3. lead' = [lead EXCEPT ![c] = slot[ProcOf[c]]]
        BY <1>9, <2>3 DEF Claim
      <3>4. Flight!Board(c)
        BY <1>9, <2>1, <3>1, <3>2, <3>3, RoleTypes DEF Claim, Flight!Board, FlightRole
      <3> QED
        BY <3>4 DEF Flight!FlightNext
    <2> QED
      BY <2>2, <2>3
  <1>10. ASSUME NEW c \in Caller, LeadStart(c) PROVE [Flight!FlightNext]_(Flight!fvars)
    BY <1>10, StutterSteps DEF LeadStart, TypeOK, Leading
  <1>11. ASSUME NEW c \in Caller, LockAcquire(c) PROVE [Flight!FlightNext]_(Flight!fvars)
    BY <1>11, StutterSteps DEF LockAcquire, TypeOK, Leading
  <1>12. ASSUME NEW c \in Caller, LockFail(c) PROVE [Flight!FlightNext]_(Flight!fvars)
    BY <1>12, StutterSteps DEF LockFail, Ends, TypeOK, Leading
  <1>13. ASSUME NEW c \in Caller, DecideFresh(c) PROVE [Flight!FlightNext]_(Flight!fvars)
    BY <1>13, StutterSteps DEF DecideFresh, Ends, TypeOK, Leading
  <1>14. ASSUME NEW c \in Caller, DecideReload(c) PROVE [Flight!FlightNext]_(Flight!fvars)
    BY <1>14, StutterSteps DEF DecideReload, Ends, HasRefresh, TypeOK, Leading
  <1>15. ASSUME NEW c \in Caller, AdoptCopilotHosts(c) PROVE [Flight!FlightNext]_(Flight!fvars)
    BY <1>15, StutterSteps DEF AdoptCopilotHosts, Ends, TypeOK, Leading
  <1>16. ASSUME NEW c \in Caller, PostLost(c) PROVE [Flight!FlightNext]_(Flight!fvars)
    BY <1>16, StutterSteps DEF PostLost, Ends, TransportEnd, TypeOK, Leading
  <1>17. ASSUME NEW c \in Caller, VendorGrant(c) PROVE [Flight!FlightNext]_(Flight!fvars)
    BY <1>17, StutterSteps DEF VendorGrant, TypeOK, Leading
  <1>18. ASSUME NEW c \in Caller, VendorRotated(c) PROVE [Flight!FlightNext]_(Flight!fvars)
    BY <1>18, StutterSteps DEF VendorRotated, TypeOK, Leading
  <1>19. ASSUME NEW c \in Caller, VendorRefuse(c) PROVE [Flight!FlightNext]_(Flight!fvars)
    BY <1>19, StutterSteps DEF VendorRefuse, Ends, TypeOK, Leading
  <1>20. ASSUME NEW c \in Caller, AdoptAfterReject(c) PROVE [Flight!FlightNext]_(Flight!fvars)
    BY <1>20, StutterSteps DEF AdoptAfterReject, Ends, TypeOK, Leading
  <1>21. ASSUME NEW c \in Caller, AnswerLost(c) PROVE [Flight!FlightNext]_(Flight!fvars)
    BY <1>21, StutterSteps DEF AnswerLost, Ends, TransportEnd, TypeOK, Leading
  <1>22. ASSUME NEW c \in Caller, Answer(c) PROVE [Flight!FlightNext]_(Flight!fvars)
    BY <1>22, StutterSteps DEF Answer, TypeOK, Leading
  <1>23. ASSUME NEW c \in Caller, SaveLock(c) PROVE [Flight!FlightNext]_(Flight!fvars)
    BY <1>23, StutterSteps DEF SaveLock, TypeOK, Leading
  <1>24. ASSUME NEW c \in Caller, SaveLockFail(c) PROVE [Flight!FlightNext]_(Flight!fvars)
    BY <1>24, StutterSteps DEF SaveLockFail, Ends, TypeOK, Leading
  <1>25. ASSUME NEW c \in Caller, Save(c) PROVE [Flight!FlightNext]_(Flight!fvars)
    BY <1>25, StutterSteps DEF Save, SavedRefresh, TypeOK, Leading
  <1>26. ASSUME NEW c \in Caller, SaveFail(c) PROVE [Flight!FlightNext]_(Flight!fvars)
    BY <1>26, StutterSteps DEF SaveFail, Ends, TypeOK, Leading
  <1>27. ASSUME NEW c \in Caller, Saved(c) PROVE [Flight!FlightNext]_(Flight!fvars)
    BY <1>27, StutterSteps DEF Saved, Ends, TypeOK, Leading
  <1>28. ASSUME NEW c \in Caller, Complete(c) PROVE [Flight!FlightNext]_(Flight!fvars)
    <2>1. FlightRole' = [FlightRole EXCEPT ![c] = "landed"]
      BY <1>28 DEF Complete, FlightRole, RoleOf, TypeOK
    <2>2. FlightOutcome' = [FlightOutcome EXCEPT ![c] = res[c]]
      BY <1>28 DEF Complete, FlightOutcome, TypeOK, Leading
    <2>3. Flight!Land(c)
      BY <1>28, <2>1, <2>2, RoleTypes DEF Complete, Flight!Land, FlightRole, TypeOK, Leading
    <2> QED
      BY <2>3 DEF Flight!FlightNext
  <1>29. ASSUME NEW c \in Caller, Publish(c) PROVE [Flight!FlightNext]_(Flight!fvars)
    <2>1. Flight!Waiting(c) = Followers(c)
      BY RoleTypes DEF Flight!Waiting, FlightRole, Followers
    <2>2. FlightRole' = [f \in Caller |-> IF f = c \/ f \in Followers(c) THEN "out" ELSE FlightRole[f]]
      BY <1>29 DEF Publish, FlightRole, RoleOf, TypeOK
    <2>3. lead' = [f \in Caller |-> IF f = c \/ f \in Followers(c) THEN NoCaller ELSE lead[f]]
      BY <1>29 DEF Publish, OnlyFollowersWait, TypeOK, Followers
    <2>4. FlightOutcome' = [f \in Caller |-> IF f \in Followers(c) THEN FollowerHears(FlightOutcome[c]) ELSE FlightOutcome[f]]
      BY <1>29 DEF Publish, FlightOutcome, TypeOK, Leading, Followers, ResultPending, FollowerHears
    <2>5. Flight!Leave(c, FollowerHears(FlightOutcome[c]))
      BY <2>1, <2>2, <2>3, <2>4 DEF Flight!Leave
    <2>6. Flight!Arrive(c)
      BY <1>29, <2>5, RoleTypes DEF Publish, Flight!Arrive, FlightRole
    <2> QED
      BY <2>6 DEF Flight!FlightNext
  <1>30. CASE AgeStore
    BY <1>30, StutterSteps DEF AgeStore, CanRead, TypeOK, Leading
  <1>31. CASE Login
    BY <1>31, StutterSteps DEF Login, TypeOK, Leading
  <1>32. CASE Logout
    BY <1>32, StutterSteps DEF Logout, CanRead, TypeOK, Leading
  <1>33. CASE UNCHANGED vars
    BY <1>33, StutterSteps DEF vars
  <1> QED
    BY <1>1, <1>2, <1>3, <1>4, <1>5, <1>6, <1>7, <1>8, <1>9, <1>10, <1>11,
       <1>12, <1>13, <1>14, <1>15, <1>16, <1>17, <1>18, <1>19, <1>20,
       <1>21, <1>22, <1>23, <1>24, <1>25, <1>26, <1>27, <1>28, <1>29,
       <1>30, <1>31, <1>32, <1>33 DEF Next, Progress

\* Overlapping get_token calls share one flight: TokenRefresh implements
\* SingleFlight (InFlight::claim, RefreshLeader::complete and its Drop).
THEOREM ImplementsSingleFlight == Spec => SharesOneFlight
  <1>1. Init => FlightInv
    BY DEF Init, FlightInv, SlotLed, ResultPending, OnlyFollowersWait, Leading
  <1>2. Init => Flight!FlightInit
    BY DEF Init, Flight!FlightInit, FlightRole, RoleOf, FlightOutcome, Leading
  <1>3. IInv /\ FlightInv /\ [Next]_vars => FlightInv'
    BY FlightInvPreserved DEF IInv
  <1>4. IInv /\ IInv' /\ FlightInv /\ [Next]_vars => [Flight!FlightNext]_(Flight!fvars)
    BY StepRefines DEF IInv
  <1> QED
    BY Invariance, <1>1, <1>2, <1>3, <1>4, PTL DEF Spec, SharesOneFlight, Flight!FlightSpec
=============================================================================
