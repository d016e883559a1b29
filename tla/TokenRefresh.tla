---------------------------- MODULE TokenRefresh ----------------------------
(***************************************************************************)
(* The profile-driven OAuth provider of wiremux-auth                       *)
(* (providers/oauth.rs), with the in-flight slot and the refresh file lock *)
(* of helpers.rs, several processes that share one credential store, and a *)
(* vendor that may rotate the refresh token at every grant.                *)
(*                                                                         *)
(* A token is a number: the vendor's n-th grant issues access token n and, *)
(* when it rotates, refresh token n.  NoTok stands for an absent token.    *)
(* A caller is one get_token future; pc is the await it has reached.       *)
(***************************************************************************)
EXTENDS Naturals, FiniteSets

CONSTANTS Proc,         \* processes, each with one provider over the store
          Caller,       \* get_token futures
          ProcOf,       \* the process a caller runs in
          NoCaller,     \* "no caller" in the slot and the lock
          MaxGrant,     \* bound: how many grants the vendor may issue
          Faults,       \* what the environment may do, see FaultKinds
          Rotation,     \* "rotate", "keep": what a grant does to the refresh token
          Formats       \* creds_format: copilot-hosts adopts, never POSTs

FaultKinds == {"crash", "cancel", "login", "logout", "savefail",
               "answerlost", "unreadable", "skip", "wake"}

ASSUME ProcOfAssumption == ProcOf \in [Caller -> Proc]
ASSUME NoCallerAssumption == NoCaller \notin Caller
ASSUME MaxGrantAssumption == MaxGrant \in Nat \ {0}
ASSUME FaultsAssumption == Faults \subseteq FaultKinds
ASSUME RotationAssumption == Rotation \subseteq {"rotate", "keep"}
ASSUME FormatsAssumption == Formats \subseteq {"oauth", "copilot-hosts"}

VARIABLES
  cached,   \* Inner::state of each process; access NoTok: not running
  force,    \* Inner::force_refresh
  skip,     \* Inner::skip_http_refresh
  slot,     \* InFlightInner::slot: the leader whose receiver it holds
  lock,     \* holder of the store's sibling .lock file
  store,    \* the credential file
  format,   \* its creds_format
  live,     \* refresh tokens the vendor accepts
  issued,   \* grants so far
  pc,       \* per caller: the await it has reached
  forced,   \* leader's local `force`
  lead,     \* follower's channel, named by its leader
  rt,       \* leader's local refresh_token
  reply,    \* leader's local token_resp
  res,      \* last result of the caller
  rejected, \* history: the token this caller last saw refused with a 401
  stored,   \* history: access tokens that have been in the store
  cut       \* history: the session was lost outside the provider's control

provider == <<cached, force, skip, slot>>
outside  == <<lock, store, format, live, issued>>
local    == <<pc, forced, lead, rt, reply, res>>
history  == <<rejected, stored, cut>>
vars == <<provider, outside, local, history>>

NoTok == 0
Tok == 1..MaxGrant
MaybeTok == 0..MaxGrant

\* CachedToken.  old: needs_refresh (80% of the lifetime has elapsed);
\* unsaved: unsaved_expires_in is Some.
Cached == [access: MaybeTok, refresh: MaybeTok, old: BOOLEAN, unsaved: BOOLEAN]
NoProvider == [access |-> NoTok, refresh |-> NoTok, old |-> FALSE, unsaved |-> FALSE]

\* The credential file.  old: its expiry is past, so a load has lifetime zero.
Store == [file: BOOLEAN, access: MaybeTok, refresh: MaybeTok, old: BOOLEAN]

Reply == [access: MaybeTok, refresh: MaybeTok]
NoReply == [access |-> NoTok, refresh |-> NoTok]

\* Result<String, AuthError>; "stale" is AuthError::CredentialStoreStale.
Result == [tag: {"none", "ok", "err", "stale"}, tok: MaybeTok]
Ok(t) == [tag |-> "ok", tok |-> t]
NoRes == [tag |-> "none", tok |-> NoTok]
Err   == [tag |-> "err", tok |-> NoTok]
Stale == [tag |-> "stale", tok |-> NoTok]

PCs == {"idle", "claim", "follow", "lead", "lock", "decide", "post", "answer",
        "reject", "savelock", "save", "saved", "finish", "publish"}

\* A caller holds the in-flight slot in these, and the file lock in those.
Leading == {"lead", "lock", "decide", "post", "answer", "reject",
            "savelock", "save", "saved", "finish"}
Locked == {"decide", "post", "answer", "reject", "save", "saved"}

Init ==
  /\ cached = [p \in Proc |-> NoProvider]
  /\ force = [p \in Proc |-> FALSE]
  /\ skip = [p \in Proc |-> FALSE]
  /\ slot = [p \in Proc |-> NoCaller]
  /\ lock = NoCaller
  /\ \E r \in {1, NoTok} :
       store = [file |-> TRUE, access |-> 1, refresh |-> r, old |-> FALSE]
  /\ format \in Formats
  /\ live = {1}
  /\ issued = 1
  /\ pc = [c \in Caller |-> "idle"]
  /\ forced = [c \in Caller |-> FALSE]
  /\ lead = [c \in Caller |-> NoCaller]
  /\ rt = [c \in Caller |-> NoTok]
  /\ reply = [c \in Caller |-> NoReply]
  /\ res = [c \in Caller |-> NoRes]
  /\ rejected = [c \in Caller |-> NoTok]
  /\ stored = {1}
  /\ cut = (store.refresh = NoTok)

-----------------------------------------------------------------------------
(* Reading the store.                                                      *)

\* reload_from_store: an entry, or nothing (missing, unreadable, no access).
CanRead == store.file /\ store.access # NoTok

\* adopt_from_store: refused while a save is pending or for the same token.
CanAdopt(held) ==
  /\ CanRead
  /\ ~held.unsaved
  /\ store.access # held.access

Adopted == [access |-> store.access, refresh |-> store.refresh,
            old |-> store.old, unsaved |-> FALSE]

\* What a reload leaves in memory; the read itself may fail.
Reloaded(held) ==
  IF CanAdopt(held)
    THEN {Adopted} \cup {r \in {held} : "unreadable" \in Faults}
    ELSE {held}

-----------------------------------------------------------------------------
(* The host and the environment.                                           *)

Running(p) == cached[p].access # NoTok

\* load_credentials and from_loaded: a provider is built only from a
\* non-empty access token, with nothing pending and no force flag.
Start(p) ==
  /\ ~Running(p)
  /\ CanRead
  /\ cached' = [cached EXCEPT ![p] = Adopted]
  /\ UNCHANGED <<force, skip, slot, outside, local, history>>

\* 80% of the cached token's lifetime has elapsed.
Age(p) ==
  /\ Running(p) /\ ~cached[p].old
  /\ cached' = [cached EXCEPT ![p].old = TRUE]
  /\ UNCHANGED <<force, skip, slot, outside, local, history>>

\* The expiry recorded in the store has passed.
AgeStore ==
  /\ CanRead /\ ~store.old
  /\ store' = [store EXCEPT !.old = TRUE]
  /\ UNCHANGED <<provider, lock, format, live, issued, local, history>>

\* The upstream refused the token with a 401: the holder calls mark_stale.
MarkStale(c) ==
  /\ pc[c] = "idle" /\ res[c].tag = "ok"
  /\ force' = [force EXCEPT ![ProcOf[c]] = TRUE]
  /\ rejected' = [rejected EXCEPT ![c] = res[c].tok]
  /\ res' = [res EXCEPT ![c] = NoRes]
  /\ UNCHANGED <<cached, skip, slot, outside, pc, forced, lead, rt, reply, stored, cut>>

\* wake(): the laptop-wake hook defaults to mark_stale.
Wake(p) ==
  /\ "wake" \in Faults
  /\ Running(p)
  /\ force' = [force EXCEPT ![p] = TRUE]
  /\ UNCHANGED <<cached, skip, slot, outside, local, history>>

WithoutHttpRefresh(p) ==
  /\ "skip" \in Faults
  /\ Running(p)
  /\ skip' = [skip EXCEPT ![p] = TRUE]
  /\ UNCHANGED <<cached, force, slot, outside, local, history>>

\* persist_login_tokens: a new session replaces the entry; no file lock.
Login ==
  /\ "login" \in Faults
  /\ issued < MaxGrant
  /\ issued' = issued + 1
  /\ live' = live \cup {issued'}
  /\ store' = [file |-> TRUE, access |-> issued', refresh |-> issued', old |-> FALSE]
  /\ stored' = stored \cup {issued'}
  /\ cut' = FALSE
  /\ UNCHANGED <<provider, lock, format, local, rejected>>

\* remove_store_entry: the entry goes, and the file when it was the last one.
Logout ==
  /\ "logout" \in Faults
  /\ CanRead
  /\ \E siblings \in BOOLEAN :
       store' = [file |-> siblings, access |-> NoTok, refresh |-> NoTok, old |-> FALSE]
  /\ cut' = TRUE
  /\ UNCHANGED <<provider, lock, format, live, issued, local, rejected, stored>>

-----------------------------------------------------------------------------
(* get_token.                                                              *)

\* InFlight::is_busy, and the test claim makes under the same mutex.
MutBusy(p) == FALSE
Busy(p) == slot[p] # NoCaller

\* The checks under the read lock: return the cached token or go on to claim.
FastPath(p) ==
  /\ ~cached[p].unsaved
  /\ \/ skip[p]
     \/ ~force[p] /\ ~cached[p].old /\ ~Busy(p)

GetToken(c) ==
  LET p == ProcOf[c] IN
  /\ pc[c] = "idle"
  /\ Running(p)
  /\ IF FastPath(p)
       THEN /\ res' = [res EXCEPT ![c] = Ok(cached[p].access)]
            /\ UNCHANGED pc
       ELSE /\ pc' = [pc EXCEPT ![c] = "claim"]
            /\ res' = [res EXCEPT ![c] = NoRes]
  /\ UNCHANGED <<provider, outside, forced, lead, rt, reply, history>>

\* InFlight::claim: an empty slot makes a leader, a full one a follower.
Claim(c) ==
  LET p == ProcOf[c] IN
  /\ pc[c] = "claim"
  /\ IF ~Busy(p)
       THEN /\ slot' = [slot EXCEPT ![p] = c]
            /\ pc' = [pc EXCEPT ![c] = "lead"]
            /\ UNCHANGED lead
       ELSE /\ lead' = [lead EXCEPT ![c] = slot[p]]
            /\ pc' = [pc EXCEPT ![c] = "follow"]
            /\ UNCHANGED slot
  /\ UNCHANGED <<cached, force, skip, outside, forced, rt, reply, res, history>>

\* The leader's closure: a pending save is retried, else the force flag is taken.
LeadStart(c) ==
  LET p == ProcOf[c] IN
  /\ pc[c] = "lead"
  /\ IF cached[p].unsaved
       THEN /\ pc' = [pc EXCEPT ![c] = "savelock"]
            /\ UNCHANGED <<force, forced>>
       ELSE /\ pc' = [pc EXCEPT ![c] = "lock"]
            /\ forced' = [forced EXCEPT ![c] = force[p]]
            /\ force' = [force EXCEPT ![p] = FALSE]
  /\ UNCHANGED <<cached, skip, slot, outside, lead, rt, reply, res, history>>

-----------------------------------------------------------------------------
(* refresh_as_leader.                                                      *)

\* Leader c ends its refresh with result r.
Ends(c, r) ==
  /\ pc' = [pc EXCEPT ![c] = "finish"]
  /\ res' = [res EXCEPT ![c] = r]

\* try_acquire_refresh_lock succeeded.
LockAcquire(c) ==
  /\ pc[c] = "lock"
  /\ lock = NoCaller
  /\ lock' = c
  /\ pc' = [pc EXCEPT ![c] = "decide"]
  /\ UNCHANGED <<provider, store, format, live, issued>>
  /\ UNCHANGED <<forced, lead, rt, reply, res, history>>

\* It timed out behind another holder, or the lock file could not be opened.
MutLockFail(c) ==
  /\ pc[c] = "lock"
  /\ pc' = [pc EXCEPT ![c] = "decide"]
  /\ UNCHANGED <<provider, outside, forced, lead, rt, reply, res, history>>
LockFail(c) ==
  LET held == cached[ProcOf[c]] IN
  /\ pc[c] = "lock"
  /\ Ends(c, CASE held.unsaved -> Stale
               [] ~held.unsaved /\ ~forced[c] -> Ok(held.access)
               [] OTHER -> Err)
  /\ UNCHANGED <<provider, outside, forced, lead, rt, reply, history>>

\* Under the lock and the state's write lock: the cached token is still good.
DecideFresh(c) ==
  LET held == cached[ProcOf[c]] IN
  /\ pc[c] = "decide" /\ format # "copilot-hosts"
  /\ held.unsaved \/ (~forced[c] /\ ~held.old)
  /\ Ends(c, IF held.unsaved THEN Stale ELSE Ok(held.access))
  /\ UNCHANGED <<provider, outside, forced, lead, rt, reply, history>>

\* A refresh needs a refresh token that is not blank.
MutHasRefresh(now) == TRUE
HasRefresh(now) == now.refresh # NoTok

\* Otherwise reread the store, adopt a changed token, and go on to the POST
\* unless the adopted one will do or there is no refresh token.
DecideReload(c) ==
  LET p == ProcOf[c] IN
  /\ pc[c] = "decide" /\ format # "copilot-hosts"
  /\ ~cached[p].unsaved /\ (forced[c] \/ cached[p].old)
  /\ \E now \in Reloaded(cached[p]) :
       /\ cached' = [cached EXCEPT ![p] = now]
       /\ IF ~forced[c] /\ ~now.old
            THEN Ends(c, Ok(now.access)) /\ UNCHANGED rt
          ELSE IF ~HasRefresh(now)
            THEN Ends(c, Err) /\ UNCHANGED rt
          ELSE /\ pc' = [pc EXCEPT ![c] = "post"]
               /\ rt' = [rt EXCEPT ![c] = now.refresh]
               /\ UNCHANGED res
  /\ UNCHANGED <<force, skip, slot, outside, forced, lead, reply, history>>

\* adopt_copilot_hosts: no refresh grant, only what the store holds.
AdoptCopilotHosts(c) ==
  LET p == ProcOf[c] IN
  /\ pc[c] = "decide" /\ format = "copilot-hosts"
  /\ \E now \in Reloaded(cached[p]) :
       /\ cached' = [cached EXCEPT ![p] = now]
       /\ Ends(c, Ok(now.access))
  /\ UNCHANGED <<force, skip, slot, outside, forced, lead, rt, reply, history>>

\* do_refresh failed in transport: an unforced leader keeps the cached token.
MutTransportEnd(c) == Ok(cached[ProcOf[c]].access)
TransportEnd(c) ==
  IF forced[c] THEN Err ELSE Ok(cached[ProcOf[c]].access)

\* The request never reached the vendor.
PostLost(c) ==
  /\ pc[c] = "post"
  /\ Ends(c, TransportEnd(c))
  /\ UNCHANGED <<provider, outside, forced, lead, rt, reply, history>>

\* The vendor grants a live refresh token; it may rotate it or keep it.
VendorGrant(c) ==
  /\ pc[c] = "post"
  /\ rt[c] \in live
  /\ issued < MaxGrant
  /\ issued' = issued + 1
  /\ \/ /\ "rotate" \in Rotation
        /\ live' = (live \ {rt[c]}) \cup {issued'}
        /\ reply' = [reply EXCEPT ![c] = [access |-> issued', refresh |-> issued']]
     \/ /\ "keep" \in Rotation
        /\ UNCHANGED live
        /\ reply' = [reply EXCEPT ![c] = [access |-> issued', refresh |-> NoTok]]
  /\ pc' = [pc EXCEPT ![c] = "answer"]
  /\ UNCHANGED <<provider, lock, store, format, forced, lead, rt, res, history>>

\* The vendor refuses a rotated refresh token (is_token_rotation_error).
VendorRotated(c) ==
  /\ pc[c] = "post"
  /\ rt[c] \notin live
  /\ pc' = [pc EXCEPT ![c] = "reject"]
  /\ UNCHANGED <<provider, outside, forced, lead, rt, reply, res, history>>

\* Any other error status: VendorRejected.
VendorRefuse(c) ==
  /\ pc[c] = "post"
  /\ Ends(c, Err)
  /\ UNCHANGED <<provider, outside, forced, lead, rt, reply, history>>

\* After a rotation error the store may hold the token another process got.
AdoptAfterReject(c) ==
  LET p == ProcOf[c] IN
  /\ pc[c] = "reject"
  /\ \E now \in Reloaded(cached[p]) :
       /\ cached' = [cached EXCEPT ![p] = now]
       /\ Ends(c, IF now = cached[p] THEN Err ELSE Ok(now.access))
  /\ UNCHANGED <<force, skip, slot, outside, forced, lead, rt, reply, history>>

\* The grant was made but its answer was lost, or was not a usable document.
AnswerLost(c) ==
  /\ "answerlost" \in Faults
  /\ pc[c] = "answer"
  /\ \E r \in {TransportEnd(c), Err} : Ends(c, r)
  /\ reply' = [reply EXCEPT ![c] = NoReply]
  /\ cut' = TRUE
  /\ UNCHANGED <<provider, outside, forced, lead, rt, rejected, stored>>

\* The answer replaces the cached token, marked unsaved.
Answer(c) ==
  LET p == ProcOf[c] IN
  /\ pc[c] = "answer"
  /\ cached' = [cached EXCEPT ![p] =
       [access |-> reply[c].access,
        refresh |-> IF reply[c].refresh # NoTok THEN reply[c].refresh ELSE @.refresh,
        old |-> FALSE, unsaved |-> TRUE]]
  /\ reply' = [reply EXCEPT ![c] = NoReply]
  /\ pc' = [pc EXCEPT ![c] = "save"]
  /\ UNCHANGED <<force, skip, slot, outside, forced, lead, rt, res, history>>

-----------------------------------------------------------------------------
(* write_cached and persist_cached_token.                                  *)

\* persist_cached_token: take the lock, then save what memory holds.
SaveLock(c) ==
  /\ pc[c] = "savelock"
  /\ lock = NoCaller
  /\ lock' = c
  /\ pc' = [pc EXCEPT ![c] = "save"]
  /\ UNCHANGED <<provider, store, format, live, issued>>
  /\ UNCHANGED <<forced, lead, rt, reply, res, history>>

SaveLockFail(c) ==
  /\ pc[c] = "savelock"
  /\ Ends(c, Stale)
  /\ UNCHANGED <<provider, outside, forced, lead, rt, reply, history>>

\* apply_tokens: a refresh token is written when there is one.
MutSavedRefresh(held) == store.refresh
SavedRefresh(held) == IF held.refresh # NoTok THEN held.refresh ELSE store.refresh

\* write_tokens: read, modify and rename over the store file.
Save(c) ==
  LET held == cached[ProcOf[c]] IN
  /\ pc[c] = "save"
  /\ store.file
  /\ store' = [file |-> TRUE, access |-> held.access, old |-> FALSE,
               refresh |-> SavedRefresh(held)]
  /\ stored' = stored \cup {held.access}
  /\ pc' = [pc EXCEPT ![c] = "saved"]
  /\ UNCHANGED <<provider, lock, format, live, issued>>
  /\ UNCHANGED <<forced, lead, rt, reply, res, rejected, cut>>

\* The store is gone or cannot be written: CredentialStoreStale.
MutSaveFail(c) ==
  /\ pc[c] = "save"
  /\ ~store.file \/ "savefail" \in Faults
  /\ Ends(c, Ok(cached[ProcOf[c]].access))
  /\ UNCHANGED <<provider, outside, forced, lead, rt, reply, history>>
SaveFail(c) ==
  /\ pc[c] = "save"
  /\ ~store.file \/ "savefail" \in Faults
  /\ Ends(c, Stale)
  /\ UNCHANGED <<provider, outside, forced, lead, rt, reply, history>>

\* The rename is done: clear the pending mark and return the token.
Saved(c) ==
  LET p == ProcOf[c] IN
  /\ pc[c] = "saved"
  /\ cached' = [cached EXCEPT ![p].unsaved = FALSE]
  /\ Ends(c, Ok(cached[p].access))
  /\ UNCHANGED <<force, skip, slot, outside, forced, lead, rt, reply, history>>

-----------------------------------------------------------------------------
(* The end of the closure, lead_or_follow and RefreshLeader.               *)

\* A failed forced refresh puts the force flag back, a failed save does not.
MutRearms(c) == FALSE
Rearms(c) == forced[c] /\ res[c].tag = "err"

Unlocked(c) == IF lock = c THEN NoCaller ELSE lock

\* The lock guard drops, the flag is re-armed, complete() clears the slot.
Complete(c) ==
  LET p == ProcOf[c] IN
  /\ pc[c] = "finish"
  /\ lock' = Unlocked(c)
  /\ force' = [force EXCEPT ![p] = @ \/ Rearms(c)]
  /\ slot' = [slot EXCEPT ![p] = NoCaller]
  /\ forced' = [forced EXCEPT ![c] = FALSE]
  /\ rt' = [rt EXCEPT ![c] = NoTok]
  /\ pc' = [pc EXCEPT ![c] = "publish"]
  /\ UNCHANGED <<cached, skip, store, format, live, issued, lead, reply, res, history>>

MutFollowers(c) == {}
Followers(c) == {f \in Caller : pc[f] = "follow" /\ lead[f] = c}

\* complete() sends: the followers wake with the result, errors as text.
Publish(c) ==
  LET shared == IF res[c].tag = "stale" THEN Err ELSE res[c] IN
  /\ pc[c] = "publish"
  /\ pc' = [f \in Caller |-> IF f = c \/ f \in Followers(c) THEN "idle" ELSE pc[f]]
  /\ res' = [f \in Caller |-> IF f \in Followers(c) THEN shared ELSE res[f]]
  /\ lead' = [f \in Caller |-> IF f \in Followers(c) THEN NoCaller ELSE lead[f]]
  /\ UNCHANGED <<provider, outside, forced, rt, reply, history>>

\* Only a leader's guard clears the slot when its future is dropped.
MutHoldsSlot(c) == TRUE
HoldsSlot(c) == slot[ProcOf[c]] = c

\* The awaits at which a dropped future really stops.
Awaits == {"follow", "lead", "lock", "decide", "post", "answer", "reject",
           "savelock", "save", "saved"}

\* The host drops the future.  A leader's Drop clears the slot and sends
\* "token refresh aborted"; its lock guard drops with it.
Cancel(c) ==
  LET p == ProcOf[c] IN
  /\ "cancel" \in Faults
  /\ pc[c] \in Awaits
  /\ lock' = Unlocked(c)
  /\ slot' = [slot EXCEPT ![p] = IF HoldsSlot(c) THEN NoCaller ELSE @]
  /\ pc' = [f \in Caller |-> IF f = c \/ f \in Followers(c) THEN "idle" ELSE pc[f]]
  /\ res' = [f \in Caller |-> IF f \in Followers(c) THEN Err ELSE res[f]]
  /\ lead' = [f \in Caller |-> IF f = c \/ f \in Followers(c) THEN NoCaller ELSE lead[f]]
  /\ forced' = [forced EXCEPT ![c] = FALSE]
  /\ rt' = [rt EXCEPT ![c] = NoTok]
  /\ reply' = [reply EXCEPT ![c] = NoReply]
  /\ cut' = (cut \/ pc[c] = "answer")
  /\ UNCHANGED <<cached, force, skip, store, format, live, issued, rejected, stored>>

\* The process dies: memory, futures and the OS lock go, the store stays.
Crash(p) ==
  LET mine == {c \in Caller : ProcOf[c] = p}
      wipe(f, none) == [c \in Caller |-> IF c \in mine THEN none ELSE f[c]] IN
  /\ "crash" \in Faults
  /\ Running(p)
  /\ cached' = [cached EXCEPT ![p] = NoProvider]
  /\ force' = [force EXCEPT ![p] = FALSE]
  /\ skip' = [skip EXCEPT ![p] = FALSE]
  /\ slot' = [slot EXCEPT ![p] = NoCaller]
  /\ lock' = IF lock \in mine THEN NoCaller ELSE lock
  /\ pc' = wipe(pc, "idle")
  /\ forced' = wipe(forced, FALSE)
  /\ lead' = wipe(lead, NoCaller)
  /\ rt' = wipe(rt, NoTok)
  /\ reply' = wipe(reply, NoReply)
  /\ res' = wipe(res, NoRes)
  /\ rejected' = wipe(rejected, NoTok)
  /\ cut' = (cut \/ cached[p].unsaved \/ \E c \in mine : pc[c] = "answer")
  /\ UNCHANGED <<store, format, live, issued, stored>>

-----------------------------------------------------------------------------
\* The steps of a call once it is under way: the runtime polls every future,
\* the lock wait and the HTTP request both have timeouts.
Progress(c) ==
  \/ Claim(c) \/ LeadStart(c) \/ LockAcquire(c) \/ LockFail(c)
  \/ DecideFresh(c) \/ DecideReload(c) \/ AdoptCopilotHosts(c)
  \/ PostLost(c) \/ VendorGrant(c) \/ VendorRotated(c) \/ VendorRefuse(c)
  \/ AdoptAfterReject(c) \/ AnswerLost(c) \/ Answer(c)
  \/ SaveLock(c) \/ SaveLockFail(c) \/ Save(c) \/ SaveFail(c) \/ Saved(c)
  \/ Complete(c) \/ Publish(c)

Next ==
  \/ \E p \in Proc : Start(p) \/ Age(p) \/ Wake(p) \/ WithoutHttpRefresh(p) \/ Crash(p)
  \/ \E c \in Caller : MarkStale(c) \/ GetToken(c) \/ Cancel(c) \/ Progress(c)
  \/ AgeStore \/ Login \/ Logout

Spec == Init /\ [][Next]_vars

FairSpec == Spec /\ \A c \in Caller : WF_vars(Progress(c))

-----------------------------------------------------------------------------
(* Properties.                                                             *)

TypeOK ==
  /\ cached \in [Proc -> Cached]
  /\ force \in [Proc -> BOOLEAN]
  /\ skip \in [Proc -> BOOLEAN]
  /\ slot \in [Proc -> Caller \cup {NoCaller}]
  /\ lock \in Caller \cup {NoCaller}
  /\ store \in Store
  /\ format \in Formats
  /\ live \subseteq Tok
  /\ issued \in Tok
  /\ pc \in [Caller -> PCs]
  /\ forced \in [Caller -> BOOLEAN]
  /\ lead \in [Caller -> Caller \cup {NoCaller}]
  /\ rt \in [Caller -> MaybeTok]
  /\ reply \in [Caller -> Reply]
  /\ res \in [Caller -> Result]
  /\ rejected \in [Caller -> MaybeTok]
  /\ stored \subseteq MaybeTok
  /\ cut \in BOOLEAN
  /\ \A c \in Caller :
       /\ pc[c] \in {"post", "answer"} => rt[c] # NoTok
       /\ pc[c] = "answer" => reply[c].access # NoTok

\* "Shared in-flight refresh so parallel get_token issues one POST": two calls
\* of one provider never both run the leader's closure, whatever is dropped.
OneLeader ==
  \A c, d \in Caller :
    (c # d /\ ProcOf[c] = ProcOf[d]) => ~(pc[c] \in Leading /\ pc[d] \in Leading)

\* Across processes, only one leader at a time is between reading the store
\* and having written it: the file lock serialises refresh_as_leader and
\* persist_cached_token.
OneWriter ==
  \A c, d \in Caller :
    c # d => ~(pc[c] \in Locked /\ pc[d] \in Locked)

\* get_token only hands out a token that has been in the store: a rotated
\* token whose save failed is never used before it is durable.
AnswerDurable ==
  \A c \in Caller : res[c].tag = "ok" => res[c].tok \in stored

\* The session survives every interleaving, failed save and failed refresh:
\* unless it was cut (answer lost, crash before the save, logout), a refresh
\* token the vendor accepts is in the store, in memory waiting to be saved,
\* or in the answer a leader is about to apply.
SessionKept ==
  \/ cut
  \/ store.refresh \in live
  \/ \E p \in Proc : cached[p].unsaved /\ cached[p].refresh \in live
  \/ \E c \in Caller : pc[c] = "answer" /\ {rt[c], reply[c].refresh} \cap live # {}

\* A 401 reported with mark_stale is not forgotten: while the provider still
\* holds that token, the force flag is armed or a leader carries it.
MarkKept ==
  \A c \in Caller :
    LET p == ProcOf[c] IN
    (rejected[c] # NoTok /\ rejected[c] = cached[p].access)
      => force[p] \/ \E d \in Caller : ProcOf[d] = p /\ pc[d] \in Leading /\ forced[d]

\* A forced refresh never ends with a token a caller of this provider has
\* reported as rejected: no fallback to the cached token once force is taken.
ForcedIsFresh ==
  \A c, d \in Caller :
    (pc[c] = "finish" /\ forced[c] /\ res[c].tag = "ok" /\ ProcOf[d] = ProcOf[c])
      => rejected[d] # res[c].tok

\* CredentialStoreStale says "In-memory refresh is newer than the store".
StaleMeansNewer ==
  \A p \in Proc : cached[p].unsaved => cached[p].access >= store.access

\* mark_stale: "Drop the cached token so the next get_token refreshes": a call
\* made after a caller's own mark_stale does not return the rejected token.
NextCallRefreshes ==
  \A c \in Caller : (pc[c] = "idle" /\ res[c].tag = "ok") => res[c].tok # rejected[c]

\* Every get_token call ends: no follower waits for a result nobody will send,
\* no leader waits for ever for the lock or the vendor.
EveryCallEnds ==
  \A c \in Caller : pc[c] # "idle" ~> pc[c] = "idle"

-----------------------------------------------------------------------------
(* The refinement: what a caller sees of all this is one shared flight.    *)

RoleOf(c) ==
  CASE pc[c] = "idle" -> "out"
    [] pc[c] = "claim" -> "asking"
    [] pc[c] = "follow" -> "waiting"
    [] pc[c] = "publish" -> "landed"
    [] OTHER -> "leading"

FollowerHears(r) == IF r.tag = "stale" THEN Err ELSE r

FlightRole == [c \in Caller |-> RoleOf(c)]

\* A leader's result is shown when complete() has cleared the slot.
FlightOutcome == [c \in Caller |-> IF pc[c] \in Leading THEN NoRes ELSE res[c]]

Flight == INSTANCE SingleFlight WITH
  Key <- Proc, KeyOf <- ProcOf, Outcome <- Result,
  Pending <- NoRes, Failed <- Err, Told <- FollowerHears,
  role <- FlightRole, leader <- lead, outcome <- FlightOutcome

\* Parallel get_token calls share one refresh: the provider with its slot,
\* lock, store, retries and dropped futures implements SingleFlight, so every
\* follower gets the result of the flight it joined or an error.
SharesOneFlight == Flight!FlightSpec
=============================================================================
