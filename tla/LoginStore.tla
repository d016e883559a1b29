----------------------------- MODULE LoginStore -----------------------------
(***************************************************************************)
(* `auth login` (cli.rs run_login, pkce.rs, device_flow.rs) and the        *)
(* oidc-auth-json store it shares with logout (remove_store_entry) and     *)
(* with the refresh of another process (write_tokens): writeback.rs.       *)
(*                                                                         *)
(* The store is one file, replaced through a sibling temp file with a      *)
(* fixed name.  A file is an inode; a writer that opened the temp file     *)
(* keeps its inode, whatever the names point to by then.                   *)
(***************************************************************************)
EXTENDS Naturals, FiniteSets, Functions

CONSTANTS MaxInterval,   \* MAX_DEVICE_POLL_INTERVAL_SECS
          MaxTimeout,    \* MAX_DEVICE_POLL_TIMEOUT_SECS
          SlowDown,      \* the five seconds of slow_down
          MaxRequest,    \* OAUTH_REQUEST_TIMEOUT, of two posts with the fallback
          Intervals, Lifetimes,  \* what the vendor may answer
          Keys,          \* entries a store may hold: <<client, name>>, of one issuer
          Refreshers,    \* other processes that refresh this profile
          MaxInode       \* bound: files that exist at once
ASSUME TimesAssumption ==
  /\ MaxInterval \in Nat \ {0} /\ MaxTimeout \in Nat /\ SlowDown \in Nat /\ MaxRequest \in Nat
  /\ Intervals \subseteq Nat /\ Lifetimes \subseteq Nat
ASSUME StoreAssumption ==
  /\ Refreshers \cap {"login", "logout", "none", "old"} = {}
  /\ MaxInode \in Nat \ {0}

Procs == {"login", "logout"} \cup Refreshers
Inodes == 0..MaxInode    \* 0: no file
None == "none"

VARIABLES plan,    \* the login plan and what the login flow meets
          flow,    \* the login flow
          files,   \* live and tmp: the inodes of the two names
          inode,   \* the contents of every inode
          w,       \* the writers
          flock,   \* who holds the refresh lock file
          overlap  \* history: two writers were at work at once
vars == <<plan, flow, files, inode, w, flock, overlap>>
store == <<files, inode, w, flock, overlap>>

-----------------------------------------------------------------------------
(* Inputs.                                                                 *)

\* Keys are {issuer}::{client}@{name}.
Docs == {[k \in ks |-> "old"] : ks \in SUBSET Keys}
Content(whole, doc) == [whole |-> whole, doc |-> doc]
NoDoc == [k \in {} |-> "old"]

\* Login::Pkce or Login::Device with a client_id, the loopback port free or not,
\* a device_auth_url or none.  SetupToken, None and an empty client_id exit at once.
\* sound: the store is a document to begin with.
Plans(sound) ==
  [login : {"setup", "notReady"}, bind : {TRUE}, device : {FALSE}, want : {"a"}, sound : {sound}]
  \cup [login : {"pkce"}, bind : BOOLEAN, device : BOOLEAN, want : {"a"}, sound : {sound}]
  \cup [login : {"device"}, bind : {TRUE}, device : {TRUE}, want : {"a", ""}, sound : {sound}]

\* The query of the loopback callback.
Callbacks == [code : BOOLEAN, state : {"own", "other", None}, error : BOOLEAN]

-----------------------------------------------------------------------------
(* The store.                                                              *)

\* select_oidc_entry_key: the exact key, else the only one that fits, else a new
\* one; several fit: no key.
Wanted(want) == <<want, "">>
Fits(doc, want) ==
  {k \in DOMAIN doc : IF want = "" THEN TRUE ELSE k[1] = want /\ k[2] # ""}
SelectKey(doc, want) ==
  IF Wanted(want) \in DOMAIN doc \/ Fits(doc, want) = {} THEN {Wanted(want)}
  ELSE IF Cardinality(Fits(doc, want)) = 1 THEN Fits(doc, want)
  ELSE {}

\* apply_tokens and pointer_set for login and refresh, obj.remove for logout: one
\* entry changes.
MutDocAfter(p, doc, key) ==
  IF p = "logout" THEN Restrict(doc, DOMAIN doc \ {key}) ELSE [k \in {key} |-> p]
DocAfter(p, doc, key) ==
  IF p = "logout" THEN Restrict(doc, DOMAIN doc \ {key})
  ELSE [k \in DOMAIN doc \cup {key} |-> IF k = key THEN p ELSE doc[k]]

Active(p) == w[p].pc \in {"read", "open", "write", "rename", "late"}
Goto(p, pc) == w' = [w EXCEPT ![p].pc = pc]
\* A refresh ends with its lock file released.
Release(p) == flock' = IF flock = p THEN None ELSE flock
End(p, pc) == Goto(p, pc) /\ Release(p)
Live == inode[files.live]

\* When a writer may start: login with its tokens; the others at any time, which
\* before the login reaches the store makes no difference to it.
Ready(p) == IF p = "login" THEN flow.phase = "persist" ELSE flow.phase \in {"persist", "told"}

\* persist_login_tokens, resolve_oidc and remove_store_entry read the file for the
\* entry's key; refresh does so under its lock file.
Begin(p) ==
  /\ w[p].pc = "idle" /\ Ready(p)
  /\ p \in Refreshers => flock = None
  /\ IF files.live = 0
       THEN IF p = "login" /\ plan.want # ""
              THEN w' = [w EXCEPT ![p].pc = "open", ![p].key = Wanted(plan.want), ![p].doc = NoDoc]
              ELSE Goto(p, "failed")
       ELSE IF ~Live.whole /\ p # "login"
              THEN Goto(p, "failed")
              ELSE \* a corrupt file gives login a key; write_tokens then refuses it
                   LET keys == IF Live.whole THEN SelectKey(Live.doc, plan.want) ELSE {Wanted(plan.want)} IN
                   IF keys = {} THEN Goto(p, "failed")
                   ELSE \E k \in keys : w' = [w EXCEPT ![p].pc = "read", ![p].key = k, ![p].doc = Live.doc]
  /\ flock' = IF p \in Refreshers /\ w'[p].pc # "failed" THEN p ELSE flock
  /\ overlap' = (overlap \/ \E q \in Procs \ {p} : Active(q))
  /\ UNCHANGED <<plan, flow, files, inode>>

\* write_tokens reads the file again; remove_store_entry works on what it read.  The
\* last entry removed takes the file with it.
ReadDoc(p) ==
  /\ w[p].pc = "read"
  /\ LET doc == IF p = "logout" THEN w[p].doc ELSE Live.doc IN
     CASE p = "logout" /\ w[p].key \notin DOMAIN doc -> End(p, "failed") /\ UNCHANGED files
       [] p = "logout" /\ DOMAIN doc = {w[p].key} ->
            /\ End(p, IF files.live = 0 THEN "failed" ELSE "done")
            /\ files' = [files EXCEPT !.live = 0]
       [] p # "logout" /\ (files.live = 0 \/ ~Live.whole) -> End(p, "failed") /\ UNCHANGED files
       [] OTHER -> w' = [w EXCEPT ![p].pc = "open", ![p].doc = doc] /\ UNCHANGED <<files, flock>>
  /\ UNCHANGED <<plan, flow, inode, overlap>>

\* write_secret_tmp: the temp file is opened, created or truncated.
Unused == {i \in Inodes \ {0} : i # files.live /\ i # files.tmp /\ \A q \in Procs : w[q].fd # i}
Free == {i \in Unused : \A j \in Unused : i <= j}
OpenTmp(p) ==
  \E i \in IF files.tmp = 0 THEN Free ELSE {files.tmp} :
    /\ inode' = [inode EXCEPT ![i] = Content(FALSE, NoDoc)]
    /\ files' = [files EXCEPT !.tmp = i]
    /\ w' = [w EXCEPT ![p].fd = i, ![p].pc = IF w[p].pc = "late" THEN "gone" ELSE "write"]
MutOpen(p) ==
  /\ w[p].pc = "open"
  /\ \E i \in IF files.live = 0 THEN Free ELSE {files.live} :
     /\ inode' = [inode EXCEPT ![i] = Content(FALSE, NoDoc)]
     /\ files' = [files EXCEPT !.live = i, !.tmp = i]
     /\ w' = [w EXCEPT ![p].fd = i, ![p].pc = "write"]
  /\ UNCHANGED <<plan, flow, flock, overlap>>
Open(p) ==
  /\ w[p].pc = "open" /\ OpenTmp(p)
  /\ UNCHANGED <<plan, flow, flock, overlap>>

\* write_all, flush and sync_all on the open file.
Write(p) ==
  /\ w[p].pc = "write"
  /\ inode' = [inode EXCEPT ![w[p].fd] = Content(TRUE, DocAfter(p, w[p].doc, w[p].key))]
  /\ Goto(p, "rename")
  /\ UNCHANGED <<plan, flow, files, flock, overlap>>

\* replace_secret_file: whatever the temp name points to becomes the live file.
RenameTmp == IF files.tmp = 0 THEN files ELSE [live |-> files.tmp, tmp |-> 0]
Rename(p) ==
  /\ w[p].pc = "rename"
  /\ files' = RenameTmp
  /\ End(p, IF files.tmp = 0 THEN "failed" ELSE "done")
  /\ UNCHANGED <<plan, flow, inode, overlap>>

\* write_secret_file: any of the three may fail; the temp name is removed.
WriteFails(p) ==
  /\ w[p].pc \in {"open", "write", "rename"}
  /\ files' = [files EXCEPT !.tmp = 0] /\ End(p, "failed")
  /\ UNCHANGED <<plan, flow, inode, overlap>>

\* The refresh future is dropped: the lock file is released, and the call tokio's
\* blocking pool has already taken still runs, later.
Drop(p) ==
  /\ w[p].pc \in {"open", "write", "rename"}
  /\ w' = [w EXCEPT ![p].pc = "late", ![p].late = w[p].pc] /\ Release(p)
  /\ UNCHANGED <<plan, flow, files, inode, overlap>>
LateOpen(p) == w[p].late = "open" /\ OpenTmp(p)
LateWrite(p) ==
  /\ w[p].late = "write"
  /\ inode' = [inode EXCEPT ![w[p].fd] = Content(TRUE, DocAfter(p, w[p].doc, w[p].key))]
  /\ Goto(p, "gone") /\ UNCHANGED files
LateRename(p) ==
  /\ w[p].late = "rename"
  /\ files' = RenameTmp /\ Goto(p, "gone") /\ UNCHANGED inode
LateCall(p) ==
  /\ w[p].pc = "late"
  /\ LateOpen(p) \/ LateWrite(p) \/ LateRename(p)
  /\ UNCHANGED <<plan, flow, flock, overlap>>

\* A process dies; the system gives its lock back.
Crash(p) ==
  /\ Active(p) /\ w[p].pc # "late" /\ End(p, "dead")
  /\ UNCHANGED <<plan, flow, files, inode, overlap>>

-----------------------------------------------------------------------------
(* The login flow.                                                         *)

Idle == [phase |-> "plan", told |-> None, state |-> None, interval |-> 0, timeout |-> 0,
         elapsed |-> 0, posted |-> 0, round |-> 0]
Phase(phase) == flow' = [flow EXCEPT !.phase = phase]
Tell(what) == flow' = [flow EXCEPT !.phase = "told", !.told = what]

\* login_plan, run_login and run_pkce_or_device: which flow, or exit.
StartLogin ==
  /\ flow.phase = "plan"
  /\ IF plan.login \in {"setup", "notReady"} THEN Tell("notReady")
     ELSE IF plan.login = "device" \/ (~plan.bind /\ plan.device) THEN Phase("device")
     ELSE IF plan.bind THEN Phase("callback")
     ELSE Tell("error")
  /\ UNCHANGED <<plan, store>>

\* run_pkce waits for one callback (without a time limit): pkce_callback_code.
MutReply(cb) == IF cb.code /\ cb.state = "own" THEN [phase |-> "exchange", told |-> "ok"]
                ELSE [phase |-> "told", told |-> "error"]
Reply(cb) == IF cb.code /\ cb.state = "own" THEN [phase |-> "exchange", told |-> None]
             ELSE [phase |-> "told", told |-> "error"]
Callback ==
  /\ flow.phase = "callback"
  /\ \E cb \in Callbacks :
       flow' = [flow EXCEPT !.state = cb.state, !.phase = Reply(cb).phase, !.told = Reply(cb).told]
  /\ UNCHANGED <<plan, store>>

\* exchange_auth_code: the tokens, an HTTP error or bad JSON.
Exchange ==
  /\ flow.phase = "exchange"
  /\ Phase("persist") \/ Tell("error")
  /\ UNCHANGED <<plan, store>>

\* device_poll_interval, device_poll_timeout.
AtMost(n, cap) == IF n > cap THEN cap ELSE n
MutPollInterval(n) == AtMost(n, MaxInterval)
PollInterval(n) == IF n = 0 THEN 1 ELSE AtMost(n, MaxInterval)
MutPollTimeout(n) == n
PollTimeout(n) == AtMost(n, MaxTimeout)

\* start_device_flow: the vendor names an interval and a lifetime, or fails.
StartDevice ==
  /\ flow.phase = "device"
  /\ \/ \E i \in Intervals, e \in Lifetimes :
          flow' = [flow EXCEPT !.phase = "poll", !.interval = PollInterval(i),
                               !.timeout = PollTimeout(e)]
     \/ Tell("error")
  /\ UNCHANGED <<plan, store>>

\* One round of poll_device_token: the deadline, the sleep, the post of any length up
\* to its time limit, and the answer.  round tells a round that took no time from none.
Poll ==
  /\ flow.phase = "poll"
  /\ IF flow.elapsed > flow.timeout
       THEN flow' = [Idle EXCEPT !.phase = "told", !.told = "error"]
       ELSE \E d \in 0..MaxRequest :
              LET now == [flow EXCEPT !.elapsed = @ + flow.interval + d,
                                      !.posted = flow.elapsed + flow.interval,
                                      !.round = 1 - @] IN
              \/ flow' = [Idle EXCEPT !.phase = "persist"]
              \/ flow' = [Idle EXCEPT !.phase = "told", !.told = "error"]  \* denied, expired, broken
              \/ flow' = now                                              \* authorization_pending
              \/ flow' = [now EXCEPT !.interval = AtMost(@ + SlowDown, MaxInterval)]
  /\ UNCHANGED <<plan, store>>

\* run_pkce and run_device after persist_login_tokens: pkce_browser_after_save.
TellUser ==
  /\ flow.phase = "persist"
  /\ CASE w["login"].pc = "done" -> Tell("ok")
       [] w["login"].pc = "failed" -> Tell("error")
       [] w["login"].pc = "dead" -> Phase("told")
       [] OTHER -> FALSE
  /\ UNCHANGED <<plan, store>>

-----------------------------------------------------------------------------
Writer == [pc |-> "idle", key |-> <<"", "">>, doc |-> NoDoc, fd |-> 0, late |-> None]

Init ==
  /\ flow = Idle
  /\ \E doc \in Docs, whole \in BOOLEAN, there \in BOOLEAN :
       /\ there \/ (whole /\ doc = NoDoc)
       /\ ~whole => doc = NoDoc
       /\ plan \in Plans(whole)
       /\ inode = [i \in Inodes |-> IF i = 1 THEN Content(whole, doc) ELSE Content(FALSE, NoDoc)]
       /\ files = [live |-> IF there THEN 1 ELSE 0, tmp |-> 0]
  /\ w = [p \in Procs |-> Writer]
  /\ flock = None /\ overlap = FALSE

WriterStep(p) == \/ Begin(p) \/ ReadDoc(p) \/ Open(p) \/ Write(p) \/ Rename(p)
                 \/ WriteFails(p) \/ Crash(p)
LoginStep == StartLogin \/ Callback \/ Exchange \/ StartDevice \/ Poll \/ TellUser
Next == \/ \E p \in Procs : WriterStep(p)
        \/ \E p \in Refreshers : Drop(p) \/ LateCall(p)
        \/ LoginStep

\* A timer that is due and a post with a time limit end; nothing makes a user act.
Fairness == WF_vars(Poll)
Spec == Init /\ [][Next]_vars /\ Fairness

-----------------------------------------------------------------------------
(* Properties.                                                             *)

\* As long as writers take turns, no crash, failed write or dropped refresh leaves a
\* live file that is not a whole document (write_secret_file).
TornOnlyByOverlap ==
  plan.sound /\ ~overlap => files.live = 0 \/ Live.whole

\* As long as writers take turns, an entry that none of them chose is in the live
\* file as it was: login into another profile, refresh and logout leave it alone.
SiblingsKept ==
  LET chosen == {w[p].key : p \in Procs} IN
  ~overlap /\ files.live # 0 /\ Live.whole =>
    \A k \in Keys \ chosen :
      /\ k \in DOMAIN Live.doc => Live.doc[k] = "old"
      /\ \A p \in Procs : w[p].pc # "idle" /\ k \in DOMAIN w[p].doc => k \in DOMAIN Live.doc

\* "login saved" is only said, in the browser too, when the code belonged to this
\* login and its tokens are in the live file, until a later writer changes the entry.
ToldOkIsSaved ==
  flow.told = "ok" =>
    /\ flow.state \in {"own", None}
    /\ ~overlap /\ (\A p \in Procs \ {"login"} : w[p].pc = "idle") =>
         /\ files.live # 0 /\ Live.whole
         /\ w["login"].key \in DOMAIN Live.doc /\ Live.doc[w["login"].key] = "login"

\* device_flow.rs:58 calls MAX_DEVICE_POLL_TIMEOUT_SECS a "hard cap on the whole poll
\* loop" and :174 says "the whole loop is capped at 15 minutes": no poll goes out
\* after the cap.
PollCapped == flow.posted <= MaxTimeout

\* How far the loop overruns the cap that PollCapped states: whatever interval,
\* lifetime and slow_down answers the vendor gives, the last poll is sent at most one
\* interval after the capped lifetime and waited for no longer than its time limit.
PollDeadline ==
  /\ flow.posted <= MaxTimeout + MaxInterval
  /\ flow.elapsed <= MaxTimeout + MaxInterval + MaxRequest

\* Polling ends: the user approves or denies, or the deadline passes, also for a
\* vendor that asks for an interval of 0.
PollingEnds == (flow.phase = "poll") ~> (flow.phase # "poll")
=============================================================================
