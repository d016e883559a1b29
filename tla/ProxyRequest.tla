---------------------------- MODULE ProxyRequest ----------------------------
(***************************************************************************)
(* Requests through the proxy (proxy.rs handle_inner, handle_count,        *)
(* send_upstream, passthrough_sse, map_sse_stream) and through WireClient  *)
(* (client.rs send, stream).  Requests share the provider behind a mutex;  *)
(* a streamed answer arrives in reads of any size.                         *)
(***************************************************************************)
EXTENDS SameWireGate

CONSTANTS Requests,      \* concurrent requests
          MaxFrames      \* bound: frames of a streamed answer
ASSUME MaxFramesAssumption == MaxFrames \in Nat

None == "none"

VARIABLES setup,     \* caller, profile, provider: what does not change
          req,       \* the requests
          lock,      \* ProxyState.provider: who holds the mutex
          built,     \* the provider is built
          creds,     \* the creds file is there
          stale,     \* the provider was told its token is stale
          up,        \* the streamed answer
          gate, out, \* its reader, and what the caller was handed
          done       \* the stream has ended
vars == <<setup, req, lock, built, creds, stale, up, gate, out, done>>
stream == <<up, gate, out, done>>

-----------------------------------------------------------------------------
(* Inputs.                                                                 *)

\* caller: the proxy, or the client library.  same: both wires are one.
\* auth: the token comes from a provider, or the profile needs none.
Setups ==
  [caller : {"proxy"}, same : BOOLEAN, refresh : BOOLEAN, auth : {"provider"}, streams : {FALSE}, wire : {"chat"}]
  \cup [caller : {"proxy"}, same : BOOLEAN, refresh : {FALSE}, auth : {"header"}, streams : {FALSE}, wire : {"chat"}]
  \cup [caller : {"client"}, same : {TRUE}, refresh : BOOLEAN, auth : {"provider"}, streams : {FALSE}, wire : {"chat"}]
  \cup [caller : {"proxy", "client"}, same : BOOLEAN, refresh : {FALSE}, auth : {"header"}, streams : {TRUE},
        wire : {"chat", "responses", "converse"}]

\* What request_guard and handle_inner look at before anything is sent.
Fine == [host |-> "loopback", site |-> "none", method |-> "POST", json |-> TRUE, path |-> "chat",
         size |-> "ok", decodes |-> TRUE, encodes |-> TRUE, stream |-> FALSE]
Inputs ==
  {Fine, [Fine EXCEPT !.stream = TRUE], [Fine EXCEPT !.path = "count"],
   [Fine EXCEPT !.host = "other"], [Fine EXCEPT !.site = "cross-site"], [Fine EXCEPT !.json = FALSE],
   [Fine EXCEPT !.method = "GET", !.path = "health"], [Fine EXCEPT !.method = "GET"],
   [Fine EXCEPT !.size = "big"], [Fine EXCEPT !.decodes = FALSE], [Fine EXCEPT !.encodes = FALSE]}

\* The vendor's answer: a status with a body read to the end.
Answers ==
  {[status |-> s, json |-> TRUE, body |-> "failure"] : s \in {200, 401, 503}}
  \cup {[status |-> 200, json |-> TRUE, body |-> b] : b \in {"completion", "page", "huge"}}
  \cup {[status |-> s, json |-> FALSE, body |-> "page"] : s \in {200, 503}}

Kinds(wire) ==
  IF EventStream(wire) THEN {"text", "term", "exc", "bad"}
  ELSE {"text", "term", "done", "error", "big"} \cup IF wire = "responses" THEN {"failed"} ELSE {}
Bodies(wire) ==
  {[kind |-> k, page |-> None] : k \in BoundedSeq(Kinds(wire), MaxFrames)}
  \cup {[kind |-> <<>>, page |-> p] : p \in {"completion", "failure", "html", "huge"}}
Bytes(b) == IF b.page = None THEN AllOf(Ids(Len(b.kind))) ELSE Whole(0)
\* cut: where the bytes break off, and end: how; pos: how far they were read.
\* whole: the frame they break off in lacks only its blank line; else it is cut
\* in its payload, behind the event line.  An oversize payload is never whole.
Upstreams(wire) ==
  UNION {{[kind |-> b.kind, page |-> b.page, cut |-> c, end |-> e, whole |-> FALSE, pos |-> 0]
            : c \in 0..Len(Bytes(b)), e \in {"eof", "error"}}
         \cup {[kind |-> b.kind, page |-> b.page, cut |-> 2 * i - 1, end |-> "eof", whole |-> TRUE, pos |-> 0]
            : i \in {k \in DOMAIN b.kind : ~EventStream(wire) /\ b.kind[k] # "big"}} : b \in Bodies(wire)}

-----------------------------------------------------------------------------
(* Decisions.                                                              *)

\* request_guard, host_is_loopback, is_json_content_type, then handle_inner up
\* to upstream_url_for_model: the status of the refusal, or 0.
Refusal(in) ==
  IF in.host # "loopback" \/ in.site = "cross-site" THEN 403
  ELSE IF in.method = "POST" /\ ~in.json THEN 415
  ELSE IF in.method = "GET" THEN IF in.path = "health" THEN 200 ELSE 405
  ELSE IF in.size = "big" THEN 413
  ELSE IF in.path = "count" THEN IF setup.same THEN 0 ELSE 501
  ELSE IF ~in.decodes \/ ~in.encodes THEN 400
  ELSE 0

Ok(s) == s \in 200..299
Reply(status, what) == [status |-> status, what |-> what]

\* same_wire_success_rejection.
Rejected(a) == ~a.json \/ a.body = "page"

\* handle_inner from read_capped_upstream on, with cross_wire_vendor_failure and
\* json_completion_to_sse; what is sent is a completion, a stream of one, an
\* error document or event, or the vendor's own bytes.
MutAnswer(in, a) ==
  IF a.body = "huge" THEN Reply(502, "error")
  ELSE IF setup.same THEN Reply(a.status, "bytes")
  ELSE Reply(a.status, a.body)
Answer(in, a) ==
  IF a.body = "huge" THEN Reply(502, "error")
  ELSE IF Ok(a.status) /\ a.body = "failure"
    THEN IF in.stream THEN Reply(a.status, "errorEvent") ELSE Reply(400, "error")
  ELSE IF in.stream /\ Ok(a.status) /\ a.body = "completion" THEN Reply(a.status, "stream")
  ELSE IF setup.same /\ Ok(a.status) /\ Rejected(a) THEN Reply(502, "error")
  ELSE IF setup.same THEN Reply(a.status, "bytes")
  ELSE IF ~Ok(a.status) /\ a.body = "failure"
    THEN Reply(a.status, IF in.stream THEN "errorEvent" ELSE "error")
  ELSE IF ~Ok(a.status) THEN Reply(a.status, "bytes")
  ELSE IF a.body = "completion" THEN Reply(a.status, "completion")
  ELSE Reply(502, "error")

\* handle_count from read_capped_upstream on, with count_body_hides_vendor_error.
CountAnswer(a) ==
  IF a.body = "huge" \/ (Ok(a.status) /\ Rejected(a)) THEN Reply(502, "error")
  ELSE IF Ok(a.status) /\ a.body = "failure" THEN Reply(400, "error")
  ELSE Reply(a.status, "bytes")

\* WireClient::send, open_encoded and classify_http: events, or an error.
ClientAnswer(a) ==
  IF Ok(a.status) /\ a.body = "completion" THEN Reply(a.status, "completion") ELSE Reply(a.status, "error")

-----------------------------------------------------------------------------
Proxy == setup.caller = "proxy"
NewRequest == [pc |-> "new", in |-> Fine, sends |-> 0, seen401 |-> FALSE, retried |-> FALSE,
               had |-> FALSE, up |-> [status |-> 0, json |-> FALSE, body |-> None],
               ans |-> Reply(0, None)]
Streaming == setup.streams

Init ==
  /\ setup \in Setups
  /\ req = [r \in Requests |-> NewRequest]
  /\ lock = None /\ stale = FALSE
  \* run: a failed build at start-up is not kept
  /\ creds \in BOOLEAN /\ built = (setup.auth = "provider" /\ creds)
  /\ IF setup.streams
       THEN up \in Upstreams(setup.wire)
       ELSE up = [kind |-> <<>>, page |-> None, cut |-> 0, end |-> "eof", whole |-> FALSE, pos |-> 0]
  /\ gate = GateInit /\ out = <<>> /\ done = FALSE
  /\ setup.streams => ~creds

Answered(r, reply) == req' = [req EXCEPT ![r].pc = "answered", ![r].ans = reply]
Goto(r, pc) == req' = [req EXCEPT ![r].pc = pc]

\* handle_inner: the guards, decode, encode and the URL.
Accept(r) ==
  /\ ~Streaming /\ req[r].pc = "new"
  /\ IF Proxy
       THEN \E in \in Inputs :
              IF Refusal(in) # 0
                THEN Answered(r, Reply(Refusal(in), "refused"))
                ELSE req' = [req EXCEPT ![r].pc = "token", ![r].in = in, ![r].had = creds]
       ELSE req' = [req EXCEPT ![r].pc = "token", ![r].had = TRUE]
  /\ UNCHANGED <<setup, lock, built, creds, stale, stream>>

\* resolve_proxy_token takes the mutex and keeps it while the token is fetched.
TakeLock(r) ==
  /\ Proxy /\ req[r].pc = "token" /\ lock = None
  /\ lock' = r /\ Goto(r, "resolve")
  /\ UNCHANGED <<setup, built, creds, stale, stream>>

\* provider_from_profile under the lock: a failure is not kept.
MutBuild == IF built THEN TRUE ELSE creds /\ \A r \in Requests : req[r].ans.what # "noCreds"
Build == built \/ creds

\* get_token: a token, fresh if the old one is stale, or an error.
Resolve(r) ==
  /\ Proxy /\ req[r].pc = "resolve" /\ lock' = None
  /\ IF setup.auth = "header"
       THEN Goto(r, "headers") /\ UNCHANGED <<built, stale>>
       ELSE /\ built' = Build
            /\ IF ~Build
                 THEN Answered(r, Reply(401, "noCreds")) /\ UNCHANGED stale
                 ELSE \/ Goto(r, "headers") /\ stale' = FALSE
                      \/ \E s \in {401, 502} : Answered(r, Reply(s, "error")) /\ UNCHANGED stale
  /\ UNCHANGED <<setup, creds, stream>>

\* apply_profile_headers, apply_provider_headers (under the mutex), apply_aws_sigv4
\* and the send.
Send(r) ==
  /\ Proxy /\ req[r].pc = "headers" /\ lock = None
  /\ \/ req' = [req EXCEPT ![r].pc = "sent", ![r].sends = @ + 1]
     \/ \E s \in {401, 502} : Answered(r, Reply(s, "error"))   \* signing failed
  /\ UNCHANGED <<setup, lock, built, creds, stale, stream>>

\* execute: the vendor answers, or the transport fails or times out.
Receive(r) ==
  /\ req[r].pc = "sent"
  /\ \/ \E a \in Answers :
          req' = [req EXCEPT ![r].pc = "got", ![r].up = a, ![r].seen401 = @ \/ a.status = 401]
     \/ Answered(r, Reply(502, "error"))
  /\ UNCHANGED <<setup, lock, built, creds, stale, stream>>

\* send_upstream: whether a 401 is tried again.
MutRetries(r, able) == req[r].up.status = 401 /\ able
Retries(r, able) == req[r].up.status = 401 /\ ~req[r].retried /\ able

\* send_upstream reads can_refresh under the mutex, then marks the token stale
\* under the mutex, or the answer goes out.
Check(r) ==
  /\ Proxy /\ req[r].pc = "got" /\ lock = None
  /\ IF Retries(r, built /\ setup.refresh)
       THEN Goto(r, "mark")
       ELSE Answered(r, IF req[r].in.path = "count" THEN CountAnswer(req[r].up)
                        ELSE Answer(req[r].in, req[r].up))
  /\ UNCHANGED <<setup, lock, built, creds, stale, stream>>

\* mark_stale_slot: the guard is dropped when the slot is marked.
MutMarkedBy(r) == r
MarkedBy(r) == None
MarkStale(r) ==
  /\ Proxy /\ req[r].pc = "mark" /\ lock = None
  /\ stale' = TRUE /\ lock' = MarkedBy(r)
  /\ req' = [req EXCEPT ![r].pc = "token", ![r].retried = TRUE]
  /\ UNCHANGED <<setup, built, creds, stream>>

\* WireClient: access_token, then post_json.
ClientSend(r) ==
  /\ ~Proxy /\ req[r].pc = "token"
  /\ \/ req' = [req EXCEPT ![r].pc = "sent", ![r].sends = @ + 1] /\ stale' = FALSE
     \/ Answered(r, Reply(401, "error")) /\ UNCHANGED stale
  /\ UNCHANGED <<setup, lock, built, creds, stream>>

\* post_json_auth_retry, get_url_auth_retry: one more try after a 401.
ClientCheck(r) ==
  /\ ~Proxy /\ req[r].pc = "got"
  /\ IF Retries(r, setup.refresh)
       THEN req' = [req EXCEPT ![r].pc = "token", ![r].retried = TRUE] /\ stale' = TRUE
       ELSE Answered(r, ClientAnswer(req[r].up)) /\ UNCHANGED stale
  /\ UNCHANGED <<setup, lock, built, creds, stream>>

\* `auth login` in another process writes the creds file.
Login ==
  /\ ~Streaming /\ ~creds /\ creds' = TRUE
  /\ UNCHANGED <<setup, req, lock, built, stale, stream>>

-----------------------------------------------------------------------------
(* A streamed answer.                                                      *)

Push(chunk) ==
  IF ~Proxy THEN ClientPush(gate, setup.wire, up.kind, up.page, chunk)
  ELSE IF setup.same THEN GatePush(gate, setup.wire, up.kind, up.page, chunk)
  ELSE MappedPush(gate, setup.wire, up.kind, up.page, chunk)
AtEnd ==
  IF ~Proxy THEN ClientFinish(gate, setup.wire, up.kind, up.page, up.whole)
  ELSE IF setup.same THEN GateFinish(gate, setup.wire, up.kind, up.page, up.whole)
  ELSE MappedFinish(gate, setup.wire, up.kind, up.page, up.whole)

\* One read of any size.
ReadChunk ==
  /\ Streaming /\ ~done /\ up.pos < up.cut
  /\ \E n \in 1..(up.cut - up.pos) :
       LET p == Push(SubSeq(Bytes(up), up.pos + 1, up.pos + n)) IN
       /\ up' = [up EXCEPT !.pos = @ + n]
       /\ gate' = p.g /\ out' = out \o p.out /\ done' = p.stop
  /\ UNCHANGED <<setup, req, lock, built, creds, stale>>

\* The bytes end, or the transport fails: then the reader is not asked.
EndStream ==
  /\ Streaming /\ ~done /\ up.pos = up.cut
  /\ out' = out \o (IF up.end = "error" THEN Whole(ErrorId) ELSE AtEnd)
  /\ done' = TRUE
  /\ UNCHANGED <<setup, req, lock, built, creds, stale, up, gate>>

Finished == (Streaming /\ done) \/ \A r \in Requests : req[r].pc = "answered"
Stop == Finished /\ (Streaming \/ creds) /\ UNCHANGED vars

RequestStep(r) == \/ Accept(r) \/ TakeLock(r) \/ Resolve(r) \/ Send(r) \/ Receive(r)
                  \/ Check(r) \/ MarkStale(r) \/ ClientSend(r) \/ ClientCheck(r)
Next == (\E r \in Requests : RequestStep(r)) \/ Login \/ ReadChunk \/ EndStream \/ Stop

\* tokio runs every ready task, a read or connect that hangs runs into its
\* timeout, and tokio's mutex is served in order.
Fairness == \A r \in Requests : SF_vars(RequestStep(r))
Spec == Init /\ [][Next]_vars /\ Fairness

-----------------------------------------------------------------------------
(* Properties.                                                             *)

\* A request goes upstream at most twice, and twice only when its first answer
\* was a 401 and the provider can refresh: a vendor that keeps answering 401 is
\* not hammered (send_upstream, post_json_auth_retry).
OneRetry ==
  \A r \in Requests : /\ req[r].sends <= 2
                      /\ req[r].sends = 2 => req[r].seen401 /\ setup.refresh

\* A request that comes in after `auth login` wrote the creds file is never
\* refused for want of credentials, whatever failed before (resolve_proxy_token).
LoginPickedUp ==
  \A r \in Requests : req[r].ans.what = "noCreds" => ~req[r].had

\* A vendor's failure or a page inside HTTP 200 never reaches the caller as a
\* success, and a completion is never turned into an error.
ErrorsLookLikeErrors ==
  \A r \in Requests : req[r].pc = "answered" /\ req[r].up.status = 200 /\ req[r].ans.what # "refused" =>
    CASE req[r].up.body \in {"failure", "page", "huge"} ->
           ~Ok(req[r].ans.status) \/ req[r].ans.what \in {"errorEvent", "error"}
      [] OTHER -> Ok(req[r].ans.status) \/ ~req[r].up.json \/ req[r].sends = 0

\* Every request is answered, also when others hold the provider's mutex and
\* ask for refreshed tokens.
EveryRequestAnswered ==
  \A r \in Requests : (req[r].pc = "token") ~> (req[r].pc = "answered")

\* The bytes of all frames but the vendor's [DONE].
Sans(bytes) == Without({i \in DOMAIN up.kind : up.kind[i] = "done"}, bytes)
NoErrorFrames == up.page = None /\ \A i \in DOMAIN up.kind : up.kind[i] \in {"text", "term", "done"}
HasTerminal(n) == \E i \in DOMAIN up.kind : 2 * i <= n /\ Terminal(setup.wire, up.kind[i])
EndsInError == Len(out) >= 2 /\ out[Len(out)][1] = ErrorId

\* However the stream is cut into reads, the caller gets the vendor's bytes in
\* order, none twice; [DONE] aside, all of them once the vendor finished.
BytesKept ==
  Streaming /\ NoErrorFrames =>
    /\ IsPrefix(Without({ErrorId}, Sans(out)), Sans(Bytes(up)))
    /\ done /\ up.cut = Len(Bytes(up)) /\ up.end = "eof" /\ HasTerminal(up.cut)
         => Sans(out) = Sans(Bytes(up))

\* The frame the bytes broke off in.
CutFrame == {i \in DOMAIN up.kind : 2 * i - 1 = up.cut}
\* What finish can read of it ends the stream: all but its blank line came, or,
\* on the same wire, the event line of a Responses terminal frame.
CutFrameEnds ==
  \E i \in CutFrame : \/ up.whole /\ (Terminal(setup.wire, up.kind[i]) \/ up.kind[i] = "error")
                      \/ Proxy /\ setup.same /\ NamedTerminal(setup.wire, up.kind[i])
\* The reader met a frame over the cap or with a bad checksum.
GivenUp(n) == \E i \in DOMAIN up.kind : 2 * i <= n /\ up.kind[i] \in {"big", "bad"}
\* The vendor's own error frame or exception was handed on.
ShowsError(bytes) ==
  \E j \in DOMAIN bytes : /\ bytes[j][2] = 2 /\ bytes[j][1] \in DOMAIN up.kind
                         /\ up.kind[bytes[j][1]] \in {"error", "exc"}

\* The caller learns of every stream that has no terminal frame, that a cap or a
\* checksum made the reader give up, or whose transport failed, whatever arrived
\* before: the last thing it gets is an error, or it got the vendor's own.  Only a
\* JSON completion is promoted instead (SameWireGate::finish, map_sse_stream,
\* pull_live).
TruncationReported ==
  Streaming /\ done
  /\ ( \/ up.end = "error" \/ GivenUp(up.pos)
       \/ ~HasTerminal(up.cut) /\ ~CutFrameEnds) =>
    EndsInError \/ ShowsError(out) \/ (up.page = "completion" /\ out = Whole(PromotedId))

\* Behind an error frame no [DONE] is handed on, also one that arrives in
\* pieces: the caller must not take a failed stream for a finished one.
NoDoneAfterError ==
  Streaming /\ setup.same =>
    \A i, j \in DOMAIN out :
      i < j /\ out[i][1] \in DOMAIN up.kind /\ out[j][1] \in DOMAIN up.kind /\ out[i][2] = 2
      /\ IsError(up.kind[out[i][1]]) => up.kind[out[j][1]] # "done"

\* An error frame of the vendor reaches a caller on the same wire as it was sent
\* (test same_wire_in_band_sse_error_is_unchanged).
InBandErrorUnchanged ==
  Streaming /\ Proxy /\ setup.same /\ done /\ up.cut = Len(Bytes(up)) /\ up.end = "eof" /\ up.page = None
  /\ (\A i \in DOMAIN up.kind : up.kind[i] \in {"text", "error"})
  /\ (\E i \in DOMAIN up.kind : up.kind[i] = "error")
    => out = Bytes(up)
=============================================================================
