------------------------- MODULE ProxyRequestProofs -------------------------
(***************************************************************************)
(* Requests through the proxy and through WireClient, for any number of    *)
(* concurrent requests and any order of their steps.                       *)
(*                                                                         *)
(* How often a request went upstream says nothing by itself: it is tied to *)
(* where the request is and to whether its one retry is spent              *)
(* (SendsCounted).  A success of the vendor is in the hands of a request   *)
(* only until it is answered (VerdictPending), so what ErrorsLookLikeErrors*)
(* says is decided in the one step that answers it.                        *)
(***************************************************************************)
EXTENDS ProxyRequest, TLAPS

PCs == {"new", "token", "resolve", "headers", "sent", "got", "mark", "answered"}
NoAnswerYet == [status |-> 0, json |-> FALSE, body |-> None]

\* One request: the fields the properties are about, each in its set.
IsRequest(q) ==
  /\ DOMAIN q = DOMAIN NewRequest
  /\ q.pc \in PCs
  /\ q.in \in Inputs
  /\ q.sends \in Nat
  /\ q.seen401 \in BOOLEAN /\ q.retried \in BOOLEAN /\ q.had \in BOOLEAN
  /\ q.up \in Answers \cup {NoAnswerYet}

TypeInv ==
  /\ setup \in Setups
  /\ req = [r \in Requests |-> req[r]]
  /\ \A r \in Requests : IsRequest(req[r])
  /\ creds \in BOOLEAN

\* A request on its way has been sent once, and once more if it was retried.
SendsCounted(q) ==
  /\ q.pc = "new" => q.sends = 0 /\ ~q.retried
  /\ q.pc \in {"token", "resolve", "headers"} => q.sends = IF q.retried THEN 1 ELSE 0
  /\ q.pc \in {"sent", "got"} => q.sends = IF q.retried THEN 2 ELSE 1
  /\ q.pc = "mark" => q.sends = 1 /\ ~q.retried /\ q.seen401 /\ setup.refresh
  /\ q.pc = "got" /\ q.up.status = 401 => q.seen401
  /\ q.retried => q.seen401 /\ setup.refresh
  /\ q.sends <= 2
  /\ q.sends = 2 => q.retried

\* Whoever saw the creds file at the door can rely on it.
CredsSeen(q) ==
  /\ Proxy /\ q.had => creds
  /\ q.ans.what = "noCreds" => ~q.had
  /\ q.pc # "answered" => q.ans.what # "noCreds"

\* A success of the vendor is judged when the request is answered.
Verdict(q) ==
  q.pc = "answered" /\ q.up.status = 200 /\ q.ans.what # "refused" =>
    IF q.up.body \in {"failure", "page", "huge"}
      THEN ~Ok(q.ans.status) \/ q.ans.what \in {"errorEvent", "error"}
      ELSE Ok(q.ans.status)
VerdictPending(q) ==
  /\ q.up.status = 200 => q.pc \in {"got", "answered"}
  /\ q.pc = "got" => q.up \in Answers
  /\ Verdict(q)

RequestInv(q) == SendsCounted(q) /\ CredsSeen(q) /\ VerdictPending(q)

IInv == /\ TypeInv
        /\ \A r \in Requests : RequestInv(req[r])
-----------------------------------------------------------------------------
\* A step of one request, the rest of the proxy's state as it was.
LEMMA OneRequestMoves ==
  ASSUME IInv, NEW r \in Requests, NEW q, IsRequest(q), RequestInv(q),
         req' = [req EXCEPT ![r] = q], UNCHANGED <<setup, creds>>
  PROVE  IInv'
  <1>1. req' = [s \in Requests |-> IF s = r THEN q ELSE req[s]]
    BY DEF IInv, TypeInv
  <1>2. TypeInv'
    BY <1>1 DEF IInv, TypeInv
  <1>3. ASSUME NEW s \in Requests PROVE RequestInv(req[s])'
    <2>1. RequestInv(req'[s])
      BY <1>1 DEF IInv
    <2> QED
      BY <2>1 DEF RequestInv, SendsCounted, CredsSeen, VerdictPending, Verdict, Proxy
  <1> QED
    BY <1>2, <1>3 DEF IInv

\* The fields of a request that was moved on.
LEMMA MovedRequest ==
  ASSUME NEW q, IsRequest(q), NEW pc \in PCs
  PROVE  /\ IsRequest([q EXCEPT !.pc = pc])
         /\ \A ans : IsRequest([q EXCEPT !.pc = pc, !.ans = ans])
  BY DEF IsRequest, NewRequest

\* Answering: what is left to show is about the reply.
LEMMA AnsweredRequest ==
  ASSUME IInv, NEW r \in Requests, NEW ans, Answered(r, ans), UNCHANGED <<setup, creds>>,
         req[r].pc # "answered",
         ans.what = "noCreds" => ~req[r].had,
         req[r].up.status = 200 /\ ans.what # "refused" =>
           IF req[r].up.body \in {"failure", "page", "huge"}
             THEN ~Ok(ans.status) \/ ans.what \in {"errorEvent", "error"}
             ELSE Ok(ans.status)
  PROVE  IInv'
  <1> DEFINE q == [req[r] EXCEPT !.pc = "answered", !.ans = ans]
  <1>1. IsRequest(req[r]) /\ RequestInv(req[r])
    BY DEF IInv, TypeInv
  <1>2. req' = [req EXCEPT ![r] = q]
    BY DEF Answered, IInv, TypeInv
  <1>3. IsRequest(q)
    BY <1>1, MovedRequest DEF PCs
  <1>4. RequestInv(q)
    BY <1>1 DEF RequestInv, SendsCounted, CredsSeen, VerdictPending, Verdict,
                IsRequest, NewRequest
  <1> QED
    BY <1>2, <1>3, <1>4, OneRequestMoves
-----------------------------------------------------------------------------
\* What the proxy makes of an answer: a failure, a page or a body over the cap
\* inside HTTP 200 is told as an error, a completion as a success.
LEMMA AnswersJudged ==
  ASSUME NEW a \in Answers, NEW in
  PROVE  \A ans \in {Answer(in, a), CountAnswer(a), ClientAnswer(a)} :
           /\ ans.what # "noCreds"
           /\ a.status = 200 =>
                IF a.body \in {"failure", "page", "huge"}
                  THEN ~Ok(ans.status) \/ ans.what \in {"errorEvent", "error"}
                  ELSE Ok(ans.status)
  <1>1. \A s, w : Reply(s, w).status = s /\ Reply(s, w).what = w
    BY DEF Reply
  <1>2. Ok(200) /\ ~Ok(502) /\ ~Ok(400)
    BY DEF Ok
  <1>3. /\ a.body \in {"failure", "completion", "page", "huge"}
        /\ ~a.json => a.body = "page"
    BY DEF Answers
  <1>4. /\ Answer(in, a).what # "noCreds"
        /\ a.status = 200 =>
             IF a.body \in {"failure", "page", "huge"}
               THEN ~Ok(Answer(in, a).status) \/ Answer(in, a).what \in {"errorEvent", "error"}
               ELSE Ok(Answer(in, a).status)
    BY <1>1, <1>2, <1>3 DEF Answer, Rejected
  <1>5. /\ CountAnswer(a).what # "noCreds"
        /\ a.status = 200 =>
             IF a.body \in {"failure", "page", "huge"}
               THEN ~Ok(CountAnswer(a).status) \/ CountAnswer(a).what \in {"errorEvent", "error"}
               ELSE Ok(CountAnswer(a).status)
    BY <1>1, <1>2, <1>3 DEF CountAnswer, Rejected
  <1>6. /\ ClientAnswer(a).what # "noCreds"
        /\ a.status = 200 =>
             IF a.body \in {"failure", "page", "huge"}
               THEN ~Ok(ClientAnswer(a).status) \/ ClientAnswer(a).what \in {"errorEvent", "error"}
               ELSE Ok(ClientAnswer(a).status)
    BY <1>1, <1>2, <1>3 DEF ClientAnswer
  <1> QED
    BY <1>4, <1>5, <1>6

\* A request that has not the vendor's answer yet is refused or failed.
LEMMA AnsweredEarly ==
  ASSUME IInv, NEW r \in Requests, NEW status, NEW what, Answered(r, Reply(status, what)),
         UNCHANGED <<setup, creds>>, req[r].pc \notin {"got", "answered"},
         what = "noCreds" => ~req[r].had
  PROVE  IInv'
  <1>1. req[r].up.status # 200
    BY DEF IInv, RequestInv, VerdictPending
  <1>2. Reply(status, what).what = what
    BY DEF Reply
  <1> QED
    BY <1>1, <1>2, AnsweredRequest

\* The vendor has answered, and the answer is passed on.
LEMMA AnsweredVerdict ==
  ASSUME IInv, NEW r \in Requests, req[r].pc = "got", UNCHANGED <<setup, creds>>,
         NEW ans \in {Answer(req[r].in, req[r].up), CountAnswer(req[r].up), ClientAnswer(req[r].up)},
         Answered(r, ans)
  PROVE  IInv'
  <1>1. req[r].up \in Answers
    BY DEF IInv, RequestInv, VerdictPending
  <1> QED
    BY <1>1, AnswersJudged, AnsweredRequest

\* A request goes to another place and nothing else of it changes.
LEMMA MovesTo ==
  ASSUME IInv, NEW r \in Requests, NEW pc \in PCs, Goto(r, pc), UNCHANGED <<setup, creds>>,
         \/ req[r].pc \in {"token", "resolve"} /\ pc \in {"resolve", "headers"}
         \/ /\ req[r].pc = "got" /\ pc = "mark"
            /\ req[r].up.status = 401 /\ ~req[r].retried /\ setup.refresh
  PROVE  IInv'
  <1> DEFINE q == [req[r] EXCEPT !.pc = pc]
  <1>1. IsRequest(req[r]) /\ RequestInv(req[r])
    BY DEF IInv, TypeInv
  <1>2. req' = [req EXCEPT ![r] = q]
    BY DEF Goto, IInv, TypeInv
  <1>3. IsRequest(q)
    BY <1>1 DEF IsRequest, NewRequest
  <1>4. RequestInv(q)
    BY <1>1 DEF RequestInv, SendsCounted, CredsSeen, VerdictPending, Verdict,
                IsRequest, NewRequest
  <1> QED
    BY <1>2, <1>3, <1>4, OneRequestMoves

\* Every step of a request.
LEMMA RequestPreserves ==
  ASSUME IInv, NEW r \in Requests, RequestStep(r)
  PROVE  IInv'
  <1>0. IsRequest(req[r]) /\ RequestInv(req[r]) /\ req = [s \in Requests |-> req[s]]
    BY DEF IInv, TypeInv
  <1> USE DEF RequestInv, SendsCounted, CredsSeen, VerdictPending, Verdict
  <1>1. CASE Accept(r)
    <2>1. CASE ~Proxy
      <3> DEFINE q == [req[r] EXCEPT !.pc = "token", !.had = TRUE]
      <3>1. req' = [req EXCEPT ![r] = q] /\ UNCHANGED <<setup, creds>> /\ req[r].pc = "new"
        BY <1>0, <1>1, <2>1 DEF Accept
      <3>2. IsRequest(q) /\ RequestInv(q)
        BY <1>0, <2>1, <3>1 DEF IsRequest, NewRequest, PCs
      <3> QED
        BY <3>1, <3>2, OneRequestMoves
    <2>2. CASE Proxy
      <3>1. PICK in \in Inputs :
              IF Refusal(in) # 0
                THEN Answered(r, Reply(Refusal(in), "refused"))
                ELSE req' = [req EXCEPT ![r].pc = "token", ![r].in = in, ![r].had = creds]
        BY <1>1, <2>2 DEF Accept
      <3>2. UNCHANGED <<setup, creds>> /\ req[r].pc = "new"
        BY <1>1 DEF Accept
      <3>3. CASE Refusal(in) # 0
        BY <3>1, <3>2, <3>3, AnsweredEarly
      <3>4. CASE Refusal(in) = 0
        <4> DEFINE q == [req[r] EXCEPT !.pc = "token", !.in = in, !.had = creds]
        <4>1. req' = [req EXCEPT ![r] = q]
          BY <1>0, <3>1, <3>4
        <4>2. in \in Inputs
          OBVIOUS
        <4>3. IsRequest(q)
          BY <1>0, <4>2 DEF IsRequest, NewRequest, PCs, IInv, TypeInv
        <4>4. RequestInv(q)
          BY <1>0, <2>2, <3>2 DEF IsRequest, NewRequest
        <4> QED
          BY <3>2, <4>1, <4>3, <4>4, OneRequestMoves
      <3> QED
        BY <3>3, <3>4
    <2> QED
      BY <2>1, <2>2
  <1>2. CASE TakeLock(r)
    <2>1. Goto(r, "resolve") /\ req[r].pc = "token" /\ UNCHANGED <<setup, creds>>
      BY <1>2 DEF TakeLock
    <2> QED
      BY <2>1, MovesTo DEF PCs
  <1>3. CASE Resolve(r)
    <2>1. req[r].pc = "resolve" /\ UNCHANGED <<setup, creds>> /\ Proxy
      BY <1>3 DEF Resolve
    <2>2. \/ Goto(r, "headers")
          \/ Answered(r, Reply(401, "noCreds")) /\ ~creds
          \/ \E s \in {401, 502} : Answered(r, Reply(s, "error"))
      BY <1>3 DEF Resolve, Build
    <2>3. CASE Goto(r, "headers")
      BY <2>1, <2>3, MovesTo DEF PCs
    <2>4. CASE Answered(r, Reply(401, "noCreds")) /\ ~creds
      <3>1. ~req[r].had
        BY <1>0, <2>1, <2>4
      <3> QED
        BY <2>1, <2>4, <3>1, AnsweredEarly
    <2>5. CASE \E s \in {401, 502} : Answered(r, Reply(s, "error"))
      BY <2>1, <2>5, AnsweredEarly
    <2> QED
      BY <2>2, <2>3, <2>4, <2>5
  <1>4. CASE Send(r)
    <2>1. req[r].pc = "headers" /\ UNCHANGED <<setup, creds>>
      BY <1>4 DEF Send
    <2>2. CASE \E s \in {401, 502} : Answered(r, Reply(s, "error"))
      BY <2>1, <2>2, AnsweredEarly
    <2>3. CASE req' = [req EXCEPT ![r].pc = "sent", ![r].sends = @ + 1]
      <3> DEFINE q == [req[r] EXCEPT !.pc = "sent", !.sends = @ + 1]
      <3>1. req' = [req EXCEPT ![r] = q]
        BY <1>0, <2>3
      <3>2. IsRequest(q)
        BY <1>0 DEF IsRequest, NewRequest, PCs
      <3>3. RequestInv(q)
        BY <1>0, <2>1 DEF IsRequest, NewRequest
      <3> QED
        BY <2>1, <3>1, <3>2, <3>3, OneRequestMoves
    <2> QED
      BY <1>4, <2>2, <2>3 DEF Send
  <1>5. CASE Receive(r)
    <2>1. req[r].pc = "sent" /\ UNCHANGED <<setup, creds>>
      BY <1>5 DEF Receive
    <2>2. CASE Answered(r, Reply(502, "error"))
      BY <2>1, <2>2, AnsweredEarly
    <2>3. ASSUME NEW a \in Answers,
                 req' = [req EXCEPT ![r].pc = "got", ![r].up = a, ![r].seen401 = @ \/ a.status = 401]
          PROVE  IInv'
      <3> DEFINE q == [req[r] EXCEPT !.pc = "got", !.up = a, !.seen401 = @ \/ a.status = 401]
      <3>1. req' = [req EXCEPT ![r] = q]
        BY <1>0, <2>3
      <3>2. IsRequest(q)
        BY <1>0 DEF IsRequest, NewRequest, PCs
      <3>3. /\ q.pc = "got" /\ q.up = a /\ q.seen401 = (req[r].seen401 \/ a.status = 401)
            /\ q.in = req[r].in /\ q.sends = req[r].sends /\ q.retried = req[r].retried
            /\ q.had = req[r].had /\ q.ans = req[r].ans
        BY <1>0 DEF IsRequest, NewRequest
      <3>4. RequestInv(q)
        <4> HIDE DEF q
        <4>1. (req[r].seen401 \/ a.status = 401) => q.seen401
          BY <3>3, Zenon
        <4>2. q.pc = "got" /\ req[r].pc = "sent" /\ q.up \in Answers /\ q.up.status = a.status
          BY <2>1, <3>3
        <4>3. SendsCounted(q)
          BY <1>0, <3>3, <4>1, <4>2 DEF IsRequest
        <4>4. CredsSeen(q) /\ VerdictPending(q)
          BY <1>0, <3>3, <4>2
        <4> QED
          BY <4>3, <4>4
      <3> QED
        BY <2>1, <3>1, <3>2, <3>4, OneRequestMoves
    <2>4. \/ \E a \in Answers :
               req' = [req EXCEPT ![r].pc = "got", ![r].up = a, ![r].seen401 = @ \/ a.status = 401]
          \/ Answered(r, Reply(502, "error"))
      BY <1>5 DEF Receive
    <2> QED
      BY <2>2, <2>3, <2>4
  <1>6. CASE Check(r)
    <2>1. req[r].pc = "got" /\ UNCHANGED <<setup, creds>>
      BY <1>6 DEF Check
    <2>2. CASE Retries(r, built /\ setup.refresh)
      BY <1>6, <2>1, <2>2, MovesTo DEF Check, Retries, PCs
    <2>3. CASE ~Retries(r, built /\ setup.refresh)
      <3>1. PICK ans \in {Answer(req[r].in, req[r].up), CountAnswer(req[r].up)} : Answered(r, ans)
        BY <1>6, <2>3 DEF Check
      <3> QED
        BY <1>0, <2>1, <3>1, AnsweredVerdict
    <2> QED
      BY <2>2, <2>3
  <1>7. CASE MarkStale(r)
    <2> DEFINE q == [req[r] EXCEPT !.pc = "token", !.retried = TRUE]
    <2>1. /\ req' = [req EXCEPT ![r] = q] /\ UNCHANGED <<setup, creds>>
          /\ req[r].pc = "mark"
      BY <1>0, <1>7 DEF MarkStale
    <2>2. IsRequest(q) /\ RequestInv(q)
      BY <1>0, <2>1 DEF IsRequest, NewRequest, PCs
    <2> QED
      BY <2>1, <2>2, OneRequestMoves
  <1>8. CASE ClientSend(r)
    <2>1. req[r].pc = "token" /\ UNCHANGED <<setup, creds>> /\ ~Proxy
      BY <1>8 DEF ClientSend, IInv
    <2>2. CASE Answered(r, Reply(401, "error"))
      BY <2>1, <2>2, AnsweredEarly
    <2>3. CASE req' = [req EXCEPT ![r].pc = "sent", ![r].sends = @ + 1]
      <3> DEFINE q == [req[r] EXCEPT !.pc = "sent", !.sends = @ + 1]
      <3>1. req' = [req EXCEPT ![r] = q]
        BY <1>0, <2>3
      <3>2. IsRequest(q)
        BY <1>0 DEF IsRequest, NewRequest, PCs
      <3>3. RequestInv(q)
        BY <1>0, <2>1 DEF IsRequest, NewRequest, Fine
      <3> QED
        BY <2>1, <3>1, <3>2, <3>3, OneRequestMoves
    <2> QED
      BY <1>8, <2>2, <2>3 DEF ClientSend
  <1>9. CASE ClientCheck(r)
    <2>1. req[r].pc = "got" /\ UNCHANGED <<setup, creds>> /\ ~Proxy
      BY <1>9 DEF ClientCheck
    <2>2. CASE Retries(r, setup.refresh)
      <3> DEFINE q == [req[r] EXCEPT !.pc = "token", !.retried = TRUE]
      <3>1. /\ req' = [req EXCEPT ![r] = q]
            /\ req[r].up.status = 401 /\ ~req[r].retried /\ setup.refresh
        BY <1>0, <1>9, <2>2 DEF ClientCheck, Retries
      <3>2. IsRequest(q) /\ RequestInv(q)
        BY <1>0, <2>1, <3>1 DEF IsRequest, NewRequest, PCs
      <3> QED
        BY <2>1, <3>1, <3>2, OneRequestMoves
    <2>3. CASE ~Retries(r, setup.refresh)
      <3>1. Answered(r, ClientAnswer(req[r].up))
        BY <1>9, <2>3 DEF ClientCheck
      <3> QED
        BY <1>0, <2>1, <3>1, AnsweredVerdict
    <2> QED
      BY <2>2, <2>3
  <1> QED
    BY <1>1, <1>2, <1>3, <1>4, <1>5, <1>6, <1>7, <1>8, <1>9 DEF RequestStep
-----------------------------------------------------------------------------
\* The invariant holds of every request, whatever the others do.
THEOREM RequestsInvariance == Spec => []IInv
  <1>1. Init => IInv
    <2> SUFFICES ASSUME Init PROVE IInv
      OBVIOUS
    <2>1. /\ req = [r \in Requests |-> NewRequest]
          /\ setup \in Setups /\ creds \in BOOLEAN
      BY DEF Init
    <2>2. \A r \in Requests : req[r] = NewRequest
      BY <2>1
    <2>3. IsRequest(NewRequest)
      BY DEF IsRequest, NewRequest, PCs, Inputs, NoAnswerYet, Reply
    <2>4. RequestInv(NewRequest)
      BY DEF RequestInv, SendsCounted, CredsSeen, VerdictPending, Verdict,
             NewRequest, Reply, None
    <2>5. TypeInv
      BY <2>1, <2>2, <2>3 DEF TypeInv
    <2> QED
      BY <2>1, <2>2, <2>4, <2>5 DEF IInv
  <1>2. IInv /\ [Next]_vars => IInv'
    <2> SUFFICES ASSUME IInv, [Next]_vars PROVE IInv'
      OBVIOUS
    <2>1. CASE \E r \in Requests : RequestStep(r)
      BY <2>1, RequestPreserves
    <2>2. CASE Login
      <3>1. UNCHANGED <<setup, req>> /\ creds' = TRUE
        BY <2>2 DEF Login
      <3> QED
        BY <3>1 DEF IInv, TypeInv, RequestInv, SendsCounted, CredsSeen,
                    VerdictPending, Verdict, Proxy
    <2>3. CASE UNCHANGED <<setup, req, creds>>
      BY <2>3 DEF IInv, TypeInv, RequestInv, SendsCounted, CredsSeen,
                  VerdictPending, Verdict, Proxy
    <2> QED
      BY <2>1, <2>2, <2>3 DEF Next, ReadChunk, EndStream, Stop, vars
  <1> QED
    BY <1>1, <1>2, PTL DEF Spec

\* send_upstream and post_json_auth_retry: a vendor that keeps answering 401 gets
\* a request twice at most, and twice only from a provider that can refresh.
THEOREM RetriedOnce == Spec => []OneRetry
  <1>1. IInv => OneRetry
    BY DEF IInv, RequestInv, SendsCounted, OneRetry
  <1> QED
    BY RequestsInvariance, <1>1, PTL

\* resolve_proxy_token keeps no failed provider: a request that comes in after a
\* login is not refused for want of credentials.
THEOREM LoginIsPickedUp == Spec => []LoginPickedUp
  <1>1. IInv => LoginPickedUp
    BY DEF IInv, RequestInv, CredsSeen, LoginPickedUp
  <1> QED
    BY RequestsInvariance, <1>1, PTL

\* handle_inner, handle_count and WireClient::send: an error inside HTTP 200 is
\* told as an error and a completion as a success.
THEOREM ErrorsAreTold == Spec => []ErrorsLookLikeErrors
  <1>1. IInv => ErrorsLookLikeErrors
    BY DEF IInv, RequestInv, VerdictPending, Verdict, ErrorsLookLikeErrors
  <1> QED
    BY RequestsInvariance, <1>1, PTL
=============================================================================
