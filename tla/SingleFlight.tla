---------------------------- MODULE SingleFlight ----------------------------
(***************************************************************************)
(* What InFlight of wiremux-auth/src/helpers.rs promises its callers, with *)
(* no slot, lock, store or vendor in sight: calls for one key that overlap *)
(* share one flight and one outcome.  A call leads only when no other call *)
(* for its key is leading; a call that waits gets the outcome of the very  *)
(* flight it joined, or a failure when that flight's leader goes away.     *)
(***************************************************************************)
CONSTANTS Caller, Key, KeyOf,
          NoCaller,       \* not waiting for anybody
          Outcome,        \* what a call may end with
          Pending,        \* no outcome yet
          Failed,         \* the outcome of an aborted flight
          Told(_)         \* what a follower hears of a leader's outcome

VARIABLES role,     \* out, asking, leading, landed or waiting
          leader,   \* the call whose outcome a waiting call will share
          outcome   \* of the last flight, shown once it has landed

fvars == <<role, leader, outcome>>

FlightInit ==
  /\ role = [c \in Caller |-> "out"]
  /\ leader = [c \in Caller |-> NoCaller]
  /\ outcome = [c \in Caller |-> Pending]

Leads(c, k) == KeyOf[c] = k /\ role[c] = "leading"
Waiting(c) == {f \in Caller : role[f] = "waiting" /\ leader[f] = c}

\* A call is answered from memory, or its caller discards the answer.
Direct(c) ==
  /\ role[c] = "out"
  /\ \E r \in Outcome : outcome' = [outcome EXCEPT ![c] = r]
  /\ UNCHANGED <<role, leader>>

Ask(c) ==
  /\ role[c] = "out"
  /\ role' = [role EXCEPT ![c] = "asking"]
  /\ outcome' = [outcome EXCEPT ![c] = Pending]
  /\ UNCHANGED leader

TakeOff(c) ==
  /\ role[c] = "asking"
  /\ ~\E d \in Caller : Leads(d, KeyOf[c])
  /\ role' = [role EXCEPT ![c] = "leading"]
  /\ UNCHANGED <<leader, outcome>>

Board(c) ==
  /\ role[c] = "asking"
  /\ \E d \in Caller : /\ Leads(d, KeyOf[c])
                       /\ leader' = [leader EXCEPT ![c] = d]
  /\ role' = [role EXCEPT ![c] = "waiting"]
  /\ UNCHANGED outcome

\* The outcome is decided, once; the next flight may take off from here on.
Land(c) ==
  /\ role[c] = "leading"
  /\ \E r \in Outcome : outcome' = [outcome EXCEPT ![c] = r]
  /\ role' = [role EXCEPT ![c] = "landed"]
  /\ UNCHANGED leader

\* c leaves, with everybody who waits for it, who are told r.
Leave(c, r) ==
  /\ role' = [f \in Caller |-> IF f = c \/ f \in Waiting(c) THEN "out" ELSE role[f]]
  /\ leader' = [f \in Caller |-> IF f = c \/ f \in Waiting(c) THEN NoCaller ELSE leader[f]]
  /\ outcome' = [f \in Caller |-> IF f \in Waiting(c) THEN r ELSE outcome[f]]

Arrive(c) == role[c] = "landed" /\ Leave(c, Told(outcome[c]))

Abort(c) == role[c] \in {"leading", "waiting"} /\ Leave(c, Failed)

\* The process behind the key dies with all its calls.
Die(k) ==
  LET gone(f, none) == [c \in Caller |-> IF KeyOf[c] = k THEN none ELSE f[c]] IN
  /\ role' = gone(role, "out")
  /\ leader' = gone(leader, NoCaller)
  /\ outcome' = gone(outcome, Pending)

FlightNext ==
  \/ \E c \in Caller : \/ Direct(c) \/ Ask(c) \/ TakeOff(c) \/ Board(c)
                       \/ Land(c) \/ Arrive(c) \/ Abort(c)
  \/ \E k \in Key : Die(k)

FlightSpec == FlightInit /\ [][FlightNext]_fvars
=============================================================================
