---------------------------- MODULE RequestReply ----------------------------
(***************************************************************************)
(* What a caller of `Bridge::request` (src/src/bridge/client.rs) is        *)
(* promised, with no channel, lock, map or reader task in sight: every     *)
(* request ends once, it ends with an answer only if the peer got it, and  *)
(* the failure it reports is the one that happened.                        *)
(***************************************************************************)
CONSTANT Requests    \* the calls of Bridge::request, one fresh id each

VARIABLES
  status,            \* what the caller of each request knows
  reached,           \* the requests the peer got, so may have answered
  down               \* whether the connection is lost

rrVars == <<status, reached, down>>

Answers  == {"ok", "command"}
Failures == {"io", "closed", "timeout"}
Statuses == {"idle", "active"} \cup Answers \cup Failures

Init ==
  /\ status = [r \in Requests |-> "idle"]
  /\ reached = {}
  /\ down = FALSE

(* A caller calls request().                                               *)
Start(r) ==
  /\ status[r] = "idle"
  /\ status' = [status EXCEPT ![r] = "active"]
  /\ UNCHANGED <<reached, down>>

(* The request reaches the peer, possibly after its caller gave up.        *)
Reach(r) ==
  /\ status[r] # "idle"
  /\ reached' = reached \cup {r}
  /\ UNCHANGED <<status, down>>

(* request() returns what the peer answered to this very request.          *)
Answer(r, a) ==
  /\ status[r] = "active"
  /\ r \in reached
  /\ status' = [status EXCEPT ![r] = a]
  /\ UNCHANGED <<reached, down>>

(* request() returns an error of its own; all but the timeout are true     *)
(* statements about the connection.                                        *)
Fail(r, f) ==
  /\ status[r] = "active"
  /\ f = "timeout" \/ down
  /\ status' = [status EXCEPT ![r] = f]
  /\ UNCHANGED <<reached, down>>

(* The connection is lost, for good: a Bridge never reconnects.            *)
GoDown ==
  /\ down' = TRUE
  /\ UNCHANGED <<status, reached>>

Resolve(r) == (\E a \in Answers : Answer(r, a)) \/ (\E f \in Failures : Fail(r, f))

Next == (\E r \in Requests : Start(r) \/ Reach(r) \/ Resolve(r)) \/ GoDown

Spec == Init /\ [][Next]_rrVars

FairSpec == Spec /\ \A r \in Requests : WF_rrVars(Resolve(r))
=============================================================================
