------------------------------- MODULE Bridge -------------------------------
(***************************************************************************)
(* The connected WebSocket client of src/src/bridge/client.rs: clones of   *)
(* one `Bridge` call `request` from several tokio tasks, a reader task     *)
(* routes the peer's frames, and the two meet in the `pending` map.        *)
(*                                                                         *)
(* A tokio mutex is explicit where it is held across an await (the         *)
(* writer); the `pending` mutex never is, so each of its critical sections *)
(* is one action.  A frame is one message: the JSON text is abstracted to  *)
(* what the client tells apart.  The peer (the bridge plugin in Helmor)    *)
(* and the transport are external: they answer in any order, late, twice   *)
(* or never, and the connection may fail at any moment.                    *)
(***************************************************************************)
EXTENDS Naturals, Sequences, FiniteSets

CONSTANTS
  Requests,          \* the calls of `request`; a request is its UUID
  NoRequest,         \* no request: a free lock, an id nobody waits for
  SendCap,           \* frames the transport takes while the peer reads none
  RecvCap            \* frames the peer may have on the way to the client

ASSUME RequestsAssumption == IsFiniteSet(Requests) /\ NoRequest \notin Requests
ASSUME CapAssumption == SendCap \in Nat \ {0} /\ RecvCap \in Nat \ {0}

VARIABLES
  pc,                \* where each call of `request` stands
  pending,           \* ids in the map `pending`
  chan,              \* the oneshot channel of each request
  got,               \* the frame in that channel once it is "sent"
  outcome,           \* what `request` returned
  reported,          \* the `pending` count inside ConnectionClosed
  writer,            \* the holder of the writer mutex
  reader,            \* the reader task
  link,              \* the TCP connection
  toPeer,            \* requests on the way to the peer
  received,          \* requests the peer has read
  fromPeer           \* frames on the way to the client, oldest first

callVars == <<pc, outcome, reported>>
netVars  == <<link, toPeer, received, fromPeer>>
vars == <<pc, pending, chan, got, outcome, reported, writer, reader,
          link, toPeer, received, fromPeer>>

Stages   == {"idle", "registered", "writing", "writefailed", "waiting", "expired", "done"}
Outcomes == {"none", "ok", "command", "io", "closed", "timeout"}
Channels == {"none", "open", "sent", "dropped"}

(* A BridgeResponse; "junk" stands for every frame the reader skips (not   *)
(* text, not JSON), "poison" for one that makes `read.next()` an error.    *)
Frames == [kind : {"response", "junk", "poison"},
           id : Requests \cup {NoRequest}, success : BOOLEAN]

Response(id, success) == [kind |-> "response", id |-> id, success |-> success]
Junk   == [kind |-> "junk", id |-> NoRequest, success |-> FALSE]
Poison == [kind |-> "poison", id |-> NoRequest, success |-> FALSE]

Init ==
  /\ pc = [r \in Requests |-> "idle"]
  /\ pending = {}
  /\ chan = [r \in Requests |-> "none"]
  /\ got = [r \in Requests |-> Junk]
  /\ outcome = [r \in Requests |-> "none"]
  /\ reported = [r \in Requests |-> 0]
  /\ writer = NoRequest
  /\ reader = "running"
  /\ link = "up"
  /\ toPeer = {}
  /\ received = {}
  /\ fromPeer = <<>>

-----------------------------------------------------------------------------
(* The caller's side: `request`.                                           *)

(* `request` returns `how`.                                                *)
Return(r, how) ==
  /\ pc' = [pc EXCEPT ![r] = "done"]
  /\ outcome' = [outcome EXCEPT ![r] = how]

(* pending.lock().await.remove(&id): the sender, if still there, is        *)
(* dropped with the entry.                                                 *)
Withdraw(r) ==
  /\ pending' = pending \ {r}
  /\ chan' = [chan EXCEPT ![r] = IF r \in pending THEN "dropped" ELSE @]

(* A fresh id, a oneshot channel, and its sender into the map.             *)
Register(r) ==
  /\ pc[r] = "idle"
  /\ pc' = [pc EXCEPT ![r] = "registered"]
  /\ pending' = pending \cup {r}
  /\ chan' = [chan EXCEPT ![r] = "open"]
  /\ UNCHANGED <<got, outcome, reported, writer, reader, netVars>>

(* writer.lock().await                                                     *)
LockWriter(r) ==
  /\ pc[r] = "registered"
  /\ writer = NoRequest
  /\ writer' = r
  /\ pc' = [pc EXCEPT ![r] = "writing"]
  /\ UNCHANGED <<pending, chan, got, outcome, reported, reader, netVars>>

(* writer.send(frame).await succeeds: the transport took the frame, and    *)
(* loses it if the connection is down.  While the transport is full and    *)
(* the connection up, the send stays pending with the writer locked: no    *)
(* timer runs yet.                                                         *)
SendOk(r) ==
  /\ pc[r] = "writing"
  /\ link = "down" \/ Cardinality(toPeer) < SendCap
  /\ toPeer' = IF link = "up" THEN toPeer \cup {r} ELSE toPeer
  /\ writer' = NoRequest
  /\ pc' = [pc EXCEPT ![r] = "waiting"]
  /\ UNCHANGED <<pending, chan, got, outcome, reported, reader, link, received, fromPeer>>

(* writer.send(frame).await fails; a frame whose flush failed may still    *)
(* have left.                                                              *)
SendFails(r) ==
  /\ pc[r] = "writing"
  /\ link = "down" \/ reader = "exited"
  /\ pc' = [pc EXCEPT ![r] = "writefailed"]
  /\ toPeer' \in IF link = "up" THEN {toPeer, toPeer \cup {r}} ELSE {toPeer}
  /\ UNCHANGED <<pending, chan, got, outcome, reported, writer, reader,
                 link, received, fromPeer>>

(* The entry of a failed write is removed under the writer lock, which     *)
(* the return releases.                                                    *)
AbortWrite(r) ==
  /\ pc[r] = "writefailed"
  /\ Withdraw(r)
  /\ Return(r, "io")
  /\ writer' = NoRequest
  /\ UNCHANGED <<got, reported, reader, netVars>>

(* The oneshot holds a response: into_result.                              *)
TakeResponse(r) ==
  /\ pc[r] = "waiting"
  /\ chan[r] = "sent"
  /\ Return(r, IF got[r].success THEN "ok" ELSE "command")
  /\ UNCHANGED <<pending, chan, got, reported, writer, reader, netVars>>

(* Mutant: the request leaves itself out of the count.                     *)
ObserveClosedOthers(r) ==
  /\ pc[r] = "waiting"
  /\ chan[r] = "dropped"
  /\ Return(r, "closed")
  /\ reported' = [reported EXCEPT ![r] = Cardinality(pending) - 1]
  /\ UNCHANGED <<pending, chan, got, writer, reader, netVars>>

(* The sender was dropped: the map's size is read now, not at the drop.    *)
ObserveClosed(r) ==
  /\ pc[r] = "waiting"
  /\ chan[r] = "dropped"
  /\ Return(r, "closed")
  /\ reported' = [reported EXCEPT ![r] = Cardinality(pending)]
  /\ UNCHANGED <<pending, chan, got, writer, reader, netVars>>

(* Mutant: the timer is looked at before the channel.                      *)
TimerFirst(r) ==
  /\ pc[r] = "waiting"
  /\ pc' = [pc EXCEPT ![r] = "expired"]
  /\ UNCHANGED <<pending, chan, got, outcome, reported, writer, reader, netVars>>

(* Mutant: rx.await with no timeout around it.                             *)
TimerNever(r) == pc[r] = "none" /\ UNCHANGED vars

(* The timer of `timeout(request_timeout, rx)` fires.  `timeout` polls rx  *)
(* first, so only a channel with nothing in it expires.                    *)
TimerFires(r) ==
  /\ pc[r] = "waiting"
  /\ chan[r] = "open"
  /\ pc' = [pc EXCEPT ![r] = "expired"]
  /\ UNCHANGED <<pending, chan, got, outcome, reported, writer, reader, netVars>>

(* Mutant: the entry of an expired request stays in the map.               *)
GiveUpLeaks(r) ==
  /\ pc[r] = "expired"
  /\ Return(r, "timeout")
  /\ UNCHANGED <<pending, chan, got, reported, writer, reader, netVars>>

(* The expired request takes its entry out of the map; the reader may have *)
(* been faster, then its response is lost with the receiver.               *)
GiveUp(r) ==
  /\ pc[r] = "expired"
  /\ Withdraw(r)
  /\ Return(r, "timeout")
  /\ UNCHANGED <<got, reported, writer, reader, netVars>>

(* What a call of `request` does once it has begun.                        *)
Proceed(r) ==
  \/ LockWriter(r) \/ SendOk(r) \/ SendFails(r) \/ AbortWrite(r)
  \/ TakeResponse(r) \/ ObserveClosed(r) \/ TimerFires(r) \/ GiveUp(r)

-----------------------------------------------------------------------------
(* The reader task.                                                        *)

(* Mutant: responses are matched by order of arrival, not by id.           *)
RouteToAny ==
  /\ reader = "running"
  /\ fromPeer # <<>>
  /\ LET f == Head(fromPeer) IN
       /\ f.kind # "poison"
       /\ fromPeer' = Tail(fromPeer)
       /\ IF f.kind = "response" /\ pending # {}
            THEN \E r \in pending :
                   /\ pending' = pending \ {r}
                   /\ chan' = [chan EXCEPT ![r] = "sent"]
                   /\ got' = [got EXCEPT ![r] = f]
            ELSE UNCHANGED <<pending, chan, got>>
  /\ UNCHANGED <<callVars, writer, reader, link, toPeer, received>>

(* Mutant: a frame without a waiter fails every waiter there is.           *)
RouteFailsAll ==
  /\ reader = "running"
  /\ fromPeer # <<>>
  /\ Head(fromPeer).kind # "poison"
  /\ fromPeer' = Tail(fromPeer)
  /\ pending' = {}
  /\ chan' = [r \in Requests |->
               IF r \notin pending THEN chan[r]
               ELSE IF r = Head(fromPeer).id THEN "sent" ELSE "dropped"]
  /\ got' = [r \in Requests |-> IF r \in pending /\ r = Head(fromPeer).id
                                THEN Head(fromPeer) ELSE got[r]]
  /\ UNCHANGED <<callVars, writer, reader, link, toPeer, received>>

(* One turn of the loop on a frame it can read: the waiter it names, if    *)
(* any, leaves the map and gets the response; any other frame is skipped.  *)
Route ==
  /\ reader = "running"
  /\ fromPeer # <<>>
  /\ LET f == Head(fromPeer) IN
       /\ f.kind # "poison"
       /\ fromPeer' = Tail(fromPeer)
       /\ IF f.kind = "response" /\ f.id \in pending
            THEN /\ pending' = pending \ {f.id}
                 /\ chan' = [chan EXCEPT ![f.id] = "sent"]
                 /\ got' = [got EXCEPT ![f.id] = f]
            ELSE UNCHANGED <<pending, chan, got>>
  /\ UNCHANGED <<callVars, writer, reader, link, toPeer, received>>

(* Mutant: the senders are drained into a list that outlives the loop.     *)
ReaderKeepsSenders ==
  /\ reader = "running"
  /\ IF fromPeer = <<>> THEN link = "down" ELSE Head(fromPeer).kind = "poison"
  /\ reader' = "exited"
  /\ pending' = {}
  /\ UNCHANGED <<chan, got, callVars, writer, netVars>>

(* End of stream or a read error: the loop ends, map.clear() drops every   *)
(* sender left.                                                            *)
ReaderExits ==
  /\ reader = "running"
  /\ IF fromPeer = <<>> THEN link = "down" ELSE Head(fromPeer).kind = "poison"
  /\ reader' = "exited"
  /\ pending' = {}
  /\ chan' = [r \in Requests |-> IF r \in pending THEN "dropped" ELSE chan[r]]
  /\ UNCHANGED <<got, callVars, writer, netVars>>

-----------------------------------------------------------------------------
(* The peer and the transport.                                             *)

PeerReads(r) ==
  /\ link = "up"
  /\ r \in toPeer
  /\ toPeer' = toPeer \ {r}
  /\ received' = received \cup {r}
  /\ UNCHANGED <<pending, chan, got, callVars, writer, reader, link, fromPeer>>

(* A frame of the peer: an answer to a request it read (again, perhaps),   *)
(* an id nobody waits for, junk, or a frame tungstenite rejects.           *)
PeerSends(f) ==
  /\ link = "up"
  /\ Len(fromPeer) < RecvCap
  /\ fromPeer' = Append(fromPeer, f)
  /\ UNCHANGED <<pending, chan, got, callVars, writer, reader, link, toPeer, received>>

PeerFrames ==
  {Response(r, s) : r \in received \cup {NoRequest}, s \in BOOLEAN} \cup {Junk, Poison}

(* Helmor quits or the connection breaks; what was on the way may be lost. *)
LinkFails ==
  /\ link = "up"
  /\ link' = "down"
  /\ toPeer' = {}
  /\ fromPeer' \in {fromPeer, <<>>}
  /\ UNCHANGED <<pending, chan, got, callVars, writer, reader, received>>

(* Nothing is left to do: every call returned and the connection is gone.  *)
Finished ==
  /\ \A r \in Requests : pc[r] = "done"
  /\ link = "down" /\ reader = "exited"
  /\ UNCHANGED vars

-----------------------------------------------------------------------------
Next ==
  \/ \E r \in Requests : Register(r) \/ Proceed(r) \/ PeerReads(r)
  \/ Route
  \/ ReaderExits
  \/ \E f \in PeerFrames : PeerSends(f)
  \/ LinkFails
  \/ Finished

Spec == Init /\ [][Next]_vars

(* tokio runs every ready task and fires every timer; a task blocked in    *)
(* send is not ready.  Nothing is assumed of the peer or of the callers.   *)
FairSpec ==
  /\ Spec
  /\ \A r \in Requests : WF_vars(Proceed(r))
  /\ WF_vars(Route) /\ WF_vars(ReaderExits)

(* ... and the peer keeps draining its socket while the connection lasts.  *)
DrainedSpec == FairSpec /\ \A r \in Requests : WF_vars(PeerReads(r))

-----------------------------------------------------------------------------
TypeOK ==
  /\ pc \in [Requests -> Stages]
  /\ pending \subseteq Requests
  /\ chan \in [Requests -> Channels]
  /\ got \in [Requests -> Frames]
  /\ outcome \in [Requests -> Outcomes]
  /\ reported \in [Requests -> Nat]
  /\ writer \in Requests \cup {NoRequest}
  /\ reader \in {"running", "exited"}
  /\ link \in {"up", "down"}
  /\ toPeer \subseteq Requests
  /\ received \subseteq Requests
  /\ fromPeer \in Seq(Frames)

(* A caller that got an answer got the answer to its own request: the      *)
(* response delivered carries its id, and the peer did read the request.   *)
(* The reader matches frames to waiters by id alone, with other requests   *)
(* in flight and late, repeated or foreign frames on the wire.             *)
AnswerMatches ==
  \A r \in Requests :
    outcome[r] \in {"ok", "command"} => got[r].id = r /\ r \in received

(* No request leaves its entry behind in `pending`: not when it times out, *)
(* not when its write fails, not when reader and timer race.               *)
NoLeak ==
  \A r \in pending : pc[r] \in {"registered", "writing", "writefailed", "waiting", "expired"}

(* Every sender is in exactly one place: in the map while its channel is   *)
(* open, used up or dropped once it left, so that no waiter is left with   *)
(* a channel nobody can answer or close.                                   *)
SenderOwned ==
  \A r \in Requests : (chan[r] = "open") <=> (r \in pending)

(* The failure a caller is told about is the one that happened.            *)
FailureTruthful ==
  \A r \in Requests :
    /\ outcome[r] = "closed" => reader = "exited"
    /\ outcome[r] = "io" => reader = "exited" \/ link = "down"

(* The inductive invariant.  AnswerMatches and FailureTruthful are not     *)
(* inductive: that the response delivered answers a request the peer read  *)
(* has to be known on the wire, then in the channel, then on return.       *)

(* Every response on the wire answers a request the peer has read.         *)
Honest(f) == f.kind = "response" => f.id \in received \cup {NoRequest}
WireHonest == \A i \in 1..Len(fromPeer) : Honest(fromPeer[i])

(* What is in a channel answers that very request.                         *)
PayloadMatches ==
  \A r \in Requests : chan[r] = "sent" => got[r].id = r /\ r \in received

(* Where a request stands, and what is known of its channel and result.    *)
StageConsistent ==
  \A r \in Requests :
    /\ pc[r] = "done" <=> outcome[r] # "none"
    /\ outcome[r] \in {"ok", "command"} => chan[r] = "sent"
    /\ pc[r] = "idle" => r \notin toPeer
    /\ pc[r] = "writefailed" => reader = "exited" \/ link = "down"
    /\ chan[r] = "dropped" => reader = "exited" \/ pc[r] = "done"

IInv ==
  /\ TypeOK
  /\ WireHonest
  /\ PayloadMatches
  /\ StageConsistent
  /\ SenderOwned
  /\ NoLeak
  /\ FailureTruthful

(* An answer that arrived while the caller was still waiting is never      *)
(* turned into a timeout or a closed connection, whatever happens next.    *)
AnswerKept ==
  \A r \in Requests :
    pc[r] = "waiting" /\ chan[r] = "sent" =>
      pc'[r] = "waiting" \/ outcome'[r] \in {"ok", "command"}

AnswerWins == [][AnswerKept]_vars

(* `request` keeps the promise of RequestReply: the peer has a request     *)
(* once it has read it, and the connection counts as lost when it failed   *)
(* or when the reader stopped on a frame it could not read.                *)
Status(r) ==
  IF pc[r] = "idle" THEN "idle" ELSE IF pc[r] = "done" THEN outcome[r] ELSE "active"

RR == INSTANCE RequestReply WITH
        status  <- [r \in Requests |-> Status(r)],
        reached <- received,
        down    <- link = "down" \/ reader = "exited"

Implements == RR!Spec

(* ... and every call returns, provided the peer drains its socket or the  *)
(* connection ends.                                                        *)
ImplementsFair == RR!FairSpec

(* client.rs:10-12: "On reader exit (peer close, error) it drops all       *)
(* pending senders, which makes any waiter's `.recv()` error cleanly       *)
(* instead of hanging."                                                    *)
NoWaiterSurvivesReader ==
  reader = "exited" => \A r \in Requests : pc[r] = "waiting" => chan[r] # "open"
=============================================================================
