---------------------------- MODULE BridgeProofs ----------------------------
(***************************************************************************)
(* Theorems about Bridge, for any finite set of requests and any capacity  *)
(* of the transport.                                                       *)
(***************************************************************************)
EXTENDS Bridge, FiniteSetTheorems, SequenceTheorems, TLAPS

(* The reader delivers a frame exactly when it answers a waiting request.  *)
Delivers(f) == f.kind = "response" /\ f.id \in pending

(* The two outcomes of a turn of the reader's loop, without the LET.       *)
LEMMA RouteCases ==
  ASSUME Route
  PROVE  /\ fromPeer # <<>>
         /\ fromPeer' = Tail(fromPeer)
         /\ pc' = pc /\ outcome' = outcome /\ reported' = reported
         /\ writer' = writer /\ reader' = reader
         /\ link' = link /\ toPeer' = toPeer /\ received' = received
         /\ Delivers(Head(fromPeer)) =>
              /\ pending' = pending \ {Head(fromPeer).id}
              /\ chan' = [chan EXCEPT ![Head(fromPeer).id] = "sent"]
              /\ got' = [got EXCEPT ![Head(fromPeer).id] = Head(fromPeer)]
         /\ ~ Delivers(Head(fromPeer)) =>
              pending' = pending /\ chan' = chan /\ got' = got
BY DEF Route, Delivers, callVars

(* Every action keeps the type of every variable.                          *)
LEMMA TypeStep ==
  ASSUME TypeOK, [Next]_vars
  PROVE  TypeOK'
<1> USE RequestsAssumption DEF TypeOK
<1>1. ASSUME NEW r \in Requests, Register(r) PROVE TypeOK'
  BY <1>1 DEF Register, netVars, Stages, Channels
<1>2. ASSUME NEW r \in Requests, LockWriter(r) PROVE TypeOK'
  BY <1>2 DEF LockWriter, netVars, Stages
<1>3. ASSUME NEW r \in Requests, SendOk(r) PROVE TypeOK'
  BY <1>3 DEF SendOk, Stages
<1>4. ASSUME NEW r \in Requests, SendFails(r) PROVE TypeOK'
  BY <1>4 DEF SendFails, Stages
<1>5. ASSUME NEW r \in Requests, AbortWrite(r) PROVE TypeOK'
  BY <1>5 DEF AbortWrite, Withdraw, Return, netVars, Stages, Channels, Outcomes
<1>6. ASSUME NEW r \in Requests, TakeResponse(r) PROVE TypeOK'
  BY <1>6 DEF TakeResponse, Return, netVars, Stages, Outcomes
<1>7. ASSUME NEW r \in Requests, ObserveClosed(r) PROVE TypeOK'
  <2>1. Cardinality(pending) \in Nat
    BY FS_Subset, FS_CardinalityType
  <2>2. QED
    BY <1>7, <2>1 DEF ObserveClosed, Return, netVars, Stages, Outcomes
<1>8. ASSUME NEW r \in Requests, TimerFires(r) PROVE TypeOK'
  BY <1>8 DEF TimerFires, netVars, Stages
<1>9. ASSUME NEW r \in Requests, GiveUp(r) PROVE TypeOK'
  BY <1>9 DEF GiveUp, Withdraw, Return, netVars, Stages, Channels, Outcomes
<1>10. ASSUME NEW r \in Requests, PeerReads(r) PROVE TypeOK'
  BY <1>10 DEF PeerReads, callVars
<1>11. ASSUME Route PROVE TypeOK'
  <2>1. fromPeer # <<>>
    BY <1>11 DEF Route
  <2>2. Head(fromPeer) \in Frames /\ Tail(fromPeer) \in Seq(Frames)
    BY <2>1, HeadTailProperties
  <2>3. CASE Delivers(Head(fromPeer))
    <3>1. Head(fromPeer).id \in Requests
      BY <2>3 DEF Delivers
    <3>2. pending' \subseteq Requests
      BY <1>11, <2>3, RouteCases
    <3>5. chan' \in [Requests -> Channels]
      <4>1. chan' = [chan EXCEPT ![Head(fromPeer).id] = "sent"]
        BY <1>11, <2>3, RouteCases
      <4>2. QED
        BY <3>1, <4>1 DEF Channels
    <3>3. got' \in [Requests -> Frames]
      <4>1. got' = [got EXCEPT ![Head(fromPeer).id] = Head(fromPeer)]
        BY <1>11, <2>3, RouteCases
      <4>2. ASSUME NEW i, NEW h \in Frames, i \in Requests
            PROVE  [got EXCEPT ![i] = h] \in [Requests -> Frames]
        OBVIOUS
      <4>3. QED
        BY <2>2, <3>1, <4>1, <4>2, Zenon
    <3>4. QED
      BY <1>11, <2>2, <3>2, <3>3, <3>5, RouteCases
  <2>4. CASE ~ Delivers(Head(fromPeer))
    BY <1>11, <2>2, <2>4, RouteCases
  <2>5. QED
    BY <2>3, <2>4
<1>12. ASSUME ReaderExits PROVE TypeOK'
  BY <1>12 DEF ReaderExits, callVars, netVars, Channels
<1>13. ASSUME NEW f \in PeerFrames, PeerSends(f) PROVE TypeOK'
  <2>1. f \in Frames
    <3>1. ASSUME NEW r \in received \cup {NoRequest}, NEW s \in BOOLEAN
          PROVE  Response(r, s) \in Frames
      BY DEF Response, Frames
    <3>2. Junk \in Frames /\ Poison \in Frames
      BY DEF Junk, Poison, Frames
    <3>3. QED
      BY <3>1, <3>2 DEF PeerFrames
  <2>2. Append(fromPeer, f) \in Seq(Frames)
    BY <2>1, AppendProperties
  <2>3. QED
    BY <1>13, <2>2 DEF PeerSends, callVars
<1>14. ASSUME LinkFails PROVE TypeOK'
  <2>1. fromPeer' \in Seq(Frames)
    <3>1. fromPeer' = fromPeer \/ fromPeer' = <<>>
      BY <1>14 DEF LinkFails
    <3>2. << >> \in Seq(Frames)
      BY EmptySeq
    <3>3. QED
      BY <3>1, <3>2, Zenon
  <2>2. QED
    BY <1>14, <2>1 DEF LinkFails, callVars
<1>15. CASE UNCHANGED vars
  BY <1>15 DEF vars
<1>16. QED
  BY <1>1, <1>2, <1>3, <1>4, <1>5, <1>6, <1>7, <1>8, <1>9, <1>10,
     <1>11, <1>12, <1>13, <1>14, <1>15 DEF Next, Proceed, Finished

(* Every variable keeps its type, whatever the peer sends: the count a     *)
(* closed connection reports is a natural number because the map is finite.*)
THEOREM TypeCorrect == Spec => []TypeOK
<1>1. Init => TypeOK
  BY DEF Init, TypeOK, Stages, Channels, Frames, Outcomes, Junk
<1>2. TypeOK /\ [Next]_vars => TypeOK'
  BY TypeStep
<1>3. QED
  BY <1>1, <1>2, PTL DEF Spec

-----------------------------------------------------------------------------
(* The parts of the invariant other than the types and the wire.           *)
Rest == PayloadMatches /\ StageConsistent /\ SenderOwned /\ NoLeak /\ FailureTruthful

(* A step that leaves the wire alone, and forgets nothing the peer read,   *)
(* leaves it honest.                                                       *)
LEMMA WireKept ==
  ASSUME WireHonest, fromPeer' = fromPeer, received \subseteq received'
  PROVE  WireHonest'
BY DEF WireHonest, Honest

(* A frame the peer sends answers a request it has read.                   *)
LEMMA PeerHonest ==
  ASSUME NEW f \in PeerFrames
  PROVE  Honest(f)
<1>1. ASSUME NEW r \in received \cup {NoRequest}, NEW s \in BOOLEAN
      PROVE  Honest(Response(r, s))
  BY DEF Honest, Response
<1>2. Honest(Junk) /\ Honest(Poison)
  BY DEF Honest, Junk, Poison
<1>3. QED
  BY <1>1, <1>2 DEF PeerFrames

(* The wire stays honest in every step.                                    *)
LEMMA WireStep ==
  ASSUME TypeOK, WireHonest, [Next]_vars
  PROVE  WireHonest'
<1>1. ASSUME NEW r \in Requests, Register(r) \/ Proceed(r) PROVE WireHonest'
  BY <1>1, WireKept DEF Register, Proceed, LockWriter, SendOk, SendFails, AbortWrite,
     TakeResponse, ObserveClosed, TimerFires, GiveUp, netVars
<1>2. ASSUME NEW r \in Requests, PeerReads(r) PROVE WireHonest'
  BY <1>2, WireKept DEF PeerReads
<1>3. ASSUME Route PROVE WireHonest'
  <2>1. fromPeer # <<>> /\ fromPeer' = Tail(fromPeer) /\ received' = received
    BY <1>3, RouteCases
  <2>2. fromPeer \in Seq(Frames)
    BY DEF TypeOK
  <2>3. ASSUME NEW i \in 1..Len(fromPeer')
        PROVE  i + 1 \in 1..Len(fromPeer) /\ fromPeer'[i] = fromPeer[i + 1]
    BY <2>1, <2>2
  <2>4. QED
    BY <2>1, <2>3 DEF WireHonest, Honest
<1>4. ASSUME ReaderExits PROVE WireHonest'
  BY <1>4, WireKept DEF ReaderExits, netVars
<1>5. ASSUME NEW f \in PeerFrames, PeerSends(f) PROVE WireHonest'
  <2>1. fromPeer' = Append(fromPeer, f) /\ received' = received
    BY <1>5 DEF PeerSends
  <2>2. fromPeer \in Seq(Frames)
    BY DEF TypeOK
  <2>3. ASSUME NEW i \in 1..Len(fromPeer')
        PROVE  fromPeer'[i] = f \/ (i \in 1..Len(fromPeer) /\ fromPeer'[i] = fromPeer[i])
    BY <2>1, <2>2
  <2>4. QED
    BY <2>1, <2>3, PeerHonest DEF WireHonest, Honest
<1>6. ASSUME LinkFails PROVE WireHonest'
  <2>1. CASE fromPeer' = fromPeer
    BY <1>6, <2>1, WireKept DEF LinkFails
  <2>2. CASE fromPeer' = <<>>
    BY <2>2 DEF WireHonest
  <2>3. QED
    BY <1>6, <2>1, <2>2 DEF LinkFails
<1>7. CASE UNCHANGED vars
  BY <1>7, WireKept DEF vars
<1>8. QED
  BY <1>1, <1>2, <1>3, <1>4, <1>5, <1>6, <1>7 DEF Next, Finished

(* Every action keeps the rest.                                            *)
LEMMA RestStep ==
  ASSUME IInv, [Next]_vars
  PROVE  Rest'
<1> USE DEF Rest, TypeOK, PayloadMatches, StageConsistent, SenderOwned, NoLeak,
            FailureTruthful
<1> TypeOK /\ Rest
  BY DEF IInv
<1>1. ASSUME NEW r \in Requests, Register(r) PROVE Rest'
  BY <1>1 DEF Register, netVars
<1>2. ASSUME NEW r \in Requests, LockWriter(r) PROVE Rest'
  BY <1>2 DEF LockWriter, netVars
<1>3. ASSUME NEW r \in Requests, SendOk(r) PROVE Rest'
  BY <1>3 DEF SendOk
<1>4. ASSUME NEW r \in Requests, SendFails(r) PROVE Rest'
  BY <1>4 DEF SendFails
<1>5. ASSUME NEW r \in Requests, AbortWrite(r) PROVE Rest'
  BY <1>5 DEF AbortWrite, Withdraw, Return, netVars
<1>6. ASSUME NEW r \in Requests, TakeResponse(r) PROVE Rest'
  BY <1>6 DEF TakeResponse, Return, netVars
<1>7. ASSUME NEW r \in Requests, ObserveClosed(r) PROVE Rest'
  BY <1>7 DEF ObserveClosed, Return, netVars
<1>8. ASSUME NEW r \in Requests, TimerFires(r) PROVE Rest'
  BY <1>8 DEF TimerFires, netVars
<1>9. ASSUME NEW r \in Requests, GiveUp(r) PROVE Rest'
  BY <1>9 DEF GiveUp, Withdraw, Return, netVars
<1>10. ASSUME NEW r \in Requests, PeerReads(r) PROVE Rest'
  BY <1>10 DEF PeerReads, callVars
<1>11. ASSUME Route PROVE Rest'
  <2>1. CASE Delivers(Head(fromPeer))
    <3>1. Honest(Head(fromPeer))
      <4>1. fromPeer \in Seq(Frames) /\ fromPeer # <<>>
        BY <1>11, RouteCases
      <4>2. Head(fromPeer) = fromPeer[1] /\ 1 \in 1..Len(fromPeer)
        BY <4>1
      <4>3. QED
        BY <4>2 DEF IInv, WireHonest
    <3>2. Head(fromPeer).id \in Requests /\ Head(fromPeer).id \in received
      BY <2>1, <3>1, RequestsAssumption DEF Delivers, Honest
    <3> DEFINE f == Head(fromPeer)
    <3>3. PayloadMatches'
      <4>1. ASSUME NEW r \in Requests, r # f.id PROVE chan'[r] = chan[r] /\ got'[r] = got[r]
        BY <1>11, <2>1, <3>2, <4>1, RouteCases
      <4>2. got'[f.id] = f
        BY <1>11, <2>1, <3>2, RouteCases
      <4>3. received' = received
        BY <1>11, RouteCases
      <4>4. QED
        BY <3>2, <4>1, <4>2, <4>3
    <3>6. SenderOwned'
      <4>1. ASSUME NEW r \in Requests, r # f.id
            PROVE  chan'[r] = chan[r] /\ (r \in pending' <=> r \in pending)
        BY <1>11, <2>1, <3>2, <4>1, RouteCases
      <4>2. chan'[f.id] = "sent" /\ f.id \notin pending'
        BY <1>11, <2>1, <3>2, RouteCases
      <4>3. QED
        BY <3>2, <4>1, <4>2
    <3>4. StageConsistent' /\ NoLeak' /\ FailureTruthful'
      BY <1>11, <2>1, <3>2, RouteCases
    <3>5. QED
      BY <3>3, <3>4, <3>6
  <2>2. CASE ~ Delivers(Head(fromPeer))
    BY <1>11, <2>2, RouteCases
  <2>3. QED
    BY <2>1, <2>2
<1>12. ASSUME ReaderExits PROVE Rest'
  BY <1>12 DEF ReaderExits, callVars, netVars
<1>13. ASSUME NEW f \in PeerFrames, PeerSends(f) PROVE Rest'
  <2>1. UNCHANGED <<pc, outcome, chan, got, pending, received, reader, link, toPeer>>
    BY <1>13 DEF PeerSends, callVars
  <2>2. QED
    BY <2>1
<1>14. ASSUME LinkFails PROVE Rest'
  <2>1. /\ UNCHANGED <<pc, outcome, chan, got, pending, received, reader>>
        /\ link' = "down" /\ toPeer' = {}
    BY <1>14 DEF LinkFails, callVars
  <2>2. QED
    BY <2>1
<1>15. CASE UNCHANGED vars
  <2>1. UNCHANGED <<pc, outcome, chan, got, pending, received, reader, link, toPeer>>
    BY <1>15 DEF vars
  <2>2. QED
    BY <2>1
<1> HIDE DEF Rest, TypeOK, PayloadMatches, StageConsistent, SenderOwned, NoLeak,
             FailureTruthful
<1>16. QED
  BY <1>1, <1>2, <1>3, <1>4, <1>5, <1>6, <1>7, <1>8, <1>9, <1>10,
     <1>11, <1>12, <1>13, <1>14, <1>15 DEF Next, Proceed, Finished

(* The invariant holds in every reachable state.                           *)
THEOREM Invariance == Spec => []IInv
<1>1. Init => IInv
  <2> SUFFICES ASSUME Init PROVE IInv
    OBVIOUS
  <2>1. TypeOK
    BY DEF Init, TypeOK, Stages, Channels, Frames, Outcomes, Junk
  <2>2. WireHonest
    BY DEF Init, WireHonest
  <2>3. Rest
    BY DEF Init, Rest, PayloadMatches, StageConsistent, SenderOwned, NoLeak, FailureTruthful
  <2>4. QED
    BY <2>1, <2>2, <2>3 DEF IInv, Rest
<1>2. IInv /\ [Next]_vars => IInv'
  BY TypeStep, WireStep, RestStep DEF IInv, Rest
<1>3. QED
  BY <1>1, <1>2, PTL DEF Spec

-----------------------------------------------------------------------------
(* A caller only ever gets the answer to its own request.                  *)
THEOREM AnswersMatch == Spec => []AnswerMatches
<1>1. IInv => AnswerMatches
  BY DEF IInv, StageConsistent, PayloadMatches, AnswerMatches
<1>2. QED
  BY <1>1, Invariance, PTL

(* No returned request is left in the pending map.                         *)
THEOREM PendingNeverLeaks == Spec => []NoLeak
<1>1. IInv => NoLeak
  BY DEF IInv
<1>2. QED
  BY <1>1, Invariance, PTL

(* Every open channel has its sender in the map.                           *)
THEOREM SendersAreOwned == Spec => []SenderOwned
<1>1. IInv => SenderOwned
  BY DEF IInv
<1>2. QED
  BY <1>1, Invariance, PTL

(* The failure a caller is told about is the one that happened.            *)
THEOREM FailuresAreTruthful == Spec => []FailureTruthful
<1>1. IInv => FailureTruthful
  BY DEF IInv
<1>2. QED
  BY <1>1, Invariance, PTL

-----------------------------------------------------------------------------
(* An answer that arrived in time is returned, by every step there is.     *)
THEOREM AnswersWin == Spec => AnswerWins
<1>1. IInv /\ [Next]_vars => AnswerKept
  <2> SUFFICES ASSUME IInv, [Next]_vars,
                      NEW q \in Requests, pc[q] = "waiting", chan[q] = "sent",
                      pc'[q] # "waiting"
               PROVE  outcome'[q] \in {"ok", "command"}
    BY DEF AnswerKept
  <2> TypeOK
    BY DEF IInv
  <2> USE DEF TypeOK
  <2>1. ASSUME NEW r \in Requests, Register(r) PROVE FALSE
    BY <2>1 DEF Register
  <2>2. ASSUME NEW r \in Requests, LockWriter(r) \/ SendOk(r) \/ SendFails(r) PROVE FALSE
    BY <2>2 DEF LockWriter, SendOk, SendFails
  <2>3. ASSUME NEW r \in Requests, AbortWrite(r) \/ GiveUp(r) PROVE FALSE
    BY <2>3 DEF AbortWrite, GiveUp, Return
  <2>4. ASSUME NEW r \in Requests, TakeResponse(r) PROVE outcome'[q] \in {"ok", "command"}
    BY <2>4 DEF TakeResponse, Return
  <2>5. ASSUME NEW r \in Requests, ObserveClosed(r) \/ TimerFires(r) PROVE FALSE
    BY <2>5 DEF ObserveClosed, TimerFires, Return
  <2>6. pc' # pc
    OBVIOUS
  <2>7. ASSUME NEW r \in Requests, PeerReads(r) PROVE FALSE
    BY <2>6, <2>7 DEF PeerReads, callVars
  <2>8. ASSUME Route \/ ReaderExits \/ LinkFails PROVE FALSE
    BY <2>6, <2>8, RouteCases DEF ReaderExits, LinkFails, callVars
  <2>9. ASSUME NEW f \in PeerFrames, PeerSends(f) PROVE FALSE
    BY <2>6, <2>9 DEF PeerSends, callVars
  <2>10. ASSUME UNCHANGED vars PROVE FALSE
    BY <2>6, <2>10 DEF vars
  <2> HIDE DEF TypeOK
  <2>11. QED
    BY <2>1, <2>2, <2>3, <2>4, <2>5, <2>7, <2>8, <2>9, <2>10 DEF Next, Proceed, Finished
<1>2. QED
  BY <1>1, Invariance, PTL DEF Spec, AnswerWins

-----------------------------------------------------------------------------
(* The refinement of RequestReply.                                         *)
StatusMap == [r \in Requests |-> Status(r)]
Down == link = "down" \/ reader = "exited"

(* A step of one request changes the status of that request only.          *)
LEMMA StatusSet ==
  ASSUME NEW r \in Requests, NEW v, Status(r)' = v,
         \A q \in Requests : q # r => Status(q)' = Status(q)
  PROVE  StatusMap' = [StatusMap EXCEPT ![r] = v]
BY DEF StatusMap

(* A step that moves no request to or from its ends changes no status.     *)
LEMMA StatusKept ==
  ASSUME \A q \in Requests : Status(q)' = Status(q)
  PROVE  StatusMap' = StatusMap
BY DEF StatusMap

(* The return of request r with outcome v sets its status to v.            *)
LEMMA StatusReturned ==
  ASSUME TypeOK, NEW r \in Requests, NEW v, Return(r, v)
  PROVE  StatusMap' = [StatusMap EXCEPT ![r] = v]
<1>1. Status(r)' = v
  BY DEF Return, TypeOK, Status
<1>2. \A q \in Requests : q # r => Status(q)' = Status(q)
  BY DEF Return, TypeOK, Status
<1>3. QED
  BY <1>1, <1>2, StatusSet

(* A request that moves between two stages in which it is active.          *)
LEMMA StatusMoved ==
  ASSUME TypeOK, NEW r \in Requests, NEW s \in Stages \ {"idle", "done"},
         pc[r] \notin {"idle", "done"}, pc' = [pc EXCEPT ![r] = s], outcome' = outcome
  PROVE  StatusMap' = StatusMap
<1>1. \A q \in Requests : Status(q)' = Status(q)
  BY DEF TypeOK, Status
<1>2. QED
  BY <1>1, StatusKept

(* Every step of the bridge is a step of RequestReply, or changes nothing  *)
(* it can see.                                                             *)
LEMMA RefineStep ==
  ASSUME IInv, [Next]_vars
  PROVE  [RR!Next]_(RR!rrVars)
<1> TypeOK
  BY DEF IInv
<1> DEFINE Kept == StatusMap' = StatusMap /\ received' = received /\ Down' = Down
<1>1. ASSUME Kept PROVE [RR!Next]_(RR!rrVars)
  BY <1>1 DEF RR!rrVars, StatusMap, Down
<1>2. ASSUME Down', StatusMap' = StatusMap, received' = received PROVE [RR!Next]_(RR!rrVars)
  BY <1>2 DEF RR!Next, RR!GoDown, StatusMap, Down
<1>3. ASSUME NEW r \in Requests, NEW v \in RR!Answers \cup RR!Failures, pc[r] \notin {"idle", "done"},
             v \in RR!Answers => r \in received, v \in {"io", "closed"} => Down,
             Return(r, v), received' = received, Down' = Down
      PROVE  [RR!Next]_(RR!rrVars)
  <2>1. StatusMap' = [StatusMap EXCEPT ![r] = v] /\ StatusMap[r] = "active"
    BY <1>3, StatusReturned DEF StatusMap, Status
  <2>2. CASE v \in RR!Answers
    <3>1. RR!Answer(r, v)
      BY <1>3, <2>1, <2>2 DEF RR!Answer, StatusMap, Down
    <3>2. QED
      BY <2>2, <3>1 DEF RR!Next, RR!Resolve
  <2>3. CASE v \in RR!Failures
    <3>1. RR!Fail(r, v)
      BY <1>3, <2>1, <2>3 DEF RR!Fail, RR!Failures, StatusMap, Down
    <3>2. QED
      BY <2>3, <3>1 DEF RR!Next, RR!Resolve
  <2>4. QED
    BY <2>2, <2>3
<1>4. ASSUME NEW r \in Requests, Register(r) PROVE [RR!Next]_(RR!rrVars)
  <2>1. Status(r)' = "active" /\ \A q \in Requests : q # r => Status(q)' = Status(q)
    BY <1>4 DEF Register, TypeOK, Status
  <2>2. StatusMap' = [StatusMap EXCEPT ![r] = "active"] /\ StatusMap[r] = "idle"
    BY <1>4, <2>1, StatusSet DEF StatusMap, Status, Register
  <2>3. RR!Start(r)
    BY <1>4, <2>2 DEF RR!Start, Register, netVars, StatusMap
  <2>4. QED
    BY <2>3 DEF RR!Next
<1>5. ASSUME NEW r \in Requests, LockWriter(r) \/ SendOk(r) \/ SendFails(r) \/ TimerFires(r)
      PROVE  [RR!Next]_(RR!rrVars)
  <2>1. StatusMap' = StatusMap
    BY <1>5, StatusMoved DEF LockWriter, SendOk, SendFails, TimerFires, Stages
  <2>2. QED
    BY <1>1, <1>5, <2>1 DEF LockWriter, SendOk, SendFails, TimerFires, netVars, Down
<1>6. ASSUME NEW r \in Requests, AbortWrite(r) PROVE [RR!Next]_(RR!rrVars)
  <2>1. Down
    BY <1>6 DEF AbortWrite, IInv, StageConsistent, Down
  <2>2. QED
    BY <1>3, <1>6, <2>1 DEF AbortWrite, netVars, Down, RR!Failures, RR!Answers
<1>7. ASSUME NEW r \in Requests, TakeResponse(r) PROVE [RR!Next]_(RR!rrVars)
  <2>1. r \in received
    BY <1>7 DEF TakeResponse, IInv, PayloadMatches
  <2>2. QED
    BY <1>3, <1>7, <2>1 DEF TakeResponse, netVars, Down, RR!Failures, RR!Answers
<1>8. ASSUME NEW r \in Requests, ObserveClosed(r) PROVE [RR!Next]_(RR!rrVars)
  <2>1. Down
    BY <1>8 DEF ObserveClosed, IInv, StageConsistent, Down
  <2>2. QED
    BY <1>3, <1>8, <2>1 DEF ObserveClosed, netVars, Down, RR!Failures, RR!Answers
<1>9. ASSUME NEW r \in Requests, GiveUp(r) PROVE [RR!Next]_(RR!rrVars)
  BY <1>3, <1>9 DEF GiveUp, netVars, Down, RR!Failures, RR!Answers
<1>10. ASSUME NEW r \in Requests, PeerReads(r) PROVE [RR!Next]_(RR!rrVars)
  <2>1. pc[r] # "idle" /\ pc' = pc /\ outcome' = outcome
    BY <1>10 DEF PeerReads, callVars, IInv, StageConsistent
  <2>2. StatusMap' = StatusMap /\ StatusMap[r] # "idle"
    BY <2>1, StatusKept DEF StatusMap, Status, TypeOK, Outcomes
  <2>3. RR!Reach(r)
    BY <1>10, <2>2 DEF RR!Reach, PeerReads, StatusMap
  <2>4. QED
    BY <2>3 DEF RR!Next
<1>11. ASSUME pc' = pc, outcome' = outcome PROVE StatusMap' = StatusMap
  BY <1>11, StatusKept DEF Status
<1>12. ASSUME Route PROVE [RR!Next]_(RR!rrVars)
  BY <1>1, <1>11, <1>12, RouteCases DEF Down
<1>13. ASSUME ReaderExits \/ LinkFails PROVE [RR!Next]_(RR!rrVars)
  <2>1. pc' = pc /\ outcome' = outcome /\ received' = received
    BY <1>13 DEF ReaderExits, LinkFails, callVars, netVars
  <2>2. Down'
    BY <1>13 DEF ReaderExits, LinkFails, Down
  <2>3. QED
    BY <1>2, <1>11, <2>1, <2>2
<1>14. ASSUME NEW f \in PeerFrames, PeerSends(f) PROVE [RR!Next]_(RR!rrVars)
  <2>1. UNCHANGED <<pc, outcome, received, link, reader>>
    BY <1>14 DEF PeerSends, callVars
  <2>2. QED
    BY <1>1, <1>11, <2>1 DEF Down
<1>15. ASSUME UNCHANGED vars PROVE [RR!Next]_(RR!rrVars)
  BY <1>1, <1>11, <1>15 DEF vars, Down
<1>16. QED
  BY <1>4, <1>5, <1>6, <1>7, <1>8, <1>9, <1>10, <1>12, <1>13, <1>14, <1>15
  DEF Next, Proceed, Finished

(* The bridge client implements the request/reply contract: a request ends *)
(* once, with the peer's answer to it or with a failure that happened.     *)
THEOREM Refinement == Spec => Implements
<1>1. Init => RR!Init
  BY DEF Init, RR!Init, Status
<1>2. IInv /\ [Next]_vars => [RR!Next]_(RR!rrVars)
  BY RefineStep
<1>3. QED
  BY <1>1, <1>2, Invariance, PTL DEF Spec, Implements, RR!Spec
=============================================================================
