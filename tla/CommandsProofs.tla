--------------------------- MODULE CommandsProofs ---------------------------
(***************************************************************************)
(* Proofs about Commands for every set of invocations and slots, every     *)
(* deadline and every pause.                                               *)
(***************************************************************************)
EXTENDS Commands, SequenceTheorems, TLAPS

USE CallsAssumption, TimesAssumption

-----------------------------------------------------------------------------
(* What sending and evaluating a script does to the scripts on the way.    *)

LEMMA Sent ==
  ASSUME NEW q \in Seq(Scripts), NEW x \in Scripts
  PROVE  /\ Append(q, x) \in Seq(Scripts)
         /\ DOMAIN Append(q, x) = DOMAIN q \cup {Len(q) + 1}
         /\ Len(Append(q, x)) = Len(q) + 1
         /\ Append(q, x)[Len(q) + 1] = x
         /\ \A i \in DOMAIN q : i # Len(q) + 1 /\ Append(q, x)[i] = q[i]
  OBVIOUS

LEMMA Evaluated ==
  ASSUME NEW q \in Seq(Scripts), q # <<>>
  PROVE  /\ Tail(q) \in Seq(Scripts)
         /\ Head(q) = q[1] /\ Head(q) \in Scripts
         /\ 1 \in DOMAIN q /\ Len(q) \in DOMAIN q
         /\ Len(Tail(q)) = Len(q) - 1 /\ Len(q) \in Nat \ {0}
         /\ \A i \in DOMAIN Tail(q) : i + 1 \in DOMAIN q /\ i + 1 # 1 /\ Tail(q)[i] = q[i + 1]
         /\ Len(q) = 1 => Tail(q) = <<>>
         /\ Len(q) # 1 => Tail(q) # <<>> /\ Tail(q)[Len(Tail(q))] = q[Len(q)]
<1>1. Len(q) \in Nat \ {0} /\ DOMAIN q = 1..Len(q)
  OBVIOUS
<1>2. Tail(q) \in Seq(Scripts) /\ Len(Tail(q)) = Len(q) - 1 /\ Head(q) = q[1]
  OBVIOUS
<1>3. DOMAIN Tail(q) = 1..(Len(q) - 1) /\ \A i \in 1..(Len(q) - 1) : Tail(q)[i] = q[i + 1]
  OBVIOUS
<1>4. \A i \in 1..Len(q) : q[i] \in Scripts
  OBVIOUS
<1>5. ASSUME Len(q) = 1 PROVE Tail(q) = <<>>
  <2>1. Len(Tail(q)) = 0
    BY <1>2, <1>5
  <2>2. Tail(q) # <<>> => Len(Tail(q)) \in Nat \ {0}
    BY <1>2, EmptySeq, Zenon
  <2> QED
    BY <2>1, <2>2
<1>6. ASSUME Len(q) # 1 PROVE Tail(q) # <<>> /\ Tail(q)[Len(Tail(q))] = q[Len(q)]
  <2>1. Len(Tail(q)) \in 1..(Len(q) - 1) /\ Len(Tail(q)) + 1 = Len(q)
    BY <1>1, <1>2, <1>6
  <2>2. Len(<<>>) = 0
    OBVIOUS
  <2>3. Tail(q) = <<>> => Len(Tail(q)) = Len(<<>>)
    BY Zenon
  <2>4. Len(Tail(q)) # 0
    BY <1>1, <2>1
  <2> QED
    BY <1>3, <2>1, <2>2, <2>3, <2>4
<1> QED
  BY <1>1, <1>2, <1>3, <1>4, <1>5, <1>6

LEMMA Lone ==
  ASSUME NEW x \in Scripts
  PROVE  Len(<<x>>) = 1 /\ Head(<<x>>) = x /\ Append(<<>>, x) = <<x>> /\ <<x>> # <<>>
  OBVIOUS

-----------------------------------------------------------------------------
LEMMA InitIInv == Init => IInv
<1> SUFFICES ASSUME Init PROVE IInv
  OBVIOUS
<1>1. NotStarted \in PollResults /\ ~NotStarted.done
  BY DEF NotStarted, PollResults
<1>2. TypeOK
  <2>1. <<>> \in Seq(Scripts)
    OBVIOUS
  <2>2. op \in Ops /\ call \in Calls \cup {NoCall} /\ slot \in Slots
    BY DEF Init, Ops
  <2>3. waits \in BOOLEAN /\ answered \in BOOLEAN
    BY Zenon DEF Init
  <2>4. left \in 0..Timeout /\ nap \in 0..Interval
    BY DEF Init
  <2>5. heard \in PollResults /\ queue \in Seq(Scripts)
    BY <1>1, <2>1, Zenon DEF Init
  <2>6. /\ result \in [Calls -> Results] /\ answer \in [Calls -> PollResults]
        /\ taper \in [Slots -> Calls \cup {NoCall}] /\ object \in [Calls -> PollResults]
        /\ promise \in [Calls -> Promises]
    BY <1>1 DEF Init, Results, Promises
  <2> QED
    BY <2>2, <2>3, <2>4, <2>5, <2>6, Zenon DEF TypeOK
<1>3. AtWork /\ InTurn /\ SlotOwned /\ HeardOwn
  BY DEF Init, AtWork, InTurn, SlotOwned, HeardOwn, Awaiting
<1>4. queue = <<>> /\ DOMAIN queue = {}
  BY DEF Init
<1>5. Fresh /\ FiredOnce
  BY <1>4 DEF Init, Fresh, FiredOnce
<1>6. ObjectsOwn
  BY <1>1 DEF Init, ObjectsOwn, Own
<1>7. OwnOutcome /\ GivenUpStarted
  BY DEF Init, OwnOutcome, GivenUpStarted
<1> QED
  BY <1>2, <1>3, <1>5, <1>6, <1>7 DEF IInv

(* A new script goes out, of the invocation at hand, in place of an        *)
(* earlier one that was answered: nothing but its poll is on the way.      *)
LEMMA PollSent ==
  ASSUME IInv, op' = "polling", op \in {"fired", "checking", "sleeping"},
         Execute(Script("poll", call, slot)),
         UNCHANGED <<call, slot, waits, tellVars>>,
         left' \in 0..Timeout, nap' \in 0..Interval
  PROVE  IInv'
<1> DEFINE x == Script("poll", call, slot)
<1>1. /\ op # "idle" /\ op # "firing" /\ call \in Calls /\ slot \in Slots
      /\ queue = <<>> /\ x \in Scripts
  BY DEF IInv, TypeOK, AtWork, InTurn, Script, Scripts
<1>2. queue' = <<x>> /\ DOMAIN queue' = {1} /\ queue'[1] = x /\ x.what = "poll" /\ x.call = call
      /\ queue' \in Seq(Scripts)
  BY <1>1 DEF Execute, Script
<1>3. answered' = FALSE /\ UNCHANGED <<heard, taper, object, promise, call, slot, waits, result, answer>>
  BY DEF Execute, tellVars
<1>4. TypeOK'
  <2>1. answered' \in BOOLEAN /\ waits' \in BOOLEAN
    BY <1>3, Zenon DEF IInv, TypeOK
  <2>2. op' \in Ops
    BY DEF Ops
  <2> QED
    BY <1>2, <1>3, <2>1, <2>2, Zenon DEF IInv, TypeOK
<1>5. AtWork' /\ SlotOwned'
  BY <1>1, <1>3 DEF IInv, AtWork, SlotOwned
<1>6. Fresh'
  BY <1>1, <1>2, <1>3 DEF IInv, Fresh, ToCome, Open
<1>7. FiredOnce'
  BY <1>2 DEF FiredOnce
<1>8. InTurn' /\ HeardOwn'
  BY <1>2, <1>3 DEF InTurn, HeardOwn, Awaiting
<1>9. ObjectsOwn' /\ OwnOutcome' /\ GivenUpStarted'
  BY <1>3, Zenon DEF IInv, ObjectsOwn, OwnOutcome, GivenUpStarted, Own
<1> QED
  BY <1>4, <1>5, <1>6, <1>7, <1>8, <1>9, Zenon DEF IInv

(* The invocation at hand ends, with its own outcome if with any.          *)
LEMMA Concluded ==
  ASSUME IInv, op # "idle",
         NEW how \in Results \ {"none"}, NEW r \in PollResults,
         how = "settled" => r.done /\ Own(r, call),
         how = "unsettled" => promise[call] # "none",
         Conclude(how, r), UNCHANGED <<call, slot, waits, left, answered, heard, pageVars>>,
         nap' \in 0..Interval
  PROVE  IInv'
<1>1. call \in Calls /\ result[call] = "none" /\ op' = "idle"
  BY DEF IInv, AtWork, Conclude
<1>2. /\ UNCHANGED <<call, slot, waits, left, answered, heard, queue, taper, object, promise>>
      /\ result' = [result EXCEPT ![call] = how] /\ answer' = [answer EXCEPT ![call] = r]
  BY DEF pageVars, Conclude
<1>3. TypeOK'
  <2>1. result' \in [Calls -> Results] /\ answer' \in [Calls -> PollResults]
    BY <1>1, <1>2 DEF IInv, TypeOK
  <2>2. op' \in Ops
    BY <1>1 DEF Ops
  <2> QED
    BY <1>2, <2>1, <2>2, Zenon DEF IInv, TypeOK
<1>4. AtWork' /\ InTurn' /\ SlotOwned' /\ HeardOwn'
  BY <1>1 DEF AtWork, InTurn, SlotOwned, HeardOwn, Awaiting
<1>5. Fresh'
  <2>1. \A c \in Calls : ToCome(c)' => ToCome(c)
    BY <1>1, <1>2 DEF IInv, TypeOK, ToCome, Open
  <2> QED
    BY <1>2, <2>1 DEF IInv, Fresh
<1>6. FiredOnce' /\ ObjectsOwn'
  BY <1>2, Zenon DEF IInv, FiredOnce, ObjectsOwn, Own
<1>7. OwnOutcome'
  <2> SUFFICES ASSUME NEW c \in Calls, result'[c] = "settled"
               PROVE  (answer[c].done /\ Own(answer[c], c))'
    BY DEF OwnOutcome
  <2>1. promise' = promise
    BY <1>2
  <2>2. CASE c = call
    <3>1. how = "settled" /\ answer'[c] = r
      BY <1>1, <1>2, <2>2 DEF IInv, TypeOK
    <3> QED
      BY <2>1, <2>2, <3>1 DEF Own
  <2>3. CASE c # call
    <3>1. result[c] = "settled" /\ answer'[c] = answer[c]
      BY <1>1, <1>2, <2>3 DEF IInv, TypeOK
    <3> QED
      BY <2>1, <3>1 DEF IInv, OwnOutcome, Own
  <2> QED
    BY <2>2, <2>3
<1>8. GivenUpStarted'
  BY <1>1, <1>2 DEF IInv, TypeOK, GivenUpStarted
<1> QED
  BY <1>3, <1>4, <1>5, <1>6, <1>7, <1>8, Zenon DEF IInv

-----------------------------------------------------------------------------
(* The scenario.                                                           *)

LEMMA InvokeIInv ==
  ASSUME IInv, NEW c \in Calls, NEW s \in Slots, NEW w \in BOOLEAN, Invoke(c, s, w)
  PROVE  IInv'
<1> DEFINE x == Script("fire", c, s)
<1>1. /\ op = "idle" /\ result[c] = "none" /\ op' = "firing" /\ call' = c /\ slot' = s
      /\ left' = 0 /\ nap' = 0 /\ answered' = FALSE
      /\ queue' = Append(queue, x)
      /\ UNCHANGED <<heard, taper, object, promise, result, answer>>
  BY DEF Invoke, Execute, tellVars
<1>2. x \in Scripts /\ x.what = "fire" /\ x.call = c
  BY DEF Script, Scripts
<1>3. queue \in Seq(Scripts) /\ Len(queue) \in Nat
  BY DEF IInv, TypeOK
<1>4. /\ queue' \in Seq(Scripts) /\ DOMAIN queue' = DOMAIN queue \cup {Len(queue) + 1}
      /\ Len(queue') = Len(queue) + 1 /\ queue'[Len(queue) + 1] = x
      /\ \A i \in DOMAIN queue : i # Len(queue) + 1 /\ queue'[i] = queue[i]
  BY <1>1, <1>2, <1>3, Sent
<1>5. TypeOK'
  <2>1. answered' \in BOOLEAN /\ waits' \in BOOLEAN
    BY <1>1, Zenon DEF Invoke
  <2>2. op' \in Ops /\ left' \in 0..Timeout /\ nap' \in 0..Interval
    BY <1>1 DEF Ops
  <2> QED
    BY <1>1, <1>4, <2>1, <2>2, Zenon DEF IInv, TypeOK
<1>6. promise[c] = "none" /\ \A i \in DOMAIN queue : queue[i].call # c
  BY <1>1 DEF IInv, Fresh, ToCome, Open
<1>7. AtWork' /\ SlotOwned' /\ HeardOwn'
  BY <1>1 DEF AtWork, SlotOwned, HeardOwn
<1>8. Fresh'
  <2>1. \A d \in Calls : ToCome(d)' => ToCome(d) /\ d # c
    BY <1>1 DEF ToCome, Open
  <2> QED
    BY <1>1, <1>2, <1>4, <2>1 DEF IInv, Fresh
<1>9. FiredOnce'
  <2>1. \A i \in DOMAIN queue : queue'[i] = queue[i] /\ queue[i].call # c
    BY <1>4, <1>6
  <2> QED
    BY <1>1, <1>2, <1>4, <1>6, <2>1 DEF IInv, FiredOnce
<1>10. InTurn'
  <2>1. queue' # <<>>
    BY <1>3, <1>4
  <2> QED
    BY <1>1, <1>4, <2>1 DEF InTurn, Awaiting
<1>11. ObjectsOwn' /\ OwnOutcome' /\ GivenUpStarted'
  BY <1>1, Zenon DEF IInv, ObjectsOwn, OwnOutcome, GivenUpStarted, Own
<1> QED
  BY <1>5, <1>7, <1>8, <1>9, <1>10, <1>11, Zenon DEF IInv

LEMMA ScriptFailsIInv ==
  ASSUME IInv, ScriptFails
  PROVE  IInv'
<1>1. /\ op # "idle" /\ Conclude("failed", NotStarted)
      /\ UNCHANGED <<call, slot, waits, left, answered, heard, pageVars>>
      /\ nap' \in 0..Interval
  BY DEF ScriptFails, Awaiting, IInv, TypeOK
<1>2. "failed" \in Results \ {"none"} /\ "failed" \notin {"settled", "unsettled"} /\ NotStarted \in PollResults
  BY DEF Results, NotStarted, PollResults
<1> QED
  BY <1>1, <1>2, Concluded

LEMMA FiredIInv ==
  ASSUME IInv, Fired
  PROVE  IInv'
<1>1. /\ op = "firing" /\ answered /\ op' \in {"checking", "fired"} /\ left' \in 0..Timeout
      /\ UNCHANGED <<call, slot, waits, nap, answered, heard, result, answer, queue, taper,
                     object, promise>>
  BY DEF Fired, tellVars, pageVars
<1>2. TypeOK'
  <2>1. op' \in Ops
    BY <1>1 DEF Ops
  <2> QED
    BY <1>1, <2>1, Zenon DEF IInv, TypeOK
<1>3. AtWork'
  BY <1>1 DEF IInv, AtWork
<1>4. Fresh'
  BY <1>1 DEF IInv, Fresh, ToCome, Open
<1>5. FiredOnce' /\ ObjectsOwn' /\ OwnOutcome' /\ GivenUpStarted'
  BY <1>1, Zenon DEF IInv, FiredOnce, ObjectsOwn, OwnOutcome, GivenUpStarted, Own
<1>6. InTurn' /\ SlotOwned' /\ HeardOwn'
  BY <1>1 DEF IInv, InTurn, SlotOwned, HeardOwn, Awaiting
<1> QED
  BY <1>2, <1>3, <1>4, <1>5, <1>6, Zenon DEF IInv

LEMMA PollUntilDoneIInv ==
  ASSUME IInv, PollUntilDone
  PROVE  IInv'
<1>1. left' \in 0..Timeout /\ nap' \in 0..Interval
  BY DEF PollUntilDone, IInv, TypeOK
<1> QED
  BY <1>1, PollSent DEF PollUntilDone

LEMMA CheckDeadlineIInv ==
  ASSUME IInv, CheckDeadline
  PROVE  IInv'
<1>1. left' \in 0..Timeout /\ nap' \in 0..Interval
  BY DEF CheckDeadline, IInv, TypeOK
<1>2. CASE left = 0
  <2>1. /\ op # "idle" /\ Conclude("unsettled", NotStarted) /\ promise[call] # "none"
        /\ UNCHANGED <<call, slot, waits, left, answered, heard, pageVars>>
    BY <1>2 DEF CheckDeadline, IInv, SlotOwned
  <2>2. "unsettled" \in Results \ {"none"} /\ "unsettled" # "settled" /\ NotStarted \in PollResults
    BY DEF Results, NotStarted, PollResults
  <2> QED
    BY <1>1, <2>1, <2>2, Concluded
<1>3. CASE left # 0
  BY <1>1, <1>3, PollSent DEF CheckDeadline
<1> QED
  BY <1>2, <1>3

(* The scenario looks at a clock or sleeps, after its request came back.   *)
LEMMA Paused ==
  ASSUME IInv, op \notin {"idle", "firing"}, op = "polling" => answered,
         op' \in {"checking", "sleeping"},
         left' \in 0..Timeout, nap' \in 0..Interval,
         UNCHANGED <<call, slot, waits, answered, heard, tellVars, pageVars>>
  PROVE  IInv'
<1>1. UNCHANGED <<result, answer, queue, taper, object, promise>>
  BY DEF tellVars, pageVars
<1>2. TypeOK'
  <2>1. op' \in Ops
    BY DEF Ops
  <2> QED
    BY <1>1, <2>1, Zenon DEF IInv, TypeOK
<1>3. AtWork' /\ Fresh'
  BY <1>1 DEF IInv, AtWork, Fresh, ToCome, Open
<1>4. FiredOnce' /\ ObjectsOwn' /\ OwnOutcome' /\ GivenUpStarted'
  BY <1>1, Zenon DEF IInv, FiredOnce, ObjectsOwn, OwnOutcome, GivenUpStarted, Own
<1>5. op \in {"fired", "checking", "sleeping", "polling"}
  BY DEF IInv, TypeOK, Ops
<1>6. InTurn' /\ SlotOwned' /\ HeardOwn'
  BY <1>1, <1>5 DEF IInv, InTurn, SlotOwned, HeardOwn, Awaiting
<1> QED
  BY <1>2, <1>3, <1>4, <1>6, Zenon DEF IInv

LEMMA PolledIInv ==
  ASSUME IInv, Polled
  PROVE  IInv'
<1>1. /\ op = "polling" /\ answered /\ promise[call] # "none"
      /\ UNCHANGED <<call, slot, waits, left, answered, heard, pageVars>>
  BY DEF Polled, IInv, SlotOwned
<1>2. nap' \in 0..Interval /\ left' \in 0..Timeout
  BY <1>1 DEF Polled, IInv, TypeOK
<1>3. heard \in PollResults /\ Own(heard, call) /\ {"settled", "unsettled"} \subseteq Results \ {"none"}
  BY <1>1 DEF IInv, TypeOK, HeardOwn, Results
<1>4. CASE heard.done /\ Conclude("settled", heard)
  BY <1>1, <1>2, <1>3, <1>4, Concluded
<1>5. CASE Conclude("unsettled", heard)
  BY <1>1, <1>2, <1>3, <1>5, Concluded
<1>6. CASE op' = "sleeping" /\ UNCHANGED tellVars
  BY <1>1, <1>2, <1>6, Paused
<1> QED
  BY <1>4, <1>5, <1>6 DEF Polled

LEMMA WakeIInv ==
  ASSUME IInv, Wake
  PROVE  IInv'
<1>1. /\ op = "sleeping" /\ left' \in 0..Timeout /\ nap' \in 0..Interval
      /\ UNCHANGED <<call, slot, waits, tellVars>>
  BY DEF Wake, IInv, TypeOK
<1>2. CASE op' = "checking" /\ UNCHANGED <<answered, heard, pageVars>>
  BY <1>1, <1>2, Paused
<1>3. CASE op' = "polling" /\ Execute(Script("poll", call, slot))
  BY <1>1, <1>3, PollSent
<1> QED
  BY <1>2, <1>3 DEF Wake

(* Nothing but the clock moves.                                            *)
LEMMA Still ==
  ASSUME IInv, left' \in 0..Timeout, nap' \in 0..Interval,
         UNCHANGED <<op, call, slot, waits, answered, heard, tellVars, pageVars>>
  PROVE  IInv'
<1>1. UNCHANGED <<op, call, slot, waits, answered, heard, result, answer, queue, taper,
                 object, promise>>
  BY DEF tellVars, pageVars
<1>2. TypeOK'
  BY <1>1, Zenon DEF IInv, TypeOK
<1>3. AtWork' /\ ObjectsOwn'
  BY <1>1, Zenon DEF IInv, AtWork, ObjectsOwn, Own
<1>4. SlotOwned'
  BY <1>1, SMT DEF IInv, SlotOwned
<1>5. Fresh'
  BY <1>1, Zenon DEF IInv, Fresh, ToCome, Open
<1>6. FiredOnce'
  BY <1>1, Zenon DEF IInv, FiredOnce
<1>7. InTurn'
  BY <1>1, SMT DEF IInv, InTurn
<1>8. OwnOutcome' /\ GivenUpStarted'
  BY <1>1, Zenon DEF IInv, OwnOutcome, GivenUpStarted, Own
<1>9. HeardOwn'
  BY <1>1, SMT DEF IInv, HeardOwn, Own
<1> QED
  BY <1>2, <1>3, <1>5, <1>6, <1>7, <1>8, <1>4, <1>9, Zenon DEF IInv

LEMMA TickIInv ==
  ASSUME IInv, Tick
  PROVE  IInv'
<1>1. left' \in 0..Timeout /\ nap' \in 0..Interval
  BY DEF Tick, IInv, TypeOK
<1> QED
  BY <1>1, Still DEF Tick

-----------------------------------------------------------------------------
(* The page.                                                               *)

LEMMA EvaluateFireIInv ==
  ASSUME IInv, EvaluateFire
  PROVE  IInv'
<1> DEFINE c == Head(queue).call
           s == Head(queue).slot
<1>1. queue \in Seq(Scripts) /\ queue # <<>> /\ queue[1].what = "fire" /\ queue' = Tail(queue)
  BY DEF EvaluateFire, IInv, TypeOK
<1>2. /\ c = queue[1].call /\ c \in Calls /\ s \in Slots
      /\ 1 \in DOMAIN queue /\ Len(queue) \in DOMAIN queue
  BY <1>1, Evaluated DEF Scripts
<1>3. /\ UNCHANGED <<op, call, slot, waits, left, nap, result, answer>>
      /\ taper' = [taper EXCEPT ![s] = c]
      /\ Reply(NotStarted)
  BY DEF EvaluateFire, tellVars
<1>4. /\ promise[c] = "none"
      /\ \A i \in DOMAIN queue : queue[i].what = "fire" /\ queue[i].call = c => i = 1
  BY <1>1, <1>2 DEF IInv, FiredOnce
<1>5. ~object[c].done
  BY <1>2, <1>4 DEF IInv, ObjectsOwn, Own
<1>6. \/ object' = object /\ promise' = [promise EXCEPT ![c] = "running"]
      \/ /\ object' = [object EXCEPT ![c] = Settled(c, FALSE)]
         /\ promise' = [promise EXCEPT ![c] = "absent"]
  BY DEF EvaluateFire
<1>7. ~ToCome(c)
  BY <1>2 DEF IInv, Fresh
<1>8. op \in {"idle", "firing"}
  BY <1>1, Lone DEF IInv, TypeOK, InTurn, Ops, Awaiting, Script
<1>9. /\ answered' \in BOOLEAN /\ heard' \in PollResults
      /\ answered' /\ ~answered => op = "firing" /\ Len(queue) = 1
  <2>1. NotStarted \in PollResults
    BY DEF NotStarted, PollResults
  <2>2. answered \in BOOLEAN /\ heard \in PollResults
    BY DEF IInv, TypeOK
  <2>3. CASE op \in Awaiting /\ ~answered /\ Len(queue) = 1
    <3>1. answered' = TRUE /\ heard' = NotStarted
      BY <1>3, <2>3, Zenon DEF Reply
    <3>2. op = "firing" /\ Len(queue) = 1
      BY <1>8, <2>3 DEF Awaiting
    <3> QED
      BY <2>1, <3>1, <3>2
  <2>4. CASE ~(op \in Awaiting /\ ~answered /\ Len(queue) = 1)
    <3>1. UNCHANGED <<answered, heard>>
      BY <1>3, <2>4, Zenon DEF Reply
    <3> QED
      BY <2>2, <3>1, Zenon
  <2> QED
    BY <2>3, <2>4
<1>10. /\ queue' \in Seq(Scripts)
       /\ \A i \in DOMAIN queue' : i + 1 \in DOMAIN queue /\ i + 1 # 1 /\ queue'[i] = queue[i + 1]
  BY <1>1, Evaluated
<1>11. TypeOK'
  <2>1. Settled(c, FALSE) \in PollResults
    BY <1>2 DEF Settled, PollResults
  <2>2. object \in [Calls -> PollResults] /\ promise \in [Calls -> Promises]
    BY DEF IInv, TypeOK
  <2>3. object' \in [Calls -> PollResults]
    BY <1>2, <1>6, <2>1, <2>2
  <2>4. promise' \in [Calls -> Promises]
    BY <1>2, <1>6, <2>2 DEF Promises
  <2>5. taper' \in [Slots -> Calls \cup {NoCall}]
    BY <1>2, <1>3 DEF IInv, TypeOK
  <2> QED
    BY <1>3, <1>9, <1>10, <2>5, <2>3, <2>4, Zenon DEF IInv, TypeOK
<1>12. AtWork'
  BY <1>3 DEF IInv, AtWork
<1>13. Fresh'
  <2> SUFFICES ASSUME NEW d \in Calls, ToCome(d)'
               PROVE  promise'[d] = "none" /\ \A i \in DOMAIN queue' : queue'[i].call # d
    BY DEF Fresh
  <2>1. ToCome(d) /\ d # c
    BY <1>3, <1>7 DEF ToCome, Open
  <2>2. promise'[d] = promise[d]
    BY <1>6, <2>1 DEF IInv, TypeOK
  <2> QED
    BY <1>10, <2>1, <2>2 DEF IInv, Fresh
<1>14. FiredOnce'
  <2> SUFFICES ASSUME NEW i \in DOMAIN queue', queue'[i].what = "fire"
               PROVE  /\ promise'[queue'[i].call] = "none"
                      /\ \A j \in DOMAIN queue' :
                           queue'[j].what = "fire" /\ queue'[j].call = queue'[i].call => j = i
    BY DEF FiredOnce
  <2>1. i + 1 \in DOMAIN queue /\ queue'[i] = queue[i + 1] /\ queue[i + 1].call # c
    BY <1>4, <1>10
  <2>2. promise[queue[i + 1].call] = "none"
    BY <2>1 DEF IInv, FiredOnce
  <2>3. promise \in [Calls -> Promises]
    BY DEF IInv, TypeOK
  <2>4. promise'[queue[i + 1].call] = "none"
    <3>1. queue[i + 1] \in Scripts
      BY <1>1, <2>1
    <3>2. queue[i + 1].call \in Calls
      BY <3>1 DEF Scripts
    <3> QED
      BY <1>6, <2>1, <2>2, <2>3, <3>2
  <2>5. ASSUME NEW j \in DOMAIN queue', queue'[j].what = "fire", queue'[j].call = queue'[i].call
        PROVE  j = i
    <3>1. j + 1 = i + 1
      BY <1>10, <2>1, <2>5 DEF IInv, FiredOnce
    <3>2. i \in Nat /\ j \in Nat
      BY <1>10
    <3> QED
      BY <3>1, <3>2
  <2> QED
    BY <2>1, <2>4, <2>5
<1>15. ASSUME op = "firing" PROVE InTurn' /\ SlotOwned'
  <2>1. CASE answered
    BY <1>1, <1>15, <2>1 DEF IInv, InTurn, Awaiting
  <2>2. CASE ~answered /\ Len(queue) = 1
    <3>1. queue' = <<>> /\ answered'
      BY <1>1, <1>3, <1>15, <2>2, Evaluated DEF Reply, Awaiting
    <3>2. queue[1] = Script("fire", call, slot)
      BY <1>15, <2>2 DEF IInv, InTurn
    <3>3. c = call /\ s = slot
      BY <1>1, <3>2, Evaluated DEF Script
    <3>4. promise'[call] # "none"
      BY <1>2, <1>6, <3>3 DEF IInv, TypeOK
    <3> QED
      BY <1>2, <1>3, <1>15, <3>1, <3>3, <3>4 DEF IInv, TypeOK, InTurn, SlotOwned, Awaiting
  <2>3. CASE ~answered /\ Len(queue) # 1
    <3>1. queue' # <<>> /\ queue'[Len(queue')] = queue[Len(queue)] /\ answered' = answered
      BY <1>1, <1>3, <2>3, Evaluated DEF Reply
    <3> QED
      BY <1>3, <1>15, <2>3, <3>1 DEF IInv, InTurn, SlotOwned, Awaiting
  <2> QED
    BY <2>1, <2>2, <2>3
<1>16. InTurn' /\ SlotOwned' /\ HeardOwn'
  <2>1. op' = op
    BY <1>3
  <2>2. HeardOwn'
    BY <1>8, <2>1 DEF HeardOwn
  <2>3. op = "idle" => InTurn' /\ SlotOwned'
    BY <2>1 DEF InTurn, SlotOwned, Awaiting
  <2> QED
    BY <1>8, <1>15, <2>2, <2>3
<1>17. ObjectsOwn'
  <2> SUFFICES ASSUME NEW d \in Calls PROVE Own(object[d], d)'
    BY DEF ObjectsOwn
  <2>1. CASE d # c
    BY <1>6, <2>1 DEF IInv, TypeOK, ObjectsOwn, Own
  <2>2. CASE d = c
    BY <1>2, <1>5, <1>6, <2>2 DEF IInv, TypeOK, Own, Settled
  <2> QED
    BY <2>1, <2>2
<1>18. OwnOutcome'
  <2> SUFFICES ASSUME NEW d \in Calls, result'[d] = "settled"
               PROVE  (answer[d].done /\ Own(answer[d], d))'
    BY DEF OwnOutcome
  <2>1. answer[d].done /\ Own(answer[d], d) /\ answer' = answer
    BY <1>3 DEF IInv, OwnOutcome
  <2>2. d # c
    BY <1>4, <2>1 DEF Own
  <2>3. promise'[d] = promise[d]
    BY <1>6, <2>2 DEF IInv, TypeOK
  <2> QED
    BY <2>1, <2>3, Zenon DEF Own
<1>19. GivenUpStarted'
  BY <1>3, <1>6 DEF IInv, TypeOK, GivenUpStarted
<1> QED
  BY <1>11, <1>12, <1>13, <1>14, <1>16, <1>17, <1>18, <1>19, Zenon DEF IInv

LEMMA EvaluatePollIInv ==
  ASSUME IInv, EvaluatePoll
  PROVE  IInv'
<1> DEFINE c == taper[Head(queue).slot]
           r == IF c = NoCall THEN NotStarted ELSE object[c]
<1>1. queue \in Seq(Scripts) /\ queue # <<>> /\ queue[1].what = "poll" /\ queue' = Tail(queue)
  BY DEF EvaluatePoll, IInv, TypeOK
<1>2. Head(queue) = queue[1] /\ queue[1].slot \in Slots /\ Len(queue) \in Nat \ {0}
  BY <1>1, Evaluated DEF Scripts
<1>3. /\ UNCHANGED <<op, call, slot, waits, left, nap, result, answer, taper, object, promise>>
      /\ Reply(r)
  BY DEF EvaluatePoll, tellVars
<1>4. r \in PollResults
  BY <1>2 DEF IInv, TypeOK, NotStarted, PollResults
<1>5. /\ queue' \in Seq(Scripts)
      /\ \A i \in DOMAIN queue' : i + 1 \in DOMAIN queue /\ i + 1 # 1 /\ queue'[i] = queue[i + 1]
      /\ Len(queue) = 1 => queue' = <<>>
      /\ Len(queue) # 1 => queue' # <<>> /\ queue'[Len(queue')] = queue[Len(queue)]
  BY <1>1, Evaluated
<1>6. answered' \in BOOLEAN /\ heard' \in PollResults
  BY <1>3, <1>4, Zenon DEF IInv, TypeOK, Reply
<1>7. TypeOK'
  BY <1>3, <1>5, <1>6, Zenon DEF IInv, TypeOK
<1>8. AtWork'
  BY <1>3 DEF IInv, AtWork
<1>9. Fresh'
  BY <1>3, <1>5 DEF IInv, Fresh, ToCome, Open
<1>10. FiredOnce'
  <2> SUFFICES ASSUME NEW i \in DOMAIN queue', queue'[i].what = "fire"
               PROVE  /\ promise'[queue'[i].call] = "none"
                      /\ \A j \in DOMAIN queue' :
                           queue'[j].what = "fire" /\ queue'[j].call = queue'[i].call => j = i
    BY DEF FiredOnce
  <2>1. promise'[queue'[i].call] = "none"
    BY <1>3, <1>5 DEF IInv, FiredOnce
  <2>2. ASSUME NEW j \in DOMAIN queue', queue'[j].what = "fire", queue'[j].call = queue'[i].call
        PROVE  j = i
    <3>1. j + 1 = i + 1
      BY <1>5, <2>2 DEF IInv, FiredOnce
    <3>2. i \in Nat /\ j \in Nat
      BY <1>5
    <3> QED
      BY <3>1, <3>2
  <2> QED
    BY <2>1, <2>2
<1>11. op \in {"idle", "firing", "polling"} /\ (op # "idle" => ~answered)
  BY <1>1 DEF IInv, TypeOK, InTurn, Ops, Awaiting
<1>12. InTurn' /\ SlotOwned' /\ HeardOwn'
  <2>1. CASE op = "idle"
    BY <1>3, <2>1 DEF InTurn, SlotOwned, HeardOwn, Awaiting
  <2>2. CASE op = "firing"
    <3>1. queue[Len(queue)].what = "fire"
      BY <1>11, <2>2 DEF IInv, InTurn, Script
    <3>2. Len(queue) # 1
      BY <1>1, <3>1
    <3>3. answered' = answered
      BY <1>3, <3>2 DEF Reply
    <3> QED
      BY <1>3, <1>5, <1>11, <2>2, <3>2, <3>3 DEF IInv, InTurn, SlotOwned, HeardOwn, Awaiting
  <2>3. CASE op = "polling"
    <3>1. /\ queue = <<Script("poll", call, slot)>>
          /\ promise[call] # "none" /\ taper[slot] \in {call, NoCall}
      BY <1>11, <2>3 DEF IInv, InTurn, SlotOwned
    <3>2. Len(queue) = 1 /\ Head(queue).slot = slot
      BY <3>1 DEF Script
    <3>3. queue' = <<>> /\ answered' /\ heard' = r
      BY <1>3, <1>5, <1>11, <2>3, <3>2 DEF Reply, Awaiting
    <3>4. call \in Calls
      BY <2>3 DEF IInv, AtWork
    <3>5. Own(r, call)
      BY <3>1, <3>2, <3>4 DEF IInv, ObjectsOwn, Own, NotStarted
    <3>6. HeardOwn'
      BY <1>3, <3>3, <3>5 DEF HeardOwn, Own
    <3> QED
      BY <1>3, <2>3, <3>1, <3>3, <3>6 DEF InTurn, SlotOwned, Awaiting
  <2> QED
    BY <1>11, <2>1, <2>2, <2>3
<1>13. ObjectsOwn' /\ OwnOutcome' /\ GivenUpStarted'
  BY <1>3, Zenon DEF IInv, ObjectsOwn, OwnOutcome, GivenUpStarted, Own
<1> QED
  BY <1>7, <1>8, <1>9, <1>10, <1>12, <1>13, Zenon DEF IInv

(* The page settles or forgets commands that run: nothing that was known   *)
(* of one that settled, or was never started, changes.                     *)
LEMMA PageMoves ==
  ASSUME IInv,
         UNCHANGED <<op, call, slot, waits, left, nap, answered, heard, tellVars, queue>>,
         object' \in [Calls -> PollResults], promise' \in [Calls -> Promises],
         taper' \in [Slots -> Calls \cup {NoCall}],
         \A s \in Slots : taper'[s] \in {taper[s], NoCall},
         \A c \in Calls : promise[c] # "running" => promise'[c] = promise[c],
         \A c \in Calls : promise[c] = "running" => promise'[c] # "none",
         \A c \in Calls : Own(object[c], c)'
  PROVE  IInv'
<1>1. UNCHANGED <<op, call, slot, waits, left, nap, answered, heard, result, answer, queue>>
  BY DEF tellVars
<1>2. TypeOK'
  BY <1>1, Zenon DEF IInv, TypeOK
<1>3. AtWork' /\ InTurn'
  <2>1. AtWork'
    BY <1>1, Zenon DEF IInv, AtWork
  <2>2. InTurn'
    BY <1>1, SMT DEF IInv, InTurn
  <2> QED
    BY <2>1, <2>2
<1>4. Fresh'
  BY <1>1 DEF IInv, Fresh, ToCome, Open
<1>5. FiredOnce'
  <2>1. ASSUME NEW i \in DOMAIN queue PROVE queue[i].call \in Calls
    <3>1. queue \in Seq(Scripts)
      BY DEF IInv, TypeOK
    <3>2. queue[i] \in Scripts
      BY <3>1
    <3> QED
      BY <3>2 DEF Scripts
  <2> QED
    BY <1>1, <2>1 DEF IInv, FiredOnce
<1>6. SlotOwned'
  <2>1. slot \in Slots
    BY DEF IInv, TypeOK
  <2>2. op # "idle" => call \in Calls
    BY DEF IInv, AtWork
  <2> QED
    BY <1>1, <2>1, <2>2 DEF IInv, SlotOwned
<1>7. \A c \in Calls, x \in PollResults : Own(x, c) => (x.done => promise'[c] = promise[c])
  BY DEF Own
<1>8. HeardOwn'
  <2>1. op = "polling" => call \in Calls
    BY DEF IInv, AtWork
  <2>2. heard \in PollResults
    BY DEF IInv, TypeOK
  <2> QED
    BY <1>1, <1>7, <2>1, <2>2 DEF IInv, HeardOwn, Own
<1>9. OwnOutcome'
  <2>1. \A c \in Calls : answer[c] \in PollResults
    BY DEF IInv, TypeOK
  <2> QED
    BY <1>1, <1>7, <2>1 DEF IInv, OwnOutcome, Own
<1>10. ObjectsOwn'
  BY DEF ObjectsOwn
<1>11. GivenUpStarted'
  BY <1>1 DEF IInv, GivenUpStarted
<1> QED
  BY <1>2, <1>3, <1>4, <1>5, <1>6, <1>8, <1>9, <1>10, <1>11, Zenon DEF IInv

LEMMA SettleIInv ==
  ASSUME IInv, NEW c \in Calls, NEW ok \in BOOLEAN, Settle(c, ok)
  PROVE  IInv'
<1>1. /\ UNCHANGED <<op, call, slot, waits, left, nap, answered, heard, tellVars, queue>>
      /\ promise[c] = "running"
      /\ taper' = taper
      /\ object' = [object EXCEPT ![c] = Settled(c, ok)]
      /\ promise' = [promise EXCEPT ![c] = IF ok THEN "resolved" ELSE "rejected"]
  BY DEF Settle
<1>2. Settled(c, ok) \in PollResults /\ Settled(c, ok).of = c
  BY DEF Settled, PollResults
<1>3. Settled(c, ok).ok = ok
  BY DEF Settled
<1>4. object' \in [Calls -> PollResults] /\ promise' \in [Calls -> Promises]
  BY <1>1, <1>2 DEF IInv, TypeOK, Promises
<1>5. /\ taper' \in [Slots -> Calls \cup {NoCall}]
      /\ \A s \in Slots : taper'[s] \in {taper[s], NoCall}
  BY <1>1 DEF IInv, TypeOK
<1>6. \A d \in Calls : /\ promise[d] # "running" => promise'[d] = promise[d]
                      /\ promise[d] = "running" => promise'[d] # "none"
  BY <1>1 DEF IInv, TypeOK
<1>7. ASSUME NEW d \in Calls PROVE Own(object[d], d)'
  <2>1. CASE d = c
    <3>1. object'[c] = Settled(c, ok) /\ promise'[c] = IF ok THEN "resolved" ELSE "rejected"
      BY <1>1 DEF IInv, TypeOK
    <3> QED
      BY <1>2, <1>3, <2>1, <3>1 DEF Own
  <2>2. CASE d # c
    BY <1>1, <2>2 DEF IInv, TypeOK, ObjectsOwn, Own
  <2> QED
    BY <2>1, <2>2
<1> QED
  BY <1>1, <1>4, <1>5, <1>6, <1>7, PageMoves

LEMMA ReloadIInv ==
  ASSUME IInv, Reload
  PROVE  IInv'
<1>1. /\ UNCHANGED <<op, call, slot, waits, left, nap, answered, heard, tellVars, queue, object>>
      /\ taper' = [s \in Slots |-> NoCall]
      /\ promise' = [c \in Calls |-> IF promise[c] = "running" THEN "lost" ELSE promise[c]]
  BY DEF Reload
<1>2. promise' \in [Calls -> Promises] /\ object' \in [Calls -> PollResults]
  BY <1>1 DEF IInv, TypeOK, Promises
<1>3. /\ taper' \in [Slots -> Calls \cup {NoCall}]
      /\ \A s \in Slots : taper'[s] \in {taper[s], NoCall}
  BY <1>1
<1>4. \A d \in Calls : /\ promise[d] # "running" => promise'[d] = promise[d]
                      /\ promise[d] = "running" => promise'[d] # "none"
  BY <1>1
<1>5. \A d \in Calls : Own(object[d], d)'
  BY <1>1 DEF IInv, ObjectsOwn, Own
<1> QED
  BY <1>1, <1>2, <1>3, <1>4, <1>5, PageMoves

-----------------------------------------------------------------------------
LEMMA NextIInv == IInv /\ [Next]_vars => IInv'
<1> SUFFICES ASSUME IInv, [Next]_vars PROVE IInv'
  OBVIOUS
<1>1. ASSUME NEW c \in Calls, NEW s \in Slots, NEW w \in BOOLEAN, Invoke(c, s, w) PROVE IInv'
  BY <1>1, InvokeIInv
<1>2. CASE ScriptFails
  BY <1>2, ScriptFailsIInv
<1>3. CASE Advance
  BY <1>3, FiredIInv, PollUntilDoneIInv, CheckDeadlineIInv, PolledIInv, WakeIInv DEF Advance
<1>4. CASE Tick
  BY <1>4, TickIInv
<1>5. CASE Page
  BY <1>5, EvaluateFireIInv, EvaluatePollIInv, ReloadIInv, SettleIInv DEF Page
<1>6. CASE UNCHANGED vars
  <2>1. left' \in 0..Timeout /\ nap' \in 0..Interval
    BY <1>6 DEF vars, IInv, TypeOK
  <2> QED
    BY <1>6, <2>1, Still DEF vars
<1> QED
  BY <1>1, <1>2, <1>3, <1>4, <1>5, <1>6 DEF Next, Idle

(* Every variable keeps its type, a command is started once, the scenario  *)
(* awaits the last script it sent, and what an object of the page, a reply *)
(* or a result says of a command is how the command ended.                 *)
THEOREM Invariance == Spec => []IInv
  BY InitIInv, NextIInv, PTL DEF Spec

(* Whatever slots invocations share, and however scripts, settlements and  *)
(* page loads interleave, an invocation reported as settled reports the    *)
(* outcome of its own command.                                             *)
THEOREM OutcomesAreOwn == Spec => []OwnOutcome
<1>1. IInv => OwnOutcome
  BY DEF IInv
<1> QED
  BY <1>1, Invariance, PTL

(* No invocation is reported as not settled before its deadline, or over a *)
(* poll that says it settled.                                              *)
THEOREM DeadlinesAreKept == Spec => NotBeforeDeadline
<1> DEFINE Early ==
      \A c \in Calls :
        result[c] = "none" /\ result'[c] = "unsettled" => left = 0 /\ ~answer'[c].done
<1>1. ASSUME IInv, [Next]_vars PROVE Early
  <2> SUFFICES ASSUME NEW c \in Calls, result[c] = "none", result'[c] = "unsettled"
               PROVE  left = 0 /\ ~answer'[c].done
    OBVIOUS
  <2>1. ~UNCHANGED tellVars
    BY DEF tellVars
  <2>2. ~NotStarted.done
    BY DEF NotStarted
  <2>3. result \in [Calls -> Results] /\ answer \in [Calls -> PollResults]
    BY <1>1 DEF IInv, TypeOK
  <2>4. CASE ScriptFails
    BY <2>3, <2>4 DEF ScriptFails, Conclude
  <2>5. CASE CheckDeadline
    BY <2>1, <2>2, <2>3, <2>5 DEF CheckDeadline, Conclude
  <2>6. CASE Polled
    BY <2>1, <2>3, <2>6 DEF Polled, Conclude
  <2>7. CASE Fired \/ PollUntilDone \/ Wake
    BY <2>1, <2>7 DEF Fired, PollUntilDone, Wake
  <2>8. ASSUME NEW d \in Calls, NEW s \in Slots, NEW w \in BOOLEAN, Invoke(d, s, w) PROVE FALSE
    BY <2>1, <2>8 DEF Invoke
  <2>9. CASE Page
    BY <2>1, <2>9 DEF Page, EvaluateFire, EvaluatePoll, Reload, Settle
  <2>10. CASE Tick \/ Idle \/ UNCHANGED vars
    BY <2>1, <2>10 DEF Tick, Idle, vars
  <2> QED
    BY <1>1, <2>4, <2>5, <2>6, <2>7, <2>8, <2>9, <2>10 DEF Next, Advance
<1> QED
  BY <1>1, Invariance, PTL DEF Spec, NotBeforeDeadline

-----------------------------------------------------------------------------
(* The refinement of RemoteCommand.                                        *)

(* What one invocation is told, read off the state.                        *)
LEMMA TellingOf ==
  ASSUME IInv, NEW c \in Calls
  PROVE  /\ Open(c) => Told[c] = "open"
         /\ ~Open(c) /\ result[c] = "settled" => Told[c] = IF answer[c].ok THEN "ok" ELSE "err"
         /\ ~Open(c) /\ result[c] # "settled" => Told[c] = result[c] /\ Told[c] # "open"
         /\ Told[c] = "open" => Open(c)
         /\ Told[c] = "none" => ~Open(c) /\ result[c] = "none"
  BY DEF Told, Results, IInv, TypeOK

(* A step that neither opens nor ends an invocation tells nothing.         *)
LEMMA ToldNothing ==
  ASSUME UNCHANGED <<call, result, answer>>, op = "idle" <=> op' = "idle"
  PROVE  Told' = Told
  BY DEF Told, Open

(* The end of an invocation is what RemoteCommand lets its caller be told. *)
LEMMA ConcludedRefines ==
  ASSUME IInv, op # "idle",
         NEW how \in Results \ {"none"}, NEW r \in PollResults,
         Conclude(how, r), UNCHANGED <<call, promise>>,
         how = "settled" => r.done /\ Own(r, call),
         how = "unsettled" => promise[call] # "none"
  PROVE  RC!Next
<1>1. /\ call \in Calls /\ result[call] = "none" /\ op' = "idle" /\ call' = call
      /\ result' = [result EXCEPT ![call] = how] /\ answer' = [answer EXCEPT ![call] = r]
  BY DEF IInv, AtWork, Conclude
<1>2. result \in [Calls -> Results] /\ answer \in [Calls -> PollResults]
  BY DEF IInv, TypeOK
<1>3. Told[call] = "open"
  BY <1>1, TellingOf DEF Open
<1> DEFINE v == IF how = "settled" THEN IF r.ok THEN "ok" ELSE "err" ELSE how
<1>4. Told' = [Told EXCEPT ![call] = v]
  <2>1. ASSUME NEW c \in Calls PROVE Told'[c] = IF c = call THEN v ELSE Told[c]
    <3>1. CASE c = call
      <4>1. result'[c] = how /\ answer'[c] = r
        BY <1>1, <1>2, <3>1
      <4> QED
        BY <1>1, <3>1, <4>1 DEF Told, Open
    <3>2. CASE c # call
      <4>1. result'[c] = result[c] /\ answer'[c] = answer[c]
        BY <1>1, <1>2, <3>2
      <4> QED
        BY <1>1, <3>2, <4>1 DEF Told, Open
    <3> QED
      BY <3>1, <3>2
  <2> QED
    BY <2>1 DEF Told
<1>5. CASE how = "settled"
  <2>1. r.ok \in BOOLEAN /\ Own(r, call) /\ r.done
    BY <1>5 DEF PollResults
  <2>2. IF r.ok THEN promise[call] = "resolved" ELSE promise[call] \in RC!Failed
    BY <2>1 DEF Own, RC!Failed
  <2>3. RC!Learn(call)
    BY <1>3, <1>4, <1>5, <2>1, <2>2 DEF RC!Learn
  <2> QED
    BY <1>1, <2>3 DEF RC!Next
<1>6. CASE how = "unsettled"
  <2>1. RC!GiveUp(call)
    BY <1>3, <1>4, <1>6 DEF RC!GiveUp
  <2> QED
    BY <1>1, <2>1 DEF RC!Next
<1>7. CASE how = "failed"
  <2>1. RC!Fail(call)
    BY <1>3, <1>4, <1>7 DEF RC!Fail
  <2> QED
    BY <1>1, <2>1 DEF RC!Next
<1> QED
  BY <1>5, <1>6, <1>7 DEF Results

LEMMA InvokeRefines ==
  ASSUME IInv, NEW c \in Calls, NEW s \in Slots, NEW w \in BOOLEAN, Invoke(c, s, w)
  PROVE  RC!Next
<1>1. /\ op = "idle" /\ op' = "firing" /\ call' = c /\ result[c] = "none"
      /\ UNCHANGED <<result, answer, promise>>
  BY DEF Invoke, Execute, tellVars
<1>2. \A d \in Calls : ~Open(d) /\ (Open(d)' <=> d = c)
  BY <1>1 DEF Open
<1>3. \A d \in Calls : Told[d] # "open"
  BY <1>2, TellingOf
<1>4. Told[c] = "none"
  BY <1>1, <1>2, TellingOf
<1>5. Told' = [Told EXCEPT ![c] = "open"]
  BY <1>1 DEF Told, Open
<1>6. RC!Open(c)
  BY <1>1, <1>3, <1>4, <1>5 DEF RC!Open
<1> QED
  BY <1>6 DEF RC!Next

(* A command starts when its fire script is evaluated: it was never        *)
(* started before, and its invocation is open or was told that a request   *)
(* failed.  That is where the scripts on the way matter.                   *)
LEMMA EvaluateFireRefines ==
  ASSUME IInv, EvaluateFire
  PROVE  RC!Next
<1> DEFINE c == Head(queue).call
<1>1. queue \in Seq(Scripts) /\ queue # <<>> /\ Head(queue).what = "fire"
  BY DEF EvaluateFire, IInv, TypeOK
<1>2. 1 \in DOMAIN queue /\ c = queue[1].call /\ queue[1].what = "fire" /\ c \in Calls
  BY <1>1, Evaluated DEF Scripts
<1>3. promise[c] = "none"
  BY <1>2 DEF IInv, FiredOnce
<1>4. ~ToCome(c)
  BY <1>2 DEF IInv, Fresh
<1>5. Told[c] \in {"open", "failed"}
  <2>1. Open(c) \/ result[c] # "none"
    BY <1>4 DEF ToCome
  <2>2. result[c] \notin {"settled", "unsettled"}
    BY <1>2, <1>3 DEF IInv, OwnOutcome, Own, GivenUpStarted
  <2>3. result[c] \in Results
    BY <1>2 DEF IInv, TypeOK
  <2> QED
    BY <1>2, <2>1, <2>2, <2>3, TellingOf DEF Results
<1>6. UNCHANGED <<op, call, result, answer>>
  BY DEF EvaluateFire, tellVars
<1>7. Told' = Told
  BY <1>6, ToldNothing
<1>8. \E f \in {"running", "absent"} : promise' = [promise EXCEPT ![c] = f]
  BY DEF EvaluateFire
<1>9. RC!Start(c)
  BY <1>3, <1>5, <1>7, <1>8, Zenon DEF RC!Start
<1> QED
  BY <1>2, <1>9 DEF RC!Next

(* Every step of the dance is a step of RemoteCommand, or tells nobody     *)
(* anything and moves no command.                                          *)
LEMMA RefineStep ==
  ASSUME IInv, [Next]_vars
  PROVE  [RC!Next]_(RC!rcVars)
<1>1. ASSUME UNCHANGED <<call, result, answer, promise>>, op = "idle" <=> op' = "idle"
      PROVE  [RC!Next]_(RC!rcVars)
  BY <1>1, ToldNothing DEF RC!rcVars
<1>2. ASSUME NEW c \in Calls, NEW s \in Slots, NEW w \in BOOLEAN, Invoke(c, s, w)
      PROVE  [RC!Next]_(RC!rcVars)
  BY <1>2, InvokeRefines
<1>3. ASSUME ScriptFails PROVE [RC!Next]_(RC!rcVars)
  <2>1. op # "idle" /\ Conclude("failed", NotStarted) /\ UNCHANGED <<call, promise>>
    BY <1>3 DEF ScriptFails, Awaiting, pageVars
  <2>2. "failed" \in Results \ {"none"} /\ NotStarted \in PollResults
    BY DEF Results, NotStarted, PollResults
  <2> QED
    BY <2>1, <2>2, ConcludedRefines
<1>4. ASSUME Fired \/ PollUntilDone \/ Wake PROVE [RC!Next]_(RC!rcVars)
  <2>1. UNCHANGED <<call, result, answer, promise>> /\ op # "idle" /\ op' # "idle"
    BY <1>4 DEF Fired, PollUntilDone, Wake, Execute, tellVars, pageVars
  <2> QED
    BY <1>1, <2>1
<1>5. ASSUME CheckDeadline PROVE [RC!Next]_(RC!rcVars)
  <2>1. op = "checking" /\ promise[call] # "none" /\ UNCHANGED <<call, promise>>
    BY <1>5 DEF CheckDeadline, Execute, pageVars, IInv, SlotOwned
  <2>2. CASE left = 0
    <3>1. "unsettled" \in Results \ {"none"} /\ NotStarted \in PollResults
      BY DEF Results, NotStarted, PollResults
    <3> QED
      BY <1>5, <2>1, <2>2, <3>1, ConcludedRefines DEF CheckDeadline
  <2>3. CASE left # 0
    BY <1>1, <1>5, <2>1, <2>3 DEF CheckDeadline, tellVars
  <2> QED
    BY <2>2, <2>3
<1>6. ASSUME Polled PROVE [RC!Next]_(RC!rcVars)
  <2>1. /\ op = "polling" /\ answered /\ promise[call] # "none" /\ UNCHANGED <<call, promise>>
        /\ heard \in PollResults /\ Own(heard, call)
    BY <1>6 DEF Polled, pageVars, IInv, SlotOwned, HeardOwn, TypeOK
  <2>2. {"settled", "unsettled"} \subseteq Results \ {"none"}
    BY DEF Results
  <2>3. CASE heard.done /\ Conclude("settled", heard)
    BY <2>1, <2>2, <2>3, ConcludedRefines
  <2>4. CASE Conclude("unsettled", heard)
    BY <2>1, <2>2, <2>4, ConcludedRefines
  <2>5. CASE op' = "sleeping" /\ UNCHANGED tellVars
    BY <1>1, <2>1, <2>5 DEF tellVars
  <2> QED
    BY <1>6, <2>3, <2>4, <2>5 DEF Polled
<1>7. ASSUME Tick \/ EvaluatePoll \/ Idle \/ UNCHANGED vars PROVE [RC!Next]_(RC!rcVars)
  <2>1. UNCHANGED <<op, call, result, answer, promise>>
    BY <1>7 DEF Tick, EvaluatePoll, Idle, vars, tellVars, pageVars
  <2> QED
    BY <1>1, <2>1
<1>8. ASSUME NEW c \in Calls, NEW ok \in BOOLEAN, Settle(c, ok) PROVE [RC!Next]_(RC!rcVars)
  <2>1. UNCHANGED <<op, call, result, answer>> /\ promise[c] = "running"
    BY <1>8 DEF Settle, tellVars
  <2>2. \E f \in {"resolved", "rejected"} : promise' = [promise EXCEPT ![c] = f]
    BY <1>8 DEF Settle
  <2>3. RC!End(c)
    BY <2>1, <2>2, ToldNothing, Zenon DEF RC!End
  <2> QED
    BY <2>3 DEF RC!Next
<1>9. ASSUME Reload PROVE [RC!Next]_(RC!rcVars)
  <2>1. UNCHANGED <<op, call, result, answer>>
    BY <1>9 DEF Reload, tellVars
  <2>2. RC!Forget
    BY <1>9, <2>1, ToldNothing, Zenon DEF RC!Forget, Reload
  <2> QED
    BY <2>2 DEF RC!Next
<1>10. ASSUME EvaluateFire PROVE [RC!Next]_(RC!rcVars)
  BY <1>10, EvaluateFireRefines
<1> QED
  BY <1>2, <1>3, <1>4, <1>5, <1>6, <1>7, <1>8, <1>9, <1>10 DEF Next, Advance, Page

(* The fire-and-poll dance implements RemoteCommand, for every set of      *)
(* invocations and slots and every deadline: a command runs once and only  *)
(* if it was invoked, its invocation is told its own outcome, and only one *)
(* that was started is reported as not settled.                            *)
THEOREM Refinement == Spec => Implements
<1>1. Init => RC!Init
  BY DEF Init, RC!Init, Told, Open
<1>2. IInv /\ [Next]_vars => [RC!Next]_(RC!rcVars)
  BY RefineStep
<1> QED
  BY <1>1, <1>2, Invariance, PTL DEF Spec, Implements, RC!Spec

-----------------------------------------------------------------------------
(* Every move of an invocation counts.                                     *)

LEMMA Fewer ==
  ASSUME NEW m \in Nat, NEW n \in Nat, NEW k \in Nat
  PROVE  /\ m * k \in Nat
         /\ (m + 1) * k = m * k + k
         /\ m <= n => m * k <= n * k
  BY SMT

LEMMA AwakeStep ==
  ASSUME IInv, Awake, [Next]_vars
  PROVE  Awake'
<1>1. nap \in 0..Interval /\ waits \in BOOLEAN
  BY DEF IInv, TypeOK
<1>2. ASSUME NEW c \in Calls, NEW s \in Slots, NEW w \in BOOLEAN, Invoke(c, s, w) PROVE Awake'
  BY <1>2 DEF Invoke, Awake
<1>3. CASE ScriptFails
  BY <1>1, <1>3 DEF ScriptFails, Conclude, Awaiting, Awake
<1>4. CASE Advance
  BY <1>1, <1>4 DEF Advance, Fired, PollUntilDone, CheckDeadline, Polled, Wake, Conclude, Awake
<1>5. CASE Tick
  BY <1>1, <1>5 DEF Tick, Awake
<1>6. CASE Page \/ UNCHANGED vars
  <2>1. UNCHANGED <<op, nap, waits>>
    BY <1>6 DEF Page, EvaluateFire, EvaluatePoll, Settle, Reload, vars
  <2> QED
    BY <2>1 DEF Awake
<1> QED
  BY <1>2, <1>3, <1>4, <1>5, <1>6 DEF Next, Idle

LEMMA RankStep ==
  ASSUME IInv, Awake, [Next]_vars, op # "idle"
  PROVE  /\ Rank' <= Rank
         /\ <<op, queue, answered, nap>>' # <<op, queue, answered, nap>> => Rank' < Rank
<1> DEFINE K == Interval + 4
           Down == Rank' \in Nat /\ Rank \in Nat /\ Rank' < Rank
<1>1. /\ K \in Nat /\ Timeout \in Nat /\ Interval \in Nat \ {0}
      /\ left \in Nat /\ nap \in Nat /\ left <= Timeout
      /\ op \in Ops /\ queue \in Seq(Scripts) /\ Len(queue) \in Nat /\ Len(<<>>) = 0
  BY DEF IInv, TypeOK
<1>2. \A m, n \in Nat : /\ m * K \in Nat
                        /\ (m + 1) * K = m * K + K
                        /\ m <= n => m * K <= n * K
  BY <1>1, Fewer
<1>3. Sleeps \in Nat /\ Rank \in Nat
  <2>1. Sleeps \in Nat /\ Stage \in Nat
    BY <1>1 DEF Sleeps, Stage, Beyond, Ops
  <2> QED
    BY <1>1, <1>2, <2>1 DEF Rank
<1>4. ASSUME op' = "idle" PROVE Down
  <2>1. Rank' = 0
    BY <1>1, <1>4 DEF Rank, Sleeps, Stage
  <2>2. Stage >= 1 /\ Stage \in Nat
    BY <1>1 DEF Stage, Ops
  <2>3. Rank = Sleeps * K + Stage /\ Sleeps * K \in Nat
    BY <1>2, <1>3 DEF Rank
  <2> QED
    BY <2>1, <2>2, <2>3
<1>5. CASE Fired
  <2>1. op = "firing" /\ Len(queue) = 0 /\ op' = (IF waits THEN "checking" ELSE "fired")
        /\ left' = IF waits THEN Timeout ELSE 0
    BY <1>1, <1>5 DEF Fired, IInv, InTurn, Awaiting
  <2>2. Rank = Timeout * K + 5
    BY <1>1, <1>2, <2>1 DEF Rank, Sleeps, Stage
  <2>3. Rank' \in {Timeout * K + 3, Timeout * K + 4}
    BY <1>1, <1>2, <2>1 DEF Rank, Sleeps, Stage
  <2> QED
    BY <1>1, <1>2, <2>2, <2>3
(* A poll is sent, with fewer sleeps than `n` ahead of it.                 *)
<1>6. ASSUME NEW n \in Nat, op' = "polling", queue = <<>>,
             Execute(Script("poll", call, slot)),
             waits' = waits, left' \in Nat,
             waits \/ left' > 0 => left' <= n /\ n > 0,
             Rank = n * K + 3 \/ Rank = n * K + 4
      PROVE  Down
  <2>1. Len(queue') = 1
    BY <1>6 DEF Execute
  <2>2. Sleeps' \in Nat /\ Sleeps' <= n
    BY <1>1, <1>6 DEF Sleeps, Beyond
  <2>3. Rank' = Sleeps' * K + 2
    BY <1>2, <1>6, <2>1, <2>2 DEF Rank, Stage
  <2>4. Sleeps' * K <= n * K /\ Sleeps' * K \in Nat /\ n * K \in Nat
    BY <1>2, <2>2
  <2> QED
    BY <1>6, <2>3, <2>4
<1>7. CASE PollUntilDone
  <2>1. op = "fired" /\ queue = <<>> /\ ~waits /\ left' = Timeout
    BY <1>7 DEF PollUntilDone, IInv, InTurn, Awake
  <2>2. Rank = Timeout * K + 4
    BY <1>1, <1>2, <2>1 DEF Rank, Sleeps, Stage
  <2> QED
    BY <1>1, <1>6, <1>7, <2>1, <2>2 DEF PollUntilDone
<1>8. CASE CheckDeadline
  <2>1. op = "checking" /\ queue = <<>>
    BY <1>8 DEF CheckDeadline, IInv, InTurn
  <2>2. CASE left = 0
    BY <1>4, <1>8, <2>2 DEF CheckDeadline, Conclude
  <2>3. CASE left # 0
    <3>1. Rank = left * K + 3
      BY <1>1, <1>2, <2>1 DEF Rank, Sleeps, Stage
    <3> QED
      BY <1>1, <1>6, <1>8, <2>1, <2>3, <3>1 DEF CheckDeadline
  <2> QED
    BY <2>2, <2>3
<1>9. CASE Polled
  <2>1. op = "polling" /\ queue = <<>>
    BY <1>9 DEF Polled, IInv, InTurn, Awaiting
  <2>2. CASE op' = "idle"
    BY <1>4, <2>2
  <2>3. CASE op' # "idle"
    <3>1. /\ waits \/ left > 0
          /\ op' = "sleeping" /\ nap' = Interval /\ left' = left
      BY <1>1, <1>9, <2>3 DEF Polled, Conclude
    <3>2. Rank = (Beyond(Interval) + 1) * K + 1
      BY <1>1, <1>2, <2>1, <3>1 DEF Rank, Sleeps, Stage
    <3>3. Rank' = Beyond(Interval) * K + (4 + Interval)
      BY <1>1, <1>2, <3>1 DEF Rank, Sleeps, Stage, Beyond
    <3>4. Beyond(Interval) \in Nat
      BY <1>1 DEF Beyond
    <3> QED
      BY <1>1, <1>2, <3>2, <3>3, <3>4
  <2> QED
    BY <2>2, <2>3
<1>10. CASE Wake
  <2>1. op = "sleeping" /\ queue = <<>> /\ nap = 0 /\ left' = left /\ waits' = waits
    BY <1>10 DEF Wake, IInv, InTurn
  <2>2. Rank = left * K + 4
    <3>1. Beyond(nap) = left
      BY <1>1, <2>1 DEF Beyond
    <3>2. Sleeps = left /\ Stage = 4
      BY <1>1, <2>1, <3>1 DEF Sleeps, Stage
    <3> QED
      BY <3>2 DEF Rank
  <2>3. CASE waits
    <3>1. op' = "checking"
      BY <1>10, <2>3 DEF Wake
    <3>2. Rank' = left * K + 3
      BY <1>1, <1>2, <2>1, <3>1 DEF Rank, Sleeps, Stage
    <3> QED
      BY <1>1, <1>2, <2>2, <3>2
  <2>4. CASE ~waits
    BY <1>1, <1>6, <1>10, <2>1, <2>2, <2>4 DEF Wake
  <2> QED
    BY <2>3, <2>4
<1>11. CASE ScriptFails
  BY <1>4, <1>11 DEF ScriptFails, Conclude
(* The clock ticks.                                                        *)
<1>12. CASE Tick
  <2>1. /\ UNCHANGED <<op, waits, queue, answered>>
        /\ left' = (IF left > 0 THEN left - 1 ELSE 0) /\ nap' = IF nap > 0 THEN nap - 1 ELSE 0
    BY <1>12 DEF Tick, pageVars
  <2>2. Sleeps' \in Nat /\ Sleeps' <= Sleeps
    BY <1>1, <2>1 DEF Sleeps, Beyond, Ops
  <2>3. /\ Stage \in Nat /\ Stage' \in Nat /\ Stage' <= Stage
        /\ nap' # nap => Stage' < Stage
    BY <1>1, <2>1 DEF Stage, Awake, Ops
  <2>4. Sleeps' * K <= Sleeps * K /\ Sleeps' * K \in Nat /\ Sleeps * K \in Nat
    BY <1>2, <1>3, <2>2
  <2> QED
    BY <2>1, <2>3, <2>4 DEF Rank
(* A script is evaluated while the scenario waits for the last one.        *)
<1>13. CASE EvaluateFire \/ EvaluatePoll
  <2>1. UNCHANGED <<op, waits, left, nap>> /\ queue # <<>> /\ queue' = Tail(queue)
    BY <1>13 DEF EvaluateFire, EvaluatePoll
  <2>2. op \in Awaiting
    BY <1>1, <2>1 DEF IInv, InTurn, Ops, Awaiting
  <2>3. Len(queue') = Len(queue) - 1 /\ Len(queue') \in Nat
    BY <1>1, <2>1, Evaluated
  <2>4. Sleeps' = Sleeps
    BY <2>1, <2>2 DEF Sleeps, Beyond, Awaiting
  <2>5. Stage' = Stage - 1 /\ Stage \in Nat
    BY <1>1, <2>1, <2>2, <2>3 DEF Stage, Awaiting
  <2> QED
    BY <1>2, <1>3, <2>4, <2>5 DEF Rank
<1>14. ASSUME UNCHANGED <<op, waits, left, nap, answered, queue>>
       PROVE  Rank' = Rank
  BY <1>14 DEF Rank, Sleeps, Stage, Beyond
<1>15. CASE Reload \/ UNCHANGED vars \/ \E c \in Calls, ok \in BOOLEAN : Settle(c, ok)
  <2>1. UNCHANGED <<op, waits, left, nap, answered, queue>>
    BY <1>15 DEF Reload, Settle, vars, pageVars
  <2> QED
    BY <1>3, <1>14, <2>1
<1>16. Down => Rank' <= Rank /\ Rank' < Rank
  OBVIOUS
<1> QED
  BY <1>5, <1>7, <1>8, <1>9, <1>10, <1>11, <1>12, <1>13, <1>15, <1>16
     DEF Next, Advance, Page, Invoke, Idle

(* The half of InvocationReturns that is about steps: whatever the page    *)
(* and the clock do, an invocation has only so many moves, whatever the    *)
(* deadline and the pause.                                                 *)
THEOREM MovesAreCounted == Spec => EveryMoveCounts
<1> DEFINE Counts ==
      op # "idle" =>
        /\ Rank' <= Rank
        /\ <<op, queue, answered, nap>>' # <<op, queue, answered, nap>> => Rank' < Rank
<1>1. Init => Awake
  BY DEF Init, Awake
<1>2. IInv /\ Awake /\ [Next]_vars => Awake'
  BY AwakeStep
<1>3. ASSUME IInv, Awake, [Next]_vars PROVE Counts
  BY <1>3, RankStep
<1> QED
  BY <1>1, <1>2, <1>3, Invariance, PTL DEF Spec, EveryMoveCounts
=============================================================================
