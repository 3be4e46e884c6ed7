--------------------------- MODULE ScenariosProofs ---------------------------
(***************************************************************************)
(* Proofs about Scenarios for every number of prompts and without the      *)
(* bounds of the runs.                                                     *)
(***************************************************************************)
EXTENDS Scenarios, SequenceTheorems, TLAPS

USE NAssumption

LEMMA InitIInv == Init => IInv
<1> SUFFICES ASSUME Init PROVE IInv
  OBVIOUS
<1>1. PICK r \in Runtimes : state = r.state /\ attempt = r.attempt /\ container = r.container
  BY DEF Init
<1>2. /\ state \in Labels \ {"(unknown)"} /\ attempt \in BOOLEAN
      /\ container \in {"up", "stopped"}
  BY <1>1 DEF Runtimes
<1>3. TypeOK
  <2>1. turn \in [Turns -> Activities]
    BY DEF Init, Activities
  <2>2. rows \subseteq Row
    <3>1. Texts \subseteq Nat
      BY DEF Texts, Prompts, ByRows, Laptop
    <3>2. ASSUME NEW old \in {{}, Texts} PROVE {[text |-> x, phase |-> 0] : x \in old} \subseteq Row
      <4>1. \A x \in old : x \in Nat
        BY <3>1
      <4>2. \A x \in Nat : [text |-> x, phase |-> 0] \in Row
        BY DEF Row
      <4> QED
        BY <4>1, <4>2
    <3>3. rows = {} \/ \E old \in {{}, Texts} : rows = {[text |-> x, phase |-> 0] : x \in old}
      BY Zenon DEF Init
    <3> QED
      BY <3>2, <3>3
  <2>3. /\ last \in Labels /\ late \in BOOLEAN /\ passed \in BOOLEAN /\ verdict = "none"
        /\ current \in Nat \ {0} /\ baseline \in Nat /\ phase \in Nat
        /\ lost \in BOOLEAN /\ back \in BOOLEAN
        /\ taperLastErr \in BOOLEAN /\ scenario \in Chats \cup Outages
    <3>1. /\ last = "(unknown)" /\ late = FALSE /\ passed = TRUE /\ verdict = "none"
          /\ current = 1 /\ baseline = 0 /\ phase = 0 /\ lost = FALSE /\ back = FALSE
          /\ taperLastErr = FALSE /\ scenario \in Chats \cup Outages
      BY Zenon DEF Init
    <3>2. /\ late \in BOOLEAN /\ passed \in BOOLEAN
          /\ lost \in BOOLEAN /\ back \in BOOLEAN /\ taperLastErr \in BOOLEAN
      BY <3>1, Zenon
    <3>3. last \in Labels /\ current \in Nat \ {0} /\ baseline \in Nat /\ phase \in Nat
      BY <3>1, SMT DEF Labels
    <3> QED
      BY <3>1, <3>2, <3>3, Zenon
  <2>4. pc \in Steps /\ file \in {"none", "old", "new"}
    BY DEF Init, Steps
  <2>5. messages \in Seq(BOOLEAN)
    <3>1. <<>> \in Seq(BOOLEAN)
      OBVIOUS
    <3> QED
      BY <3>1 DEF Init
  <2> QED
    BY <1>2, <2>1, <2>2, <2>3, <2>4, <2>5, Zenon DEF TypeOK
<1>4. Clock /\ Table /\ Place /\ Verdict
  BY DEF Init, Clock, Table, Place, Verdict, PassMeansRecovery, VerdictRestores,
         Prompting, Outage, Waits, Chats, Outages, Stamped, Asserted
<1>5. Judged
  BY DEF Init, Judged, ByRows, Prompts, Chats
<1>6. Story
  BY DEF Init, Story, Outage, Waits, Chats, Outages
<1> QED
  BY <1>3, <1>4, <1>5, <1>6 DEF IInv

-----------------------------------------------------------------------------
(* The chats.                                                              *)

LEMMA ChatType == IInv /\ Chat => TypeOK'
<1> SUFFICES ASSUME IInv, Chat PROVE TypeOK'
  OBVIOUS
<1> USE DEF IInv, TypeOK, Steps, Prompting, resultVars, promptVars, runtimeVars, pageVars
<1>1. CASE Prepare
  BY <1>1 DEF Prepare
<1>2. CASE Wipe
  BY <1>2 DEF Wipe
<1>3. CASE Reload
  <2>1. <<>> \in Seq(BOOLEAN) /\ <<TRUE>> \in Seq(BOOLEAN)
    OBVIOUS
  <2>2. messages' \in {<<>>, <<TRUE>>} /\ passed' \in BOOLEAN /\ taperLastErr' \in BOOLEAN
    BY <1>3, Zenon DEF Reload
  <2>3. messages' \in Seq(BOOLEAN)
    BY <2>1, <2>2, Zenon
  <2>4. pc' \in {"showcase", "stamp", "baseline"}
    BY <1>3, Zenon DEF Reload, FirstStep
  <2>5. UNCHANGED <<scenario, last, late, verdict, promptVars, runtimeVars, turn, rows, file>>
    BY <1>3, Zenon DEF Reload
  <2> QED
    BY <2>2, <2>3, <2>4, <2>5
<1>4. CASE Showcase
  BY <1>4 DEF Showcase, FirstStep
<1>5. CASE Stamp
  BY <1>5 DEF Stamp
<1>6. CASE Baseline
  <2>1. Len(messages) \in Nat
    BY LenProperties
  <2> QED
    BY <1>6, <2>1 DEF Baseline
<1>7. CASE Fire
  <2>1. turn' \in [Turns -> Activities]
    BY <1>7 DEF Fire, Activities
  <2> QED
    BY <1>7, <2>1 DEF Fire
<1>8. CASE Look
  <2>1. /\ \/ passed' \in BOOLEAN /\ Return
           \/ pc' = "sleeping" /\ UNCHANGED <<passed, baseline, late>>
        /\ UNCHANGED <<scenario, last, verdict, current, phase, runtimeVars, pageVars>>
    BY <1>8, Zenon DEF Look
  <2>2. CASE passed' \in BOOLEAN /\ Return
    BY <2>1, <2>2, ZenonT(60) DEF Return
  <2>3. CASE pc' = "sleeping" /\ UNCHANGED <<passed, baseline, late>>
    BY <2>1, <2>3
  <2> QED
    BY <2>1, <2>2, <2>3, Zenon
<1>9. CASE Wake
  BY <1>9 DEF Wake
<1>10. CASE Judge
  <2>1. passed' \in BOOLEAN
    BY <1>10 DEF Judge, Holds, DbContains, FileThere
  <2> QED
    BY <1>10, <2>1 DEF Judge, FirstStep
<1> QED
  BY <1>1, <1>2, <1>3, <1>4, <1>5, <1>6, <1>7, <1>8, <1>9, <1>10 DEF Chat

(* A step of a chat before its judgement leaves the container and what was *)
(* judged alone.                                                           *)
LEMMA ChatStep ==
  ASSUME IInv, TypeOK', Clock', Table', scenario \in Chats,
         UNCHANGED <<scenario, last, verdict, current, runtimeVars>>, passed' => passed,
         (rows' = rows /\ file' = file) \/ current = 1,
         pc \notin Outage \cup {"meanwhile", "finish", "over"},
         pc' \in {"wipe", "reload", "showcase", "stamp"} \cup Prompting,
         pc' = "stamp" => Stamped, pc' = "showcase" => scenario = "end_to_end"
  PROVE  IInv'
<1>1. Judged'
  <2>1. CASE rows' = rows /\ file' = file
    BY <2>1 DEF IInv, Judged, ByRows, Prompts, Evidence, Stamped, Unseen
  <2>2. CASE current = 1
    BY <2>2 DEF Judged, ByRows, Prompts
  <2> QED
    BY <2>1, <2>2
<1>2. Place' /\ Story' /\ Verdict'
  BY DEF IInv, Place, Story, Verdict, PassMeansRecovery, VerdictRestores, runtimeVars,
         Outage, Waits, Prompting, Chats, Outages, Stamped, Asserted
<1> QED
  BY <1>1, <1>2 DEF IInv

LEMMA ChatIInv == IInv /\ Chat => IInv'
<1> SUFFICES ASSUME IInv, Chat PROVE IInv'
  OBVIOUS
<1>t. TypeOK'
  BY ChatType
<1>c. scenario \in Chats
  BY DEF Chat, Prepare, Wipe, Reload, Showcase, Stamp, Baseline, Fire, Look, Wake, Judge,
         IInv, TypeOK, Place, Outage, Waits, Chats, Outages
<1>n. N[scenario] \in Nat \ {0}
  BY <1>c
<1> USE DEF resultVars, promptVars, pageVars
<1>1. CASE Prepare
  BY <1>t, <1>c, <1>1, ChatStep
     DEF Prepare, IInv, Clock, Table, Prompting, Outage, Waits
<1>2. CASE Wipe
  BY <1>t, <1>c, <1>2, ChatStep
     DEF Wipe, IInv, Clock, Table, Prompting, Outage, Waits
<1>o. ASSUME pc \in {"reload", "showcase"}, pc' \in {"showcase", FirstStep},
             passed' => passed, pc' = "showcase" => scenario = "end_to_end",
             UNCHANGED <<scenario, last, verdict, promptVars, runtimeVars, rows, file>>
      PROVE  IInv'
  <2>1. pc' \in {"showcase", "stamp", "baseline"} /\ (pc' = "stamp" => Stamped)
    BY <1>o DEF FirstStep
  <2>2. current = 1 /\ phase = 1
    BY <1>o DEF IInv, Clock
  <2>3. pc' = "baseline" => ~Stamped
    BY <1>o DEF FirstStep
  <2>4. Clock'
    BY <1>o, <1>n, <2>1, <2>2, <2>3 DEF Clock, Prompting, Stamped, Outage, Waits
  <2>5. Table'
    BY <1>o, <2>1 DEF IInv, Table
  <2>6. pc \notin Outage \cup {"meanwhile", "finish", "over"}
    BY <1>o DEF Outage, Waits
  <2>7. pc' \in {"wipe", "reload", "showcase", "stamp"} \cup Prompting
    BY <2>1 DEF Prompting
  <2> QED
    BY <1>t, <1>c, <1>o, <2>1, <2>4, <2>5, <2>6, <2>7, ChatStep
<1>3. CASE Reload
  BY <1>o, <1>3 DEF Reload, FirstStep
<1>4. CASE Showcase
  BY <1>o, <1>4 DEF Showcase, FirstStep
<1>5. CASE Stamp
  <2>1. phase' = phase + 1 /\ phase \in Nat \ {0}
    BY <1>5 DEF Stamp, IInv, TypeOK, Clock
  <2>2. Table'
    BY <1>5, <2>1 DEF Stamp, IInv, TypeOK, Row, Table
  <2>3. Clock' /\ Stamped
    BY <1>5 DEF Stamp, IInv, Clock, Place, Prompting, Stamped, Outage, Waits
  <2> QED
    BY <1>t, <1>c, <1>5, <2>2, <2>3, ChatStep DEF Stamp, Prompting, Outage, Waits
<1>6. CASE Baseline
  <2>1. phase <= phase' /\ phase \in Nat \ {0} /\ phase' \in Nat \ {0}
    BY <1>6 DEF Baseline, IInv, TypeOK, Clock
  <2>2. Table'
    BY <1>6, <2>1 DEF Baseline, IInv, TypeOK, Row, Table
  <2>3. Clock'
    BY <1>6 DEF Baseline, IInv, Clock, Prompting, Stamped, Outage, Waits
  <2> QED
    BY <1>t, <1>c, <1>6, <2>2, <2>3, ChatStep DEF Baseline, Prompting, Outage, Waits
<1>7. CASE Fire
  BY <1>t, <1>c, <1>7, ChatStep
     DEF Fire, IInv, Clock, Table, Prompting, Outage, Waits, Stamped
<1>8. CASE Look
  <2>1. pc' \in {"sleeping", "judge"} /\ (passed' => passed)
    BY <1>8 DEF Look, Return, IInv, TypeOK
  <2>2. pc = "looping" /\ UNCHANGED <<scenario, last, verdict, current, phase, runtimeVars,
                                      rows, file>>
    BY <1>8 DEF Look
  <2> QED
    BY <1>t, <1>c, <2>1, <2>2, ChatStep
       DEF IInv, Clock, Table, Prompting, Outage, Waits, Stamped
<1>9. CASE Wake
  BY <1>t, <1>c, <1>9, ChatStep
     DEF Wake, IInv, Clock, Table, Prompting, Outage, Waits, Stamped
<1>10. CASE Judge
  <2>1. /\ current \in 1..N[scenario] /\ phase = 2 * current /\ phase' = 2 * current + 1
        /\ current' = current + 1 /\ rows' = rows /\ file' = file /\ scenario' = scenario
        /\ verdict' = "none" /\ last' = last /\ UNCHANGED runtimeVars
        /\ passed' = (passed /\ Holds) /\ pc = "judge"
        /\ pc' = IF current < N[scenario] THEN FirstStep
                 ELSE IF scenario = "end_to_end" THEN "meanwhile" ELSE "finish"
    BY <1>10 DEF Judge, IInv, TypeOK, Clock, Verdict, Prompting
  <2>2. Clock'
    BY <2>1, <1>n DEF Clock, FirstStep, Stamped, Prompting, Outage, Waits
  <2>3. Table'
    BY <2>1 DEF IInv, TypeOK, Row, Table
  <2>4. ASSUME passed', current \in ByRows PROVE Evidence(current)
    <3>1. Holds /\ DbContains(current)
      BY <1>c, <2>1, <2>4 DEF Holds, ByRows
    <3>2. PICK r \in rows : r.text = current /\ (Stamped => r.phase >= 2 * current)
      BY <3>1 DEF DbContains
    <3>3. r.phase \in Nat \ {0} /\ r.phase <= phase
      BY <2>1, <3>2 DEF IInv, TypeOK, Row, Table
    <3> QED
      BY <2>1, <3>2, <3>3 DEF Evidence
  <2>5. ASSUME passed', Stamped, Named, current = 1 PROVE Unseen
    <3>1. scenario # "chat_real" /\ Holds
      BY <2>1, <2>5 DEF Stamped
    <3>2. ~DbContains(Laptop)
      BY <2>5, <3>1, Zenon DEF Holds
    <3> QED
      BY <2>5, <3>2 DEF DbContains, Unseen
  <2>6. ASSUME passed', scenario = "chat_real", current = N[scenario] PROVE file = "new"
    <3>1. file # "none"
      BY <2>1, <2>6 DEF Holds, FileThere
    <3> QED
      BY <2>1, <3>1 DEF IInv, TypeOK, Table
  <2>7. Judged'
    <3> SUFFICES ASSUME passed' PROVE Judged'
      BY DEF Judged
    <3>1. ASSUME NEW p \in ByRows, p < current' PROVE Evidence(p)'
      <4>1. p \in Nat
        BY <3>1 DEF ByRows, Prompts
      <4>2. CASE p = current
        BY <2>1, <2>4, <4>2 DEF Evidence, Stamped
      <4>3. CASE p < current
        BY <1>c, <2>1, <3>1, <4>3 DEF IInv, Judged, Evidence, Stamped
      <4>4. p = current \/ p < current
        BY <2>1, <3>1, <4>1
      <4> QED
        BY <4>2, <4>3, <4>4
    <3>2. scenario = "chat_real" /\ N[scenario] < current' => file = "new"
      BY <1>c, <1>n, <2>1, <2>6
    <3>3. Stamped /\ Named => Unseen
      <4>1. CASE current = 1
        BY <2>1, <2>5, <4>1
      <4>2. CASE 1 < current
        BY <1>c, <2>1, <4>2 DEF IInv, Judged
      <4> QED
        BY <2>1, <4>1, <4>2
    <3> QED
      BY <2>1, <3>1, <3>2, <3>3 DEF Judged, ByRows, Prompts, Stamped, Unseen
  <2>8. Place' /\ Story' /\ Verdict'
    BY <1>c, <2>1
       DEF IInv, Place, Story, Verdict, PassMeansRecovery, VerdictRestores, runtimeVars,
           FirstStep, Outage, Waits, Chats, Outages, Stamped, Asserted
  <2> QED
    BY <1>t, <2>2, <2>3, <2>7, <2>8 DEF IInv
<1> QED
  BY <1>1, <1>2, <1>3, <1>4, <1>5, <1>6, <1>7, <1>8, <1>9, <1>10 DEF Chat

-----------------------------------------------------------------------------
(* The outage.                                                             *)

(* A step of the outage leaves rows, prompts and page alone.               *)
LEMMA OutageStep ==
  ASSUME IInv, TypeOK', Place', Story',
         pc \in Outage \cup {"initially"}, pc' \in Outage \cup {"initially", "finish"},
         passed' => passed, verdict' = verdict, UNCHANGED outageRest
  PROVE  IInv'
<1> USE DEF outageRest, promptVars, pageVars
<1>1. Clock' /\ Table'
  BY DEF IInv, Clock, Table, Place, Outage, Waits, Prompting, Chats, Outages, Stamped
<1>2. Judged'
  BY DEF IInv, Judged, ByRows, Prompts, Evidence, Stamped, Unseen
<1>3. Verdict'
  BY DEF IInv, Verdict, PassMeansRecovery, VerdictRestores, Outage, Waits
<1> QED
  BY <1>1, <1>2, <1>3 DEF IInv

LEMMA OutsideIInv == IInv /\ Outside => IInv'
<1> SUFFICES ASSUME IInv, Outside PROVE IInv'
  OBVIOUS
<1> USE DEF resultVars, runtimeVars
<1>r. UNCHANGED outageRest => UNCHANGED <<scenario, turn, messages, rows, taperLastErr, file,
                                          current, baseline, phase>>
  BY DEF outageRest, promptVars, pageVars
<1>a. ASSUME pc \in Waits, (pc' = pc /\ last' = state) \/ pc' = After(last'),
             pc = "going" => last' # "(unknown)", last' = last \/ last' = state,
             UNCHANGED <<late, resultVars, runtimeVars, outageRest>>
      PROVE  IInv'
  <2>1. last' \in Labels /\ pc' \in Outage \cup {"finish"} \cup {pc}
    BY <1>a DEF After, Waits, Outage, IInv, TypeOK
  <2>2. TypeOK'
    BY <1>a, <1>r, <2>1 DEF IInv, TypeOK, Steps, Outage, Waits
  <2>3. Place'
    BY <1>a, <1>r, <2>1
       DEF IInv, TypeOK, Place, After, Waits, Outage, Asserted, Stamped, Chats, Outages
  <2>4. Story'
    <3>1. CASE pc = "going"
      BY <1>a, <1>r, <2>1, <3>1 DEF IInv, TypeOK, Story, After, Asserted, Outage, Waits, Labels
    <3>2. CASE pc = "returning"
      BY <1>a, <1>r, <2>1, <3>2 DEF IInv, TypeOK, Story, After, Asserted, Outage, Waits, Labels
    <3>3. CASE pc \in {"initially", "reconnecting"}
      BY <1>a, <1>r, <2>1, <3>3 DEF IInv, TypeOK, Story, After, Asserted, Outage, Waits, Labels
    <3> QED
      BY <1>a, <3>1, <3>2, <3>3 DEF Waits
  <2> QED
    BY <1>a, <2>1, <2>2, <2>3, <2>4, OutageStep DEF Waits, Outage
<1>1. CASE Poll
  BY <1>1, <1>a DEF Poll, IInv, TypeOK
<1>2. CASE GiveUp
  BY <1>2, <1>a DEF GiveUp, IInv, TypeOK, Story
<1>b. ASSUME TypeOK', Place', Story', pc \in Outage, pc' \in Outage \cup {"finish"},
             passed' => passed, verdict' = verdict, UNCHANGED outageRest
      PROVE  IInv'
  BY <1>b, OutageStep
<1>3. CASE Invoke
  <2>1. /\ pc \in {"reconnect", "invoke"} /\ attempt' \in BOOLEAN
        /\ pc' = IF pc = "reconnect" THEN "reconnecting" ELSE "returning"
        /\ last' = "(unknown)" /\ late' = FALSE
        /\ UNCHANGED <<resultVars, state, container, lost, back, outageRest>>
    BY <1>3 DEF Invoke, StartWait, IInv, TypeOK
  <2>2. TypeOK' /\ Place'
    <3>1. TypeOK'
      BY <1>r, <2>1, ZenonT(60) DEF IInv, TypeOK, Steps, Outage, Waits, Labels
    <3>2. Place'
      BY <1>r, <2>1 DEF IInv, TypeOK, Place, Outage, Waits, Asserted, Stamped, Chats, Outages
    <3> QED
      BY <3>1, <3>2
  <2>3. Story'
    BY <1>r, <2>1 DEF IInv, Story, Outage, Waits, Asserted
  <2> QED
    BY <1>b, <2>1, <2>2, <2>3 DEF Outage, Waits
<1>4. CASE Panel
  <2>1. /\ pc = "panel" /\ pc' = "stop" /\ passed' \in BOOLEAN /\ (passed' => passed)
        /\ UNCHANGED <<last, late, verdict, runtimeVars, outageRest>>
    BY <1>4 DEF Panel, Beat, IInv, TypeOK
  <2>2. TypeOK' /\ Place'
    BY <1>r, <2>1 DEF IInv, TypeOK, Place, Steps, Outage, Waits, Asserted, Stamped, Chats, Outages
  <2>3. Story'
    BY <1>r, <2>1 DEF IInv, Story, Outage, Waits, Asserted
  <2> QED
    BY <1>b, <2>1, <2>2, <2>3 DEF Outage, Waits
<1>5. CASE Stop
  <2>1. /\ pc = "stop" /\ pc' = "going" /\ container' = "stopped"
        /\ lost' = (state # "connected") /\ last' = "(unknown)" /\ late' = FALSE
        /\ UNCHANGED <<resultVars, state, attempt, back, outageRest>>
    BY <1>5 DEF Stop, StartWait
  <2>2. TypeOK' /\ Place'
    <3>1. TypeOK'
      BY <1>r, <2>1, ZenonT(60) DEF IInv, TypeOK, Steps, Outage, Waits, Labels
    <3>2. Place'
      BY <1>r, <2>1 DEF IInv, TypeOK, Place, Outage, Waits, Asserted, Stamped, Chats, Outages
    <3> QED
      BY <3>1, <3>2
  <2>3. Story'
    BY <1>r, <2>1 DEF IInv, Story, Outage, Waits, Asserted
  <2> QED
    BY <1>b, <2>1, <2>2, <2>3 DEF Outage, Waits
<1>6. CASE Gone
  <2>1. /\ pc = "gone" /\ pc' = "banner" /\ passed' \in BOOLEAN
        /\ passed' = (passed /\ last # "connected")
        /\ UNCHANGED <<last, late, verdict, runtimeVars, outageRest>>
    BY <1>6 DEF Gone, IInv, TypeOK
  <2>2. TypeOK' /\ Place'
    BY <1>r, <2>1 DEF IInv, TypeOK, Place, Steps, Outage, Waits, Asserted, Stamped
  <2>3. Story'
    BY <1>r, <2>1 DEF IInv, TypeOK, Story, Outage, Waits, Asserted
  <2> QED
    BY <1>b, <2>1, <2>2, <2>3 DEF Outage, Waits
<1>7. CASE Banner
  <2>1. /\ pc = "banner" /\ pc' = "revive" /\ passed' \in BOOLEAN /\ (passed' => passed)
        /\ UNCHANGED <<last, late, verdict, runtimeVars, outageRest>>
    BY <1>7 DEF Banner, Beat, IInv, TypeOK
  <2>2. TypeOK' /\ Place'
    BY <1>r, <2>1 DEF IInv, TypeOK, Place, Steps, Outage, Waits, Asserted, Stamped
  <2>3. Story'
    BY <1>r, <2>1 DEF IInv, Story, Outage, Waits, Asserted
  <2> QED
    BY <1>b, <2>1, <2>2, <2>3 DEF Outage, Waits
<1>8. CASE Revive
  <2>1. /\ pc = "revive" /\ pc' = "click" /\ container' = "up"
        /\ back' = (state = "connected")
        /\ UNCHANGED <<last, late, resultVars, state, attempt, lost, outageRest>>
    BY <1>8 DEF Revive
  <2>2. TypeOK' /\ Place'
    BY <1>r, <2>1 DEF IInv, TypeOK, Place, Steps, Outage, Waits, Asserted, Stamped
  <2>3. Story'
    BY <1>r, <2>1 DEF IInv, Story, Outage, Waits, Asserted
  <2> QED
    BY <1>b, <2>1, <2>2, <2>3 DEF Outage, Waits
<1>9. CASE Click
  <2>1. /\ pc = "click" /\ attempt' \in BOOLEAN
        /\ \/ pc' = "returning" /\ last' = "(unknown)" /\ late' = FALSE
           \/ pc' = "invoke" /\ UNCHANGED <<last, late>>
        /\ UNCHANGED <<resultVars, state, container, lost, back, outageRest>>
    BY <1>9 DEF Click, StartWait, IInv, TypeOK
  <2>2. TypeOK' /\ Place'
    <3>1. TypeOK'
      <4>1. pc' \in Steps /\ last' \in Labels /\ late' \in BOOLEAN
        BY <2>1 DEF IInv, TypeOK, Steps, Outage, Waits, Labels
      <4> QED
        BY <1>r, <2>1, <4>1 DEF IInv, TypeOK
    <3>2. Place'
      BY <1>r, <2>1 DEF IInv, TypeOK, Place, Outage, Waits, Asserted, Stamped, Chats, Outages
    <3> QED
      BY <3>1, <3>2
  <2>3. Story'
    BY <1>r, <2>1 DEF IInv, Story, Outage, Waits, Asserted
  <2> QED
    BY <1>b, <2>1, <2>2, <2>3 DEF Outage, Waits
<1>10. CASE Returned
  <2>1. /\ pc = "returned" /\ pc' = "finish" /\ passed' \in BOOLEAN
        /\ passed' = (passed /\ last = "connected")
        /\ UNCHANGED <<last, late, verdict, runtimeVars, outageRest>>
    BY <1>10 DEF Returned, IInv, TypeOK
  <2>2. TypeOK' /\ Place'
    BY <1>r, <2>1
       DEF IInv, TypeOK, Place, Steps, Outage, Waits, Asserted, Stamped, Chats, Outages
  <2>3. Story'
    BY <1>r, <2>1 DEF IInv, TypeOK, Story, Outage, Waits, Asserted
  <2> QED
    BY <1>b, <2>1, <2>2, <2>3 DEF Outage, Waits
<1> QED
  BY <1>1, <1>2, <1>3, <1>4, <1>5, <1>6, <1>7, <1>8, <1>9, <1>10 DEF Outside

LEMMA HelmorIInv == IInv /\ Helmor => IInv'
<1> SUFFICES ASSUME IInv, Helmor PROVE IInv'
  OBVIOUS
<1>1. /\ pc \in Outage \cup {"initially"}
      /\ UNCHANGED <<pc, last, late, resultVars, outageRest>>
  BY DEF Helmor, waitVars, outageRest
<1>2. /\ attempt' \in BOOLEAN /\ container' = container
      /\ \/ \E s \in States : Becomes(s)
         \/ UNCHANGED <<state, lost, back>>
  BY DEF Helmor, Lose, Retry, AttemptEnds, States, IInv, TypeOK
<1>3. CASE UNCHANGED <<state, lost, back>>
  <2>1. TypeOK' /\ Place' /\ Story'
    BY <1>1, <1>2, <1>3 DEF resultVars, outageRest, promptVars, pageVars,
       IInv, TypeOK, Place, Story, Asserted, Stamped
  <2> QED
    BY <1>1, <2>1, OutageStep DEF resultVars
<1>4. ASSUME NEW s \in States, Becomes(s) PROVE IInv'
  <2>1. /\ state' = s /\ lost' \in BOOLEAN /\ back' \in BOOLEAN
        /\ lost => lost'
        /\ back => back'
        /\ container = "stopped" /\ s # "connected" => lost'
        /\ pc \in {"click", "invoke", "returning"} /\ s = "connected" => back'
    BY <1>4 DEF Becomes, IInv, TypeOK
  <2>2. TypeOK' /\ Place'
    BY <1>1, <1>2, <2>1 DEF resultVars, outageRest, promptVars, pageVars,
       IInv, TypeOK, Place, Asserted, Stamped, States, Labels
  <2>3. Story'
    <3>1. UNCHANGED <<scenario, pc, last, late, passed, container>>
      BY <1>1, <1>2 DEF resultVars, outageRest
    <3> QED
      BY <2>1, <3>1 DEF IInv, Story, Asserted
  <2> QED
    BY <1>1, <2>2, <2>3, OutageStep DEF resultVars
<1> QED
  BY <1>2, <1>3, <1>4

-----------------------------------------------------------------------------
(* The steps between and after.                                            *)

LEMMA EndIInv == IInv /\ (Meanwhile \/ Finish \/ Fails) => IInv'
<1> SUFFICES ASSUME IInv, Meanwhile \/ Finish \/ Fails PROVE IInv'
  OBVIOUS
<1>f. /\ turn' \in [Turns -> Activities] /\ messages' \in Seq(BOOLEAN)
      /\ taperLastErr' \in BOOLEAN /\ UNCHANGED <<scenario, rows, file, current, phase>>
  <2>1. Forget /\ UNCHANGED <<scenario, current, phase>>
    BY DEF Meanwhile, Finish, Fails, promptVars
  <2>2. <<>> \in Seq(BOOLEAN)
    OBVIOUS
  <2> QED
    BY <2>1, <2>2 DEF Forget, Activities
<1>t. Table'
  BY <1>f DEF IInv, Table, Meanwhile, Finish, Fails
<1>j. (passed' => passed) => Judged'
  BY <1>f DEF IInv, Judged, ByRows, Prompts, Evidence, Stamped, Unseen
<1>1. CASE Meanwhile
  <2>1. /\ state' \in Labels \ {"(unknown)"} /\ attempt' \in BOOLEAN
        /\ container' \in {"up", "stopped"} /\ lost' = FALSE /\ back' = FALSE
        /\ pc = "meanwhile" /\ pc' = "stop"
        /\ UNCHANGED <<last, late, passed, verdict, baseline>>
    BY <1>1 DEF Meanwhile, Runtimes, resultVars, promptVars
  <2>2. scenario \in Chats /\ verdict = "none"
    BY <2>1 DEF IInv, TypeOK, Place, Verdict, Outage, Waits, Chats, Outages
  <2>3. scenario = "end_to_end"
    BY <2>1 DEF IInv, Place
  <2>4. TypeOK' /\ Place'
    BY <1>f, <2>1, <2>3 DEF IInv, TypeOK, Place, Steps, Outage, Waits, Outages, Chats,
       Asserted, Stamped
  <2>5. Clock' /\ Story' /\ Verdict'
    BY <1>f, <2>1, <2>2 DEF IInv, Clock, Story, Verdict, PassMeansRecovery, VerdictRestores,
       Outage, Waits, Prompting, Stamped
  <2> QED
    BY <1>t, <1>j, <2>1, <2>4, <2>5 DEF IInv
<1>2. CASE Finish
  <2>1. /\ pc = "finish" /\ pc' = "over" /\ verdict' = IF passed THEN "pass" ELSE "fail"
        /\ UNCHANGED <<last, late, passed, baseline, state, attempt, container, lost, back>>
    BY <1>2 DEF Finish, promptVars, runtimeVars
  <2>2. TypeOK' /\ Place'
    BY <1>f, <2>1 DEF IInv, TypeOK, Place, Steps, Outage, Waits
  <2>3. Clock' /\ Story'
    BY <2>1 DEF Clock, Story, Outage, Waits, Prompting
  <2>4. Verdict'
    BY <1>f, <2>1 DEF IInv, TypeOK, Clock, Story, Verdict, PassMeansRecovery, VerdictRestores,
       Asserted, Outage, Waits, Prompting
  <2> QED
    BY <1>t, <1>j, <2>1, <2>2, <2>3, <2>4 DEF IInv
<1>3. CASE Fails
  <2>1. /\ pc' = "over" /\ verdict' = "error" /\ baseline' = 0 /\ late' = FALSE
        /\ UNCHANGED <<last, passed, state, attempt, container, lost, back>>
    BY <1>3 DEF Fails, runtimeVars
  <2>2. TypeOK' /\ Place'
    BY <1>f, <2>1 DEF IInv, TypeOK, Place, Steps, Outage, Waits
  <2>3. Clock' /\ Story'
    BY <2>1 DEF Clock, Story, Outage, Waits, Prompting
  <2>4. Verdict'
    BY <1>f, <2>1 DEF Verdict, PassMeansRecovery, VerdictRestores
  <2> QED
    BY <1>t, <1>j, <2>1, <2>2, <2>3, <2>4 DEF IInv
<1> QED
  BY <1>1, <1>2, <1>3

-----------------------------------------------------------------------------
(* Page, agents and clock.                                                 *)

LEMMA PageIInv == IInv /\ (Page \/ Tick) => IInv'
<1> SUFFICES ASSUME IInv, Page \/ Tick PROVE IInv'
  OBVIOUS
<1> USE DEF waitVars, resultVars, promptVars, runtimeVars
<1>1. ASSUME TypeOK', UNCHANGED <<scenario, pc, last, resultVars, promptVars, runtimeVars, rows,
                                  file>>,
             late' => late \/ last # "(unknown)" \/ pc \notin Waits
      PROVE  IInv'
  <2>1. Clock' /\ Table' /\ Place'
    BY <1>1 DEF IInv, Clock, Table, Place, Stamped, Asserted
  <2>2. Judged'
    BY <1>1 DEF IInv, Judged, ByRows, Prompts, Evidence, Stamped, Unseen
  <2>3. Story' /\ Verdict'
    BY <1>1 DEF IInv, Story, Verdict, PassMeansRecovery, VerdictRestores, Asserted, Waits
  <2> QED
    BY <1>1, <2>1, <2>2, <2>3 DEF IInv
<1>2. CASE Tick
  <2>1. TypeOK'
    BY <1>2 DEF Tick, pageVars, IInv, TypeOK
  <2> QED
    BY <1>1, <1>2, <2>1 DEF Tick, pageVars, Waits
<1>3. CASE Page
  <2>0. /\ scenario \in Chats /\ pc \notin Outage \cup {"meanwhile", "finish", "over"} /\ Agents
        /\ UNCHANGED <<scenario, pc, last, late, resultVars, promptVars, runtimeVars>>
    BY <1>3 DEF Page
  <2>1. ASSUME NEW t \in Turns, Streams(t) \/ Ends(t) \/ Rejects(t) PROVE IInv'
    <3>1. turn' \in [Turns -> Activities]
      BY <2>1 DEF Streams, Ends, Rejects, Activities, IInv, TypeOK
    <3>2. taperLastErr' \in BOOLEAN
      BY <2>1 DEF Streams, Ends, Rejects, IInv, TypeOK
    <3>3. UNCHANGED <<messages, rows, file>>
      BY <2>1 DEF Streams, Ends, Rejects
    <3> QED
      BY <1>1, <2>0, <3>1, <3>2, <3>3 DEF IInv, TypeOK
  <2>2. ASSUME NEW i \in 1..Len(messages), Fill(i) PROVE IInv'
    <3>1. messages' \in Seq(BOOLEAN)
      BY <2>2, ExceptSeq DEF Fill, IInv, TypeOK
    <3> QED
      BY <1>1, <2>0, <2>2, <3>1 DEF Fill, IInv, TypeOK
  <2>3. CASE Show
    <3>1. messages' \in Seq(BOOLEAN)
      BY <2>3, AppendProperties DEF Show, IInv, TypeOK
    <3> QED
      BY <1>1, <2>0, <2>3, <3>1 DEF Show, IInv, TypeOK
  <2>4. CASE Create
    <3>1. /\ file' = IF pc = "prepare" THEN "old" ELSE "new"
          /\ UNCHANGED <<turn, messages, taperLastErr, rows>>
      BY <2>4 DEF Create
    <3>2. TypeOK'
      BY <2>0, <3>1 DEF IInv, TypeOK
    <3>3. Table'
      BY <2>0, <3>1 DEF IInv, Table, Clock
    <3>4. pc = "prepare" => current = 1
      BY DEF IInv, Clock
    <3>5. Judged'
      BY <2>0, <3>1, <3>4 DEF IInv, TypeOK, Judged, ByRows, Prompts, Evidence, Stamped, Unseen
    <3>6. Clock' /\ Place' /\ Story' /\ Verdict'
      BY <2>0, <3>1 DEF IInv, Clock, Place, Story, Verdict, PassMeansRecovery, VerdictRestores,
         Asserted, Stamped
    <3> QED
      BY <3>2, <3>3, <3>5, <3>6 DEF IInv
  <2>5. ASSUME NEW x \in Texts, Persist(x) PROVE IInv'
    <3>1. /\ rows' = rows \cup {[text |-> x, phase |-> phase]}
          /\ UNCHANGED <<turn, messages, taperLastErr, file>>
      BY <2>5 DEF Persist
    <3>2. x \in Nat
      BY DEF Texts, ByRows, Prompts, Laptop
    <3>3. TypeOK'
      <4>1. rows' \subseteq Row
        BY <3>1, <3>2 DEF IInv, TypeOK, Row
      <4> QED
        BY <2>0, <3>1, <4>1 DEF IInv, TypeOK
    <3>4. Table'
      BY <2>0, <3>1 DEF IInv, TypeOK, Table
    <3>5. 1 < current => phase # 2
      BY <2>0 DEF IInv, TypeOK, Steps, Clock, Prompting, Place
    <3>6. Judged'
      <4>1. \A p \in ByRows : Evidence(p) => Evidence(p)'
        BY <2>0, <3>1 DEF Evidence, Stamped
      <4>2. phase # 2 /\ Unseen => Unseen'
        BY <3>1 DEF Unseen
      <4> QED
        BY <2>0, <3>1, <3>5, <4>1, <4>2 DEF IInv, Judged, ByRows, Prompts, Stamped
    <3>7. Clock' /\ Place' /\ Story' /\ Verdict'
      BY <2>0, <3>1 DEF IInv, Clock, Place, Story, Verdict, PassMeansRecovery, VerdictRestores,
         Asserted, Stamped
    <3> QED
      BY <3>3, <3>4, <3>6, <3>7 DEF IInv
  <2> QED
    BY <2>0, <2>1, <2>2, <2>3, <2>4, <2>5 DEF Agents
<1> QED
  BY <1>2, <1>3

LEMMA NextIInv == IInv /\ [Next]_vars => IInv'
<1> SUFFICES ASSUME IInv, UNCHANGED vars PROVE IInv'
  BY ChatIInv, OutsideIInv, EndIInv, HelmorIInv, PageIInv DEF Next, Run, Over
<1>1. UNCHANGED <<scenario, waitVars, resultVars, promptVars, runtimeVars, pageVars>>
  BY DEF vars
<1>2. TypeOK' /\ Clock' /\ Table' /\ Place'
  BY <1>1 DEF waitVars, resultVars, promptVars, runtimeVars, pageVars, IInv, TypeOK, Clock,
     Table, Place, Stamped, Asserted
<1>3. Judged'
  BY <1>1 DEF resultVars, promptVars, pageVars, IInv, Judged, ByRows, Prompts, Evidence,
     Stamped, Unseen
<1>4. Story' /\ Verdict'
  BY <1>1 DEF waitVars, resultVars, promptVars, runtimeVars, IInv, Story, Verdict,
     PassMeansRecovery, VerdictRestores, Asserted
<1> QED
  BY <1>2, <1>3, <1>4 DEF IInv

-----------------------------------------------------------------------------
(* Every variable keeps its type, what a chat has judged so far is backed  *)
(* by rows of the right phase, and what an outage has seen by its history. *)
THEOREM Invariance == Spec => []IInv
  BY InitIInv, NextIInv, PTL DEF Spec

(* A chat that passes has for every prompt a row of its own run, in        *)
(* isolation_proof of its own prompt, and a file its own run has created,  *)
(* however turns, rows, files and messages interleave.                     *)
THEOREM EvidenceIsFresh == Spec => []FreshEvidence
<1>1. IInv => FreshEvidence
  <2> SUFFICES ASSUME IInv, verdict = "pass", scenario \in Chats
               PROVE  /\ \A p \in ByRows : Evidence(p)
                      /\ scenario = "chat_real" => file = "new"
    BY DEF FreshEvidence
  <2>1. passed /\ current = N[scenario] + 1 /\ N[scenario] \in Nat \ {0}
    BY DEF IInv, Verdict
  <2>2. \A p \in ByRows : p < current
    BY <2>1 DEF ByRows, Prompts
  <2> QED
    BY <2>1, <2>2 DEF IInv, Judged
<1> QED
  BY <1>1, Invariance, PTL

(* A run of isolation_proof that passes saw no row with the laptop's name  *)
(* written while the first prompt was under way.                           *)
THEOREM LaptopIsUnseen == Spec => []LaptopUnseen
<1>1. IInv => LaptopUnseen
  BY DEF IInv, TypeOK, Judged, Verdict, LaptopUnseen, Stamped, Chats
<1> QED
  BY <1>1, Invariance, PTL

(* A run of resilience that passes tells of an outage and a recovery that  *)
(* happened, whatever Helmor and the container did meanwhile.              *)
THEOREM PassIsRecovery == Spec => []PassMeansRecovery
<1>1. IInv => PassMeansRecovery
  BY DEF IInv, Verdict
<1> QED
  BY <1>1, Invariance, PTL

(* A scenario that comes to a verdict has started the container it         *)
(* stopped.                                                                *)
THEOREM ContainerIsRestored == Spec => []VerdictRestores
<1>1. IInv => VerdictRestores
  BY DEF IInv, Verdict
<1> QED
  BY <1>1, Invariance, PTL
=============================================================================
