------------------------- MODULE BridgeConnectProofs -------------------------
(***************************************************************************)
(* Proofs about BridgeConnect for every range of ports and every deadline. *)
(***************************************************************************)
EXTENDS BridgeConnect, TLAPS

USE ScanAssumption

LEMMA InitIInv == Init => IInv
  BY DEF Init, IInv, TypeOK, ScanComplete, NoBridgeMissed, NoBridgeLate, Offsets, Bridges, Kinds

LEMMA NextIInv == IInv /\ [Next]_vars => IInv'
<1> SUFFICES ASSUME IInv, [Next]_vars PROVE IInv'
  OBVIOUS
<1> USE DEF IInv, TypeOK, Offsets, Bridges
<1>1. CASE Accepted
  BY <1>1 DEF Accepted, ScanComplete, NoBridgeMissed, NoBridgeLate
<1>2. CASE Refused
  <2>1. TypeOK'
    BY <1>2 DEF Refused
  <2>2. at \notin steady
    BY <1>2 DEF Refused, ScanComplete
  <2>3. \A p \in steady : at + 1 <= p
    BY <1>2, <2>2 DEF Refused, ScanComplete
  <2> QED
    BY <1>2, <2>1, <2>3 DEF Refused, ScanComplete, NoBridgeMissed, NoBridgeLate
<1>3. CASE ScanEnds
  <2>1. steady = {}
    BY <1>3 DEF ScanEnds, ScanComplete
  <2> QED
    BY <1>3, <2>1 DEF ScanEnds, ScanComplete, NoBridgeMissed, NoBridgeLate
<1>4. CASE Rescan
  BY <1>4 DEF Rescan, ScanComplete, NoBridgeMissed, NoBridgeLate
<1>5. CASE Tick
  BY <1>5 DEF Tick, ScanComplete, NoBridgeMissed, NoBridgeLate
<1>6. ASSUME NEW p \in Offsets, NEW k \in Kinds, Change(p, k) PROVE IInv'
  BY <1>6 DEF Change, ScanComplete, NoBridgeMissed, NoBridgeLate
<1>7. CASE UNCHANGED vars
  BY <1>7 DEF vars, ScanComplete, NoBridgeMissed, NoBridgeLate
<1> QED
  BY <1>1, <1>2, <1>3, <1>4, <1>5, <1>6, <1>7 DEF Next, Scanner, Connected

(* Every variable keeps its type, and what a scan has passed is no bridge  *)
(* that was there all the time.                                            *)
THEOREM Invariance == Spec => []IInv
  BY InitIInv, NextIInv, PTL DEF Spec

(* connect never reports NoBridge while a port has been a bridge since its *)
(* last scan began, however ports change and however long it takes.        *)
THEOREM NothingMissed == Spec => []NoBridgeMissed
<1>1. IInv => NoBridgeMissed
  BY DEF IInv
<1> QED
  BY <1>1, Invariance, PTL

(* connect never reports NoBridge before its deadline.                     *)
THEOREM NeverEarly == Spec => []NoBridgeLate
<1>1. IInv => NoBridgeLate
  BY DEF IInv
<1> QED
  BY <1>1, Invariance, PTL

(* Past its deadline connect tries each port once more at most, however    *)
(* ports change: the half of ConnectReturns that is about steps.           *)
THEOREM DeadlineEndsScans == Spec => LastScan
<1> DEFINE Ends ==
      left = 0 => /\ ToGo' <= ToGo
                  /\ <<at, doing>>' # <<at, doing>> => ToGo' < ToGo
<1>1. ASSUME IInv, [Next]_vars PROVE Ends
  <2> USE DEF ToGo, IInv, TypeOK
  <2>1. CASE Accepted
    BY <1>1, <2>1 DEF Accepted
  <2>2. CASE Refused
    BY <1>1, <2>2 DEF Refused
  <2>3. CASE ScanEnds
    BY <1>1, <2>3 DEF ScanEnds
  <2>4. CASE Rescan
    BY <1>1, <2>4 DEF Rescan
  <2>5. CASE Tick \/ UNCHANGED vars \/ \E p \in Offsets, k \in Kinds : Change(p, k)
    BY <1>1, <2>5 DEF Tick, Change, vars
  <2> QED
    BY <1>1, <2>1, <2>2, <2>3, <2>4, <2>5 DEF Next, Scanner, Connected
<1> QED
  BY <1>1, Invariance, PTL DEF Spec, LastScan
=============================================================================
