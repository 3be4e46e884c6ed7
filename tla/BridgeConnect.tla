---------------------------- MODULE BridgeConnect ----------------------------
(***************************************************************************)
(* Bridge::connect of src/src/bridge/client.rs: scan a range of ports for  *)
(* a WebSocket handshake, again and again with a pause between two scans,  *)
(* until one succeeds or a scan ends past the deadline.                    *)
(*                                                                         *)
(* Around it Helmor starts and quits: a port refuses, is a bridge, or is   *)
(* silent (something takes the TCP connection and never finishes the       *)
(* handshake).  An attempt lasts as long as the port keeps it waiting.     *)
(***************************************************************************)
EXTENDS Naturals

CONSTANTS
  Scan,              \* port_scan: the ports base_port .. base_port + Scan - 1
  Limit              \* connect_timeout, in ticks

(* base_port + port_scan stays within a u16.                               *)
ASSUME ScanAssumption == Scan \in Nat /\ Limit \in Nat

VARIABLES
  ports,             \* what each port of the range is, by its offset
  at,                \* offset of the attempt under way
  doing,             \* "scanning", "sleeping" or "done"
  left,              \* ticks until the deadline
  found,             \* the offset connected to, Scan for none
  steady             \* history: the ports that are bridges since the scan began

vars == <<ports, at, doing, left, found, steady>>

Offsets == 0..(Scan - 1)
Kinds   == {"refusing", "bridge", "silent"}
Bridges == {p \in Offsets : ports[p] = "bridge"}

Init ==
  /\ ports \in [Offsets -> Kinds]
  /\ at = 0
  /\ doing = "scanning"
  /\ left = Limit
  /\ found = Scan
  /\ steady = Bridges

(* connect_async succeeds: the reader is spawned, the scan is over.        *)
Accepted ==
  /\ doing = "scanning" /\ at < Scan
  /\ ports[at] = "bridge"
  /\ found' = at
  /\ doing' = "done"
  /\ UNCHANGED <<ports, at, left, steady>>

(* connect_async fails: the next port.                                     *)
Refused ==
  /\ doing = "scanning" /\ at < Scan
  /\ ports[at] = "refusing"
  /\ at' = at + 1
  /\ UNCHANGED <<ports, doing, left, found, steady>>

(* Mutant: the last port of the range is left out.                         *)
ScanEndsEarly ==
  /\ doing = "scanning" /\ at + 1 >= Scan
  /\ doing' = IF left = 0 THEN "done" ELSE "sleeping"
  /\ UNCHANGED <<ports, at, left, found, steady>>

(* Mutant: one scan is enough.                                             *)
ScanOnce ==
  /\ doing = "scanning" /\ at = Scan
  /\ doing' = "done"
  /\ UNCHANGED <<ports, at, left, found, steady>>

(* Mutant: no deadline.                                                    *)
ScanForever ==
  /\ doing = "scanning" /\ at = Scan
  /\ doing' = "sleeping"
  /\ UNCHANGED <<ports, at, left, found, steady>>

(* The scan is over: NoBridge past the deadline, else a pause.             *)
ScanEnds ==
  /\ doing = "scanning" /\ at = Scan
  /\ doing' = IF left = 0 THEN "done" ELSE "sleeping"
  /\ UNCHANGED <<ports, at, left, found, steady>>

(* sleep(250ms) ends, the range is scanned again.                          *)
Rescan ==
  /\ doing = "sleeping"
  /\ doing' = "scanning"
  /\ at' = 0
  /\ steady' = Bridges
  /\ UNCHANGED <<ports, left, found>>

Tick ==
  /\ left > 0
  /\ left' = left - 1
  /\ UNCHANGED <<ports, at, doing, found, steady>>

(* Something starts or ends on a port.                                     *)
Change(p, k) ==
  /\ doing # "done"
  /\ ports' = [ports EXCEPT ![p] = k]
  /\ steady' = steady \cap {q \in Offsets : ports'[q] = "bridge"}
  /\ UNCHANGED <<at, doing, left, found>>

Connected == doing = "done" /\ UNCHANGED vars

Scanner == Accepted \/ Refused \/ ScanEnds \/ Rescan

Next ==
  \/ Scanner \/ Tick \/ Connected
  \/ \E p \in Offsets, k \in Kinds : Change(p, k)

Spec == Init /\ [][Next]_vars

(* The scan goes on, also over a port that changes all the time: what the  *)
(* attempt meets is the port at one moment, not for good.                  *)
FairSpec == Spec /\ SF_vars(Scanner) /\ WF_vars(Tick)

(* ... and no port stays silent: a handshake is refused or finished.       *)
Prompt == \A p \in Offsets : WF_vars(Change(p, "refusing") /\ ports[p] = "silent")

PromptSpec == FairSpec /\ Prompt

-----------------------------------------------------------------------------
TypeOK ==
  /\ ports \in [Offsets -> Kinds]
  /\ at \in 0..Scan
  /\ doing \in {"scanning", "sleeping", "done"}
  /\ left \in 0..Limit
  /\ found \in 0..Scan
  /\ steady \subseteq Offsets

(* NoBridge is never reported over a bridge that was there: a port that    *)
(* has been one since the last scan began would have been found by it.     *)
NoBridgeMissed == doing = "done" /\ found = Scan => steady = {}

(* ... and never before the deadline, nor without a scan.                  *)
NoBridgeLate == doing = "done" /\ found = Scan => left = 0

(* What makes NoBridgeMissed inductive: a scan has left behind no port that *)
(* was a bridge all the time.                                              *)
ScanComplete ==
  /\ steady \subseteq Bridges
  /\ doing = "scanning" => \A p \in steady : at <= p
  /\ doing = "sleeping" => steady = {}
  /\ doing # "done" => found = Scan

IInv == TypeOK /\ ScanComplete /\ NoBridgeMissed /\ NoBridgeLate

(* connect returns, if ports that take a connection finish the handshake   *)
(* or drop it.                                                             *)
ConnectReturns == <>(doing = "done")

(* Past the deadline connect begins one scan more at most: each port it    *)
(* tries and each change of what it does is one less to go.                *)
ToGo == CASE doing = "sleeping" -> Scan + 2
          [] doing = "scanning" -> Scan + 1 - at
          [] doing = "done"     -> 0

LastScan ==
  [][left = 0 => /\ ToGo' <= ToGo
                 /\ <<at, doing>>' # <<at, doing>> => ToGo' < ToGo]_vars

(* client.rs:3-4: "Port-scan connect: tries `base_port..base_port+port_    *)
(* scan` until the bridge accepts a connection, with a deadline." -- so it *)
(* ends, found or not.                                                     *)
HasDeadline == ConnectReturns
=============================================================================
