--------------------------- MODULE MCBridgeConnect ---------------------------
(* Instances of BridgeConnect for TLC.                                     *)
EXTENDS BridgeConnect
=============================================================================
