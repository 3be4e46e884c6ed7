------------------------------ MODULE MCProbes ------------------------------
(* Instances of Probes for TLC.                                            *)
EXTENDS Probes
=============================================================================
