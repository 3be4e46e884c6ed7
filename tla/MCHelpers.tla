------------------------------ MODULE MCHelpers ------------------------------
(* An instance of Helpers for TLC.                                         *)
EXTENDS Helpers
=============================================================================
