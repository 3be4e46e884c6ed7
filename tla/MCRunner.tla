------------------------------ MODULE MCRunner ------------------------------
(* Instances of Runner, and of the Tape it runs, for TLC.                  *)
EXTENDS Runner
=============================================================================
