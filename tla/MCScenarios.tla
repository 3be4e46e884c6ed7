---------------------------- MODULE MCScenarios ----------------------------
(* Instances of Scenarios for TLC.                                         *)
EXTENDS Scenarios

MCPrompts == [isolation |-> 2, chat_real |-> 2, end_to_end |-> 1]
=============================================================================
