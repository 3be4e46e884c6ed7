----------------------------- MODULE MCSshConfig -----------------------------
(* Instances of SshConfig for TLC.                                         *)
EXTENDS SshConfig
=============================================================================
