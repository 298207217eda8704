---------------------------- MODULE MCProcSched ----------------------------
(* Instances of ProcSched for TLC. *)
EXTENDS ProcSched
=============================================================================
