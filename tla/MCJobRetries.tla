---------------------------- MODULE MCJobRetries ----------------------------
(***************************************************************************)
(* Instances of JobRetries for TLC: those of MCPrepareVg.                  *)
(***************************************************************************)
EXTENDS JobRetries, MCPrepareVg
=============================================================================
