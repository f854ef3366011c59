------------------------------- MODULE MCPipe -------------------------------
(* Instances of FramePipe for TLC. *)
EXTENDS FramePipe
=============================================================================
