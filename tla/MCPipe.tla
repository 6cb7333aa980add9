------------------------------- MODULE MCPipe --------------------------------
(* Both relays with an idle timeout of a few ticks. *)
EXTENDS Pipe
=============================================================================
