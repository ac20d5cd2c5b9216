-------------------------- MODULE MCCommandChannel --------------------------
(* CommandChannel on a small instance.  Two commands per poll, so that a    *)
(* poll may drain a backlog and may be cut off by one of three.            *)
EXTENDS CommandChannel
=============================================================================
