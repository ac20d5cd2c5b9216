--------------------------- MODULE MCEngineServe ---------------------------
(* EngineServe on a small instance: requests before and behind a shutdown, *)
(* with failures in between.                                               *)
EXTENDS EngineServe
============================================================================
