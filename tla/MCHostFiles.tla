---------------------------- MODULE MCHostFiles ----------------------------
(* HostFiles on a small instance: enough requests to open, close, reopen   *)
(* the same slot and use an outdated id.                                   *)
EXTENDS HostFiles
============================================================================
