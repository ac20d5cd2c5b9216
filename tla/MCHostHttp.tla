----------------------------- MODULE MCHostHttp -----------------------------
(* HostHttp on a small instance: two failures make a lost chunk and a lost *)
(* report of it possible.                                                  *)
EXTENDS HostHttp
=============================================================================
