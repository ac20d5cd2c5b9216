---------------------------- MODULE MCConnecting ----------------------------
(* Two connects of one loop, and two names that share a cache of one entry. *)
EXTENDS Connecting

CONSTANTS l1, c1, c2, r1, r2, h1, h2
=============================================================================
