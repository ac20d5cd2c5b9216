--------------------------- MODULE MCSocketGroups ---------------------------
(* Sockets of two groups for TLC. *)
EXTENDS SocketGroups

CONSTANTS s1, s2, s3, s4, g1, g2

(* Two TLS sockets, both parked, whose timeouts expire together, one of them   *)
(* on both wheels; a TLS and a plain socket are left to be opened.            *)
TwoAccepted ==
    << [s |-> s1, g |-> g1, timeout |-> 1, long |-> 1,   parked |-> TRUE],
       [s |-> s2, g |-> g1, timeout |-> 1, long |-> Lap, parked |-> TRUE] >>

(* Three handshakes over the budget of their loop iteration. *)
ThreeParked ==
    [ i \in 1..3 |-> [s |-> <<s1, s2, s3>>[i], g |-> g1, timeout |-> Lap, long |-> Lap,
                      parked |-> TRUE] ]
=============================================================================
