---------------------------- MODULE MCHttpThread ----------------------------
(* HttpThread with one slot and more requests than slots, so that tasks    *)
(* are deferred.  Requests are numbers because they serve as their ids.    *)
EXTENDS HttpThread
=============================================================================
