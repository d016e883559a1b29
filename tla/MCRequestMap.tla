---------------------------- MODULE MCRequestMap ----------------------------
(* RequestMap on requests of a few messages, for every pair of wires.      *)
EXTENDS RequestMap
=============================================================================
