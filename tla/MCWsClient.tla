----------------------------- MODULE MCWsClient -----------------------------
(* Instances of WsClient for TLC: three sockets are enough for one that is  *)
(* in use, one that was replaced and one whose session the relay still has. *)
EXTENDS WsClient

(* Two faults, or one and something the user does: enough for a socket that *)
(* is replaced while another is forgotten.                                  *)
Bounded == faults + nudges <= 2
=============================================================================
