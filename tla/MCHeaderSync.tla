---------------------------- MODULE MCHeaderSync ----------------------------
(* An instance of HeaderSync for TLC. *)
EXTENDS HeaderSync
=============================================================================
