------------------------------- MODULE MCLink -------------------------------
(* An instance of Link for TLC: two pings, which share a key, around a vote. *)
EXTENDS Link

Ping(i) == [type |-> "ping", tt |-> i]
Vote(h, v) == [type |-> "answer_verified_1", hash |-> h, votes |-> v]
ThreeMessages == <<Ping(1), Vote("h", 1), Ping(2)>>
=============================================================================
