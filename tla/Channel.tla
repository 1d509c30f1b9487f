------------------------------ MODULE Channel ------------------------------
(***************************************************************************)
(* What a connection between two nodes promises.  Every session carries    *)
(* messages in the order they were sent.  A message may be repeated, a     *)
(* session that breaks loses what has not arrived, and the receiver may    *)
(* leave out a message that it takes for a repetition: one whose key it    *)
(* has met since it last read from the session.                            *)
(***************************************************************************)
EXTENDS Integers, Sequences

CONSTANTS
    Session,     \* connections made one after the other
    Message,     \* messages, numbered in the order they are sent
    Key(_)       \* what the receiver tells messages apart by

VARIABLES
    transit,     \* transit[s] : messages sent on s and not yet received
    last,        \* last[s] : the latest message sent on s, or 0
    broken,      \* sessions that have ended
    met,         \* met[s] : keys of the messages received since the last read
    received     \* all messages received, in order

vars == <<transit, last, broken, met, received>>

Init ==
    /\ transit = [s \in Session |-> <<>>]
    /\ last = [s \in Session |-> 0]
    /\ broken = {}
    /\ met = [s \in Session |-> {}]
    /\ received = <<>>

Send(s) ==
    /\ s \notin broken
    /\ \E n \in Message :
         /\ n >= last[s]
         /\ transit' = [transit EXCEPT ![s] = Append(@, n)]
         /\ last' = [last EXCEPT ![s] = n]
    /\ UNCHANGED <<broken, met, received>>

\* The session ends and its tail is lost.
Break(s) ==
    /\ s \notin broken
    /\ broken' = broken \cup {s}
    /\ \E k \in 0 .. Len(transit[s]) :
         transit' = [transit EXCEPT ![s] = SubSeq(@, 1, k)]
    /\ UNCHANGED <<last, met, received>>

Receive(s) ==
    /\ transit[s] # <<>>
    /\ Key(Head(transit[s])) \notin met[s]
    /\ met' = [met EXCEPT ![s] = @ \cup {Key(Head(transit[s]))}]
    /\ received' = Append(received, Head(transit[s]))
    /\ transit' = [transit EXCEPT ![s] = Tail(@)]
    /\ UNCHANGED <<last, broken>>

\* Only a message that others follow is left out; after the end of the session
\* the one that follows may be lost.
Omit(s) ==
    /\ transit[s] # <<>>
    /\ Len(transit[s]) > 1 \/ s \in broken
    /\ Key(Head(transit[s])) \in met[s]
    /\ transit' = [transit EXCEPT ![s] = Tail(@)]
    /\ UNCHANGED <<last, broken, met, received>>

Forget(s) ==
    /\ met' = [met EXCEPT ![s] = {}]
    /\ UNCHANGED <<transit, last, broken, received>>

Next == \E s \in Session : Send(s) \/ Break(s) \/ Receive(s) \/ Omit(s) \/ Forget(s)

Spec == Init /\ [][Next]_vars
=============================================================================
