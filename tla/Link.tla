-------------------------------- MODULE Link --------------------------------
(***************************************************************************)
(* The traffic from one node to one of its peers: the write queue, the     *)
(* connection that is made, breaks and is made again, and the buffer from  *)
(* which the peer cuts its messages.  Refines Channel.                     *)
(*                                                                         *)
(* Source: MyServer.cpp (run_network, write_*, strand_*, handle_write,     *)
(* start), process_buffer.cpp (the loop around the handlers), requests.cpp *)
(* (the keys of the parse functions).                                      *)
(*                                                                         *)
(* Abstractions.  A message is its number in Script; on the wire it is two *)
(* tokens, the part up to and the part after the place where a read may    *)
(* cut it, of which the first begins with '#' and the second ends in '!'.  *)
(* async_write puts the whole message on the wire, Break takes the tail    *)
(* away.  A completion takes effect when its handler runs.  session and    *)
(* _strand of the peer are NULL exactly when link is "down".  A string     *)
(* that leaves _m while it is being written is sent all the same.          *)
(***************************************************************************)
EXTENDS Integers, FiniteSets, Sequences, SequencesExt, TLC

CONSTANTS
    Script,        \* the messages the node sends to this peer
    MaxSessions    \* bound: connections made

ASSUME LinkAssumption ==
    /\ Script \in Seq(ToSet(Script))
    /\ MaxSessions \in Nat \ {0}

VARIABLES
    sent,       \* messages handed to write_to_one_peer so far
    link,       \* "down", "connecting" or "up"
    session,    \* number of the latest connection, 0 before the first
    posted,     \* functions posted to the strand: a message number for
                \* strand_write, 0 for strand_proceed
    queue,      \* _m
    writing,    \* async_write calls not completed: <<message, session>>
    wire,       \* wire[s] : tokens between the two sockets of session s
    broken,     \* sessions that carry nothing more
    buffer,     \* buffer[s] : full_buffer of the peer's end of s, as tokens
    passed,     \* passed[s] : keys met in the latest call of process_buffer
    reading,    \* the session in process_buffer, or 0
    last,       \* history: last[s] is the latest message written to s
    handled     \* history: the messages handled, in order

vars == <<sent, link, session, posted, queue, writing, wire, broken, buffer,
          passed, reading, last, handled>>

writer == <<sent, link, session, posted, queue, writing, broken, last>>
reader == <<buffer, passed, reading, handled>>

Session == 1 .. MaxSessions
Proceed == 0

Begin(n) == <<n, "#">>
End(n) == <<n, "!">>

\* The fields that the key of each type of message is made of, besides the type
\* and the sender: for the messages about trees and bodies ...
SyncKeys ==
    [ask_block |-> {"chain", "hash"},
     process_block |-> {"chain", "parent", "hash"},
     got_full_block |-> {"chain", "hash"},
     have_full_block |-> {"chain", "hash"},
     ask_full_block |-> {"chain", "hash"},
     full_block |-> {"chain", "hash"},
     ping |-> {}]

\* ... and for those of the rounds.
RoundKeys ==
    [mining_succeed |-> {"certificate", "random"},
     consensus_block |-> {"round", "order", "txs"},
     have_consensus_block |-> {"order", "received"},
     verified_1 |-> {"chain", "parent", "hash"},
     answer_verified_1 |-> {"hash"},
     transaction |-> {"tx"}]

Key(n) ==
    LET m == Script[n]
        fields == (SyncKeys @@ RoundKeys)[m.type]
    IN  [f \in fields \cup {"type"} |-> m[f]]

Init ==
    /\ sent = 0 /\ link = "down" /\ session = 0
    /\ posted = <<>> /\ queue = <<>> /\ writing = <<>>
    /\ wire = [s \in Session |-> <<>>]
    /\ broken = {}
    /\ buffer = [s \in Session |-> <<>>]
    /\ passed = [s \in Session |-> {}]
    /\ reading = 0
    /\ last = [s \in Session |-> 0]
    /\ handled = <<>>

-----------------------------------------------------------------------------
(***************************************************************************)
(* The sending node.                                                       *)
(***************************************************************************)

\* write_to_one_peer, from any thread: without a strand the message is dropped.
Post ==
    /\ sent < Len(Script)
    /\ sent' = sent + 1
    /\ posted' = IF link = "down" THEN posted ELSE Append(posted, sent')
    /\ UNCHANGED <<link, session, queue, writing, wire, broken, last>>
    /\ UNCHANGED reader

\* write: the head of q is written, or, without a connection, q is emptied by
\* write and handle_write calling each other.
Write(q, pending) ==
    IF link = "up"
    THEN /\ queue' = q
         /\ writing' = Append(pending, <<Head(q), session>>)
         /\ IF session \in broken THEN UNCHANGED <<wire, last>>
            ELSE /\ wire' = [wire EXCEPT ![session] =
                               @ \o <<Begin(Head(q)), End(Head(q))>>]
                 /\ last' = [last EXCEPT ![session] = Head(q)]
    ELSE queue' = <<>> /\ writing' = pending /\ UNCHANGED <<wire, last>>

\* Mutant: the message at the back is written even if others wait before it.
StrandWriteAtOnce(n) ==
    LET q == Append(queue, n)
    IN  IF Len(q) > 1
        THEN Write(<<n>> \o queue, writing)
        ELSE Write(q, writing)

\* strand_write: the message waits for those before it.
StrandWrite(n) ==
    LET q == Append(queue, n)
    IN  IF Len(q) > 1
        THEN queue' = q /\ UNCHANGED <<writing, wire, last>>
        ELSE Write(q, writing)

\* strand_proceed: what a closed connection has left behind is written.
StrandProceed ==
    IF queue # <<>> THEN Write(queue, writing)
                    ELSE UNCHANGED <<queue, writing, wire, last>>

\* Mutant: strand_proceed is taken for a message.
RunPostedBlind ==
    /\ posted # <<>>
    /\ posted' = Tail(posted)
    /\ StrandWrite(Head(posted))
    /\ UNCHANGED <<sent, link, session, broken>>
    /\ UNCHANGED reader

\* A function posted to the strand runs.
RunPosted ==
    /\ posted # <<>>
    /\ posted' = Tail(posted)
    /\ IF Head(posted) = Proceed THEN StrandProceed
                                 ELSE StrandWrite(Head(posted))
    /\ UNCHANGED <<sent, link, session, broken>>
    /\ UNCHANGED reader

\* Mutant: the end of a write does not start the next one.
HandleWriteStops(ok) ==
    /\ writing # <<>>
    /\ LET s == writing[1][2]
       IN  /\ ok \/ s \in broken \/ s # session \/ link # "up"
           /\ queue' = IF queue = <<>> THEN <<>> ELSE Tail(queue)
           /\ writing' = Tail(writing)
           /\ link' = IF queue # <<>> /\ ~ok THEN "down" ELSE link
    /\ UNCHANGED <<sent, session, posted, wire, broken, last>>
    /\ UNCHANGED reader

\* handle_write, ok unless it reports an error.  The head of the queue leaves it,
\* whether it is the message whose write has ended or not.
HandleWrite(ok) ==
    /\ writing # <<>>
    /\ LET s == writing[1][2]
           rest == Tail(writing)
       IN  /\ ok \/ s \in broken \/ s # session \/ link # "up"
           /\ CASE queue = <<>> ->
                     writing' = rest /\ UNCHANGED <<link, queue, wire, last>>
                [] queue # <<>> /\ ~ok ->
                     /\ queue' = Tail(queue) /\ writing' = rest
                     /\ link' = "down"
                     /\ UNCHANGED <<wire, last>>
                [] Len(queue) = 1 /\ ok ->
                     /\ queue' = <<>> /\ writing' = rest
                     /\ UNCHANGED <<link, wire, last>>
                [] OTHER -> Write(Tail(queue), rest) /\ UNCHANGED link
    /\ UNCHANGED <<sent, session, posted, broken>>
    /\ UNCHANGED reader

\* run_network makes a new connection.  If the one before is still being made it
\* is cancelled, and its handler closes the new one.  Polls for connections are
\* seconds apart: a strand_proceed is not left over from one to the next.
Connect ==
    /\ \/ link = "down" /\ session < MaxSessions
          /\ Proceed \notin ToSet(posted)
          /\ link' = "connecting" /\ session' = session + 1
       \/ link = "connecting"
          /\ link' = "down" /\ UNCHANGED session
    /\ UNCHANGED <<sent, posted, queue, writing, wire, broken, last>>
    /\ UNCHANGED reader

\* Mutant: a new connection does not proceed with the old queue.
ConnectedForgets ==
    /\ link = "connecting"
    /\ writing = <<>>
    /\ link' = "up"
    /\ UNCHANGED <<sent, session, posted, queue, writing, wire, broken, last>>
    /\ UNCHANGED reader

\* The handler of async_connect, without and with an error.  Writes of the last
\* connection were cancelled when it was closed: their handlers have run.
Connected ==
    /\ link = "connecting"
    /\ writing = <<>>
    /\ link' = "up" /\ posted' = Append(posted, Proceed)
    /\ UNCHANGED <<sent, session, queue, writing, wire, broken, last>>
    /\ UNCHANGED reader

NotConnected ==
    /\ link = "connecting"
    /\ link' = "down"
    /\ UNCHANGED <<sent, session, posted, queue, writing, wire, broken, last>>
    /\ UNCHANGED reader

\* The network: session s ends, and with it what is on its way.
Break(s) ==
    /\ s <= session /\ s \notin broken
    /\ s = session => link # "connecting"
    /\ broken' = broken \cup {s}
    /\ \E k \in 0 .. Len(wire[s]) :
         wire' = [wire EXCEPT ![s] = SubSeq(@, 1, k)]
    /\ UNCHANGED <<sent, link, session, posted, queue, writing, last>>
    /\ UNCHANGED reader

-----------------------------------------------------------------------------
(***************************************************************************)
(* The peer.                                                               *)
(***************************************************************************)

\* A read of k tokens of s and the start of process_buffer: a buffer that does
\* not begin with '#' is thrown away.
Read(s) ==
    /\ reading = 0
    /\ \E k \in 1 .. Len(wire[s]) :
         LET b == buffer[s] \o SubSeq(wire[s], 1, k)
             good == Head(b)[2] = "#"
         IN  /\ wire' = [wire EXCEPT ![s] = SubSeq(@, k + 1, Len(@))]
             /\ buffer' = [buffer EXCEPT ![s] = IF good THEN b ELSE <<>>]
             /\ reading' = IF good THEN s ELSE 0
    /\ passed' = [passed EXCEPT ![s] = {}]
    /\ UNCHANGED <<writer, handled>>

\* Mutant: a message whose end has not come yet is thrown away.
HandleNextCuts ==
    /\ reading # 0
    /\ LET b == buffer[reading]
       IN  IF Len(b) < 2
           THEN /\ reading' = 0 /\ buffer' = [buffer EXCEPT ![reading] = <<>>]
                /\ UNCHANGED <<passed, handled>>
           ELSE /\ buffer' = [buffer EXCEPT ![reading] = SubSeq(b, 3, Len(b))]
                /\ passed' = [passed EXCEPT ![reading] = @ \cup {Key(b[1][1])}]
                /\ handled' = Append(handled, b[1][1])
                /\ UNCHANGED reading
    /\ UNCHANGED <<writer, wire>>

\* Mutant: the last message is thrown away when its key has been met.
HandleNextDrops ==
    /\ reading # 0
    /\ LET b == buffer[reading]
           n == b[1][1]
           cut == [buffer EXCEPT ![reading] = SubSeq(b, 3, Len(b))]
       IN  IF Len(b) < 2
           THEN reading' = 0 /\ UNCHANGED <<buffer, passed, handled>>
           ELSE IF Key(n) \in passed[reading]
           THEN buffer' = cut /\ UNCHANGED <<reading, passed, handled>>
           ELSE /\ buffer' = cut
                /\ passed' = [passed EXCEPT ![reading] = @ \cup {Key(n)}]
                /\ handled' = Append(handled, n)
                /\ UNCHANGED reading
    /\ UNCHANGED <<writer, wire>>

\* One turn of the loop over the buffer: the next message is handled; a message
\* whose key has been met is passed over, or, as the last one, kept; a message
\* without its end is kept.  What is kept waits for the next read.
HandleNext ==
    /\ reading # 0
    /\ LET b == buffer[reading]
           n == b[1][1]
           known == Key(n) \in passed[reading]
           cut == [buffer EXCEPT ![reading] = SubSeq(b, 3, Len(b))]
       IN  IF Len(b) < 2 \/ (known /\ Len(b) = 2)
           THEN reading' = 0 /\ UNCHANGED <<buffer, passed, handled>>
           ELSE IF known
           THEN buffer' = cut /\ UNCHANGED <<reading, passed, handled>>
           ELSE /\ buffer' = cut
                /\ passed' = [passed EXCEPT ![reading] = @ \cup {Key(n)}]
                /\ handled' = Append(handled, n)
                /\ UNCHANGED reading
    /\ UNCHANGED <<writer, wire>>

Next ==
    \/ Post \/ RunPosted
    \/ \E ok \in BOOLEAN : HandleWrite(ok)
    \/ Connect \/ Connected \/ NotConnected
    \/ \E s \in Session : Break(s) \/ Read(s)
    \/ HandleNext

Spec == Init /\ [][Next]_vars

\* Every handler that is ready runs: io_service.run never returns.
FairSpec ==
    /\ Spec
    /\ WF_vars(RunPosted) /\ WF_vars(\E ok \in BOOLEAN : HandleWrite(ok))
    /\ \A s \in Session : WF_vars(Read(s))
    /\ WF_vars(HandleNext)

-----------------------------------------------------------------------------
(***************************************************************************)
(* Properties.                                                             *)
(***************************************************************************)

Sent == 1 .. sent
Token == {Begin(n) : n \in Sent} \cup {End(n) : n \in Sent}

TypeOK ==
    /\ sent \in 0 .. Len(Script)
    /\ link \in {"down", "connecting", "up"}
    /\ session \in 0 .. MaxSessions
    /\ posted \in Seq(Sent \cup {Proceed}) /\ queue \in Seq(Sent)
    /\ writing \in Seq(Sent \X Session)
    /\ broken \subseteq Session
    /\ reading \in {0} \cup Session
    /\ \A s \in Session : wire[s] \in Seq(Token) /\ buffer[s] \in Seq(Token)
    /\ handled \in Seq(Sent)

\* A buffer always begins at a message, whatever was cut or kept: the branch of
\* process_buffer that throws the whole buffer away is never taken, and the
\* stream behind a kept message stays readable.
Aligned ==
    \A s \in Session :
      LET stream == buffer[s] \o wire[s]
      IN  \A i \in 1 .. Len(stream) :
             stream[i][2] = IF i % 2 = 1 THEN "#" ELSE "!"

\* While a connection is up, a queue that is not empty has a write in progress or
\* a strand_proceed before it: nothing else would ever start one again.
QueueMoves ==
    link = "up" /\ queue # <<>> =>
       \/ \E i \in DOMAIN writing : writing[i] = <<Head(queue), session>>
       \/ Proceed \in ToSet(posted)

\* At most two writes are in progress on a connection, of which one is started
\* by strand_proceed for a message that strand_write has started already.
TwoWrites ==
    Cardinality({i \in DOMAIN writing : writing[i][2] = session}) <= 2

\* A message that waits on a connection is handled by the peer, or one with its
\* key is, unless the connection ends.
Arrives ==
    \A n \in DOMAIN Script :
       (link = "up" /\ n \in ToSet(queue))
          ~> \/ \E m \in ToSet(handled) : Key(m) = Key(n)
             \/ link # "up" \/ session \in broken

\* The link is a channel: of the tokens on their way every second ends a message.
Complete(tokens) == [i \in 1 .. Len(tokens) \div 2 |-> tokens[2 * i][1]]
Abstract == INSTANCE Channel WITH
    Message <- DOMAIN Script,
    transit <- [s \in Session |-> Complete(buffer[s] \o wire[s])],
    met <- passed,
    received <- handled
IsChannel == Abstract!Spec
=============================================================================
