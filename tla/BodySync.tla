------------------------------ MODULE BodySync ------------------------------
(***************************************************************************)
(* How the bodies of blocks reach all nodes.  A header is sent to all      *)
(* peers; a node that has a header without the body asks its peers who has *)
(* the body (#got_full_block), asks the first that answers                 *)
(* (#have_full_block) for it (#ask_full_block) and is sent it              *)
(* (#full_block).  Refines Spread.                                         *)
(*                                                                         *)
(* Source: OHIE_with_TX_Pool/code: the handlers of process_buffer.cpp, the *)
(* bookkeeping in Blockchain.cpp, the polls of MyServer::run_network.      *)
(*                                                                         *)
(* Abstractions.  A peer is a peer in both directions                      *)
(* (add_indirect_peer_if_doesnt_exist); what one sends to another arrives  *)
(* in order, may be repeated by the connection, and the end of a           *)
(* connection loses a tail of it (module Link).                            *)
(* A header is linked when it arrives: ChainTree and HeaderSync are about  *)
(* those whose parent is missing.  A body is sent by a node that has       *)
(* verified it, so it passes the tests of its transactions, hash and       *)
(* Merkle proof again; what the receiver lacks may be the block it points  *)
(* to.  The clock is counted in polls.                                     *)
(***************************************************************************)
EXTENDS Integers, FiniteSets, Sequences, SequencesExt

CONSTANTS
    Node,
    Block,          \* hashes, numbered in the order of the map of non-full blocks
    Genesis,
    INTERVAL,       \* ASK_FOR_FULL_BLOCKS_INDIVIDUAL_EACH_MILLISECONDS, in polls
    MAX_WAIT,       \* MAX_WAIT_FOR_FULL_BLOCK_MILLSECONDS, in polls
    MAX_ASK_NON_FULL_IN_ONE_GO,
    Link,           \* who is a peer of whom
    Miners,         \* nodes that mine
    Window,         \* bound: a node polls when at most so many messages are on
                    \* the way between nodes
    MaxLosses,      \* bound: connections that end
    MaxRepeats      \* bound: messages that are sent twice

ASSUME BodySyncAssumption ==
    /\ Block \subseteq Nat /\ IsFiniteSet(Block) /\ Genesis \notin Block
    /\ {INTERVAL, MAX_WAIT, MAX_ASK_NON_FULL_IN_ONE_GO} \subseteq Nat \ {0}
    /\ Link \subseteq {l \in Node \X Node : l[1] # l[2]}
    /\ \A l \in Link : <<l[2], l[1]>> \in Link
    /\ Miners \subseteq Node /\ {Window, MaxLosses, MaxRepeats} \subseteq Nat

VARIABLES
    trailing,    \* block mined |-> block its body points to
    known,       \* known[n] : blocks in the trees of n
    full,        \* full[n] : those with is_full_block
    nonFull,     \* received_non_full_blocks of n: block |-> polls since asked
    waiting,     \* waiting_for_full_blocks of n: block |-> polls since asked
    channel,     \* channel[<<n, m>>] : messages on the way from n to m
    losses,      \* number of connections that have ended
    repeats,     \* number of messages that have been sent twice
    expired      \* history: <<n, b>> for which n has stopped waiting

vars == <<trailing, known, full, nonFull, waiting, channel, losses, repeats, expired>>

\* A message, and as history whether it exists only since a connection has sent
\* something twice: it is the second copy, or the answer to one.
Message == {"process_block", "ask_block", "got_full_block", "have_full_block",
            "ask_full_block", "full_block"} \X Block \X BOOLEAN
Msg(type, b) == <<type, b, FALSE>>

Empty == [b \in {} |-> 0]

Put(f, b, v) == [x \in DOMAIN f \cup {b} |-> IF x = b THEN v ELSE f[x]]
Drop(f, S) == [x \in DOMAIN f \ S |-> f[x]]

\* The channels after n has sent msgs, a sequence, to the nodes of to.
Sending(c, n, to, msgs) ==
    [l \in Link |-> IF l[1] = n /\ l[2] \in to THEN c[l] \o msgs ELSE c[l]]

\* The channels after m has taken the next message of n.
Taking(n, m) == [channel EXCEPT ![<<n, m>>] = Tail(@)]

Init ==
    /\ trailing = [b \in {} |-> Genesis]
    /\ known = [n \in Node |-> {Genesis}]
    /\ full = [n \in Node |-> {Genesis}]
    /\ nonFull = [n \in Node |-> Empty]
    /\ waiting = [n \in Node |-> Empty]
    /\ channel = [l \in Link |-> <<>>]
    /\ losses = 0 /\ repeats = 0
    /\ expired = {}

\* Mutant: the new block is full before it is linked.
MineUnlinked(n, b) ==
    /\ b \notin DOMAIN trailing
    /\ \E t \in known[n] : trailing' = Put(trailing, b, t)
    /\ full' = [full EXCEPT ![n] = @ \cup {b}]
    /\ channel' = Sending(channel, n, Node, <<Msg("process_block", b)>>)
    /\ UNCHANGED <<known, nonFull, waiting, losses, repeats, expired>>

\* mine_new_block: the trailing block is one of the blocks known, the new block
\* is full and its header goes to all peers.
Mine(n, b) ==
    /\ b \notin DOMAIN trailing
    /\ \E t \in known[n] : trailing' = Put(trailing, b, t)
    /\ known' = [known EXCEPT ![n] = @ \cup {b}]
    /\ full' = [full EXCEPT ![n] = @ \cup {b}]
    /\ channel' = Sending(channel, n, Node, <<Msg("process_block", b)>>)
    /\ UNCHANGED <<nonFull, waiting, losses, repeats, expired>>

-----------------------------------------------------------------------------
(***************************************************************************)
(* The handlers of node m, for the next message of node n.                 *)
(***************************************************************************)

IsNext(n, m, type, b) ==
    /\ channel[<<n, m>>] # <<>>
    /\ Head(channel[<<n, m>>])[1] = type /\ Head(channel[<<n, m>>])[2] = b

\* A handler that does nothing but answer with msgs.
Answer(n, m, msgs) ==
    /\ channel' = Sending(Taking(n, m), m, {n}, msgs)
    /\ UNCHANGED <<trailing, known, full, nonFull, waiting, losses, repeats, expired>>

\* Mutant: a block that comes to be known is not entered in the map.
ReceiveHeaderUnlisted(n, m, b) ==
    /\ IsNext(n, m, "process_block", b)
    /\ channel' = Sending(Taking(n, m), m, Node, <<Msg("process_block", b)>>)
    /\ known' = [known EXCEPT ![m] = @ \cup {b}]
    /\ UNCHANGED <<trailing, full, nonFull, waiting, losses, repeats, expired>>

\* #process_block: a header that is new is passed on and its body is wanted.
ReceiveHeader(n, m, b) ==
    /\ IsNext(n, m, "process_block", b)
    /\ IF b \in known[m]
       THEN channel' = Taking(n, m) /\ UNCHANGED <<known, nonFull>>
       ELSE /\ channel' = Sending(Taking(n, m), m, Node, <<Msg("process_block", b)>>)
            /\ known' = [known EXCEPT ![m] = @ \cup {b}]
            /\ nonFull' = [nonFull EXCEPT ![m] = Put(@, b, INTERVAL)]
    /\ UNCHANGED <<trailing, full, waiting, losses, repeats, expired>>

\* #ask_block
ReceiveAskHeader(n, m, b) ==
    /\ IsNext(n, m, "ask_block", b)
    /\ Answer(n, m, IF b \in known[m] THEN <<Msg("process_block", b)>> ELSE <<>>)

\* #got_full_block
ReceiveGot(n, m, b) ==
    /\ IsNext(n, m, "got_full_block", b)
    /\ Answer(n, m, IF b \in full[m] THEN <<Msg("have_full_block", b)>> ELSE <<>>)

\* Mutant: every peer that has the body is asked for it.
ReceiveHaveAll(n, m, b) ==
    /\ IsNext(n, m, "have_full_block", b)
    /\ IF b \in full[m]
       THEN channel' = Taking(n, m) /\ UNCHANGED waiting
       ELSE /\ channel' = Sending(Taking(n, m), m, {n}, <<Msg("ask_full_block", b)>>)
            /\ waiting' = [waiting EXCEPT ![m] = Put(@, b, 1)]
    /\ UNCHANGED <<trailing, known, full, nonFull, losses, repeats, expired>>

\* #have_full_block: the first peer that has the body is asked for it
\* (still_waiting_for_full_block).
ReceiveHave(n, m, b) ==
    /\ IsNext(n, m, "have_full_block", b)
    /\ IF b \in full[m] \cup DOMAIN waiting[m]
       THEN channel' = Taking(n, m) /\ UNCHANGED waiting
       ELSE /\ channel' = Sending(Taking(n, m), m, {n}, <<Msg("ask_full_block", b)>>)
            /\ waiting' = [waiting EXCEPT ![m] = Put(@, b, 1)]
    /\ UNCHANGED <<trailing, known, full, nonFull, losses, repeats, expired>>

\* #ask_full_block
ReceiveAsk(n, m, b) ==
    /\ IsNext(n, m, "ask_full_block", b)
    /\ Answer(n, m, IF b \in full[m]
                    THEN <<<<"full_block", b, Head(channel[<<n, m>>])[3]>>>>
                    ELSE <<>>)

\* Mutant: the block the body points to is not looked for.
ReceiveBodyUnchecked(n, m, b) ==
    /\ IsNext(n, m, "full_block", b)
    /\ channel' = Taking(n, m)
    /\ full' = [full EXCEPT ![m] = @ \cup {b}]
    /\ nonFull' = [nonFull EXCEPT ![m] = Drop(@, {b})]
    /\ waiting' = [waiting EXCEPT ![m] = Drop(@, {b})]
    /\ UNCHANGED <<trailing, known, losses, repeats, expired>>

\* #full_block: a body that is there already is dropped, one that points to an
\* unknown block too, and all peers are asked for that block; else the block is
\* full (set_block_full).
ReceiveBody(n, m, b) ==
    /\ IsNext(n, m, "full_block", b)
    /\ CASE b \in full[m] \/ b \notin known[m] ->
              channel' = Taking(n, m) /\ UNCHANGED <<full, nonFull, waiting>>
         [] b \in known[m] \ full[m] /\ trailing[b] \notin known[m] ->
              /\ channel' = Sending(Taking(n, m), m, Node,
                                    <<Msg("ask_block", trailing[b])>>)
              /\ UNCHANGED <<full, nonFull, waiting>>
         [] OTHER ->
              /\ channel' = Taking(n, m)
              /\ full' = [full EXCEPT ![m] = @ \cup {b}]
              /\ nonFull' = [nonFull EXCEPT ![m] = Drop(@, {b})]
              /\ waiting' = [waiting EXCEPT ![m] = Drop(@, {b})]
    /\ UNCHANGED <<trailing, known, losses, repeats, expired>>

-----------------------------------------------------------------------------

\* get_non_full_blocks: the entries that are due, in the order of the map, until
\* MAX_ASK_NON_FULL_IN_ONE_GO blocks are to be asked for.
Visited(n) ==
    LET due == {b \in DOMAIN nonFull[n] : nonFull[n][b] >= INTERVAL}
    IN  {b \in due : Cardinality({c \in due \ full[n] : c < b})
                       < MAX_ASK_NON_FULL_IN_ONE_GO}

\* S in the order of the map: at place i is the block with i - 1 before it.
InOrder(S) ==
    [i \in 1 .. Cardinality(S) |->
       CHOOSE b \in S : Cardinality({c \in S : c < b}) = i - 1]

\* A poll asks all peers who has the body of each of the blocks wanted.
WhoHas(wanted) ==
    [i \in 1 .. Cardinality(wanted) |-> Msg("got_full_block", InOrder(wanted)[i])]

Traffic == MapThenSumSet(LAMBDA l : Len(channel[l]), Link)

\* Mutant: requests for a body are never given up.
PollPatient(n) ==
    LET visited == Visited(n)
        wanted == visited \ full[n]
    IN  /\ Traffic <= Window
        /\ nonFull' = [nonFull EXCEPT ![n] =
                         [b \in DOMAIN @ \ (visited \cap full[n]) |->
                            IF b \in visited THEN 1
                            ELSE IF @[b] < INTERVAL THEN @[b] + 1 ELSE @[b]]]
        /\ channel' = Sending(channel, n, Node, WhoHas(wanted))
        /\ UNCHANGED <<trailing, known, full, waiting, losses, repeats, expired>>

\* A poll of run_network: get_non_full_blocks, whose result is asked for from all
\* peers, and remove_waiting_blocks.  After it the ages are those of the next poll.
Poll(n) ==
    LET visited == Visited(n)
        wanted == visited \ full[n]
        late == {b \in DOMAIN waiting[n] : waiting[n][b] > MAX_WAIT}
    IN  /\ Traffic <= Window
        /\ nonFull' = [nonFull EXCEPT ![n] =
                         [b \in DOMAIN @ \ (visited \cap full[n]) |->
                            IF b \in visited THEN 1
                            ELSE IF @[b] < INTERVAL THEN @[b] + 1 ELSE @[b]]]
        /\ channel' = Sending(channel, n, Node, WhoHas(wanted))
        /\ waiting' = [waiting EXCEPT ![n] =
                         [b \in DOMAIN @ \ late |-> @[b] + 1]]
        /\ expired' = expired \cup ({n} \X late)
        /\ UNCHANGED <<trailing, known, full, losses, repeats>>

\* The network: a connection ends and a tail of what it carries is lost.
Lose(l) ==
    /\ losses < MaxLosses
    /\ losses' = losses + 1
    /\ \E k \in 0 .. Len(channel[l]) - 1 :
         channel' = [channel EXCEPT ![l] = SubSeq(@, 1, k)]
    /\ UNCHANGED <<trailing, known, full, nonFull, waiting, repeats, expired>>

\* The network: the message sent last is sent again.
Repeat(l) ==
    /\ repeats < MaxRepeats
    /\ repeats' = repeats + 1
    /\ channel[l] # <<>>
    /\ LET x == Last(channel[l])
       IN  channel' = Sending(channel, l[1], {l[2]}, <<<<x[1], x[2], TRUE>>>>)
    /\ UNCHANGED <<trailing, known, full, nonFull, waiting, losses, expired>>

Receive(n, m) ==
    \E b \in Block :
      \/ ReceiveHeader(n, m, b) \/ ReceiveAskHeader(n, m, b)
      \/ ReceiveGot(n, m, b) \/ ReceiveHave(n, m, b)
      \/ ReceiveAsk(n, m, b) \/ ReceiveBody(n, m, b)

Next ==
    \/ \E n \in Miners, b \in Block : Mine(n, b)
    \/ \E l \in Link : Receive(l[1], l[2])
    \/ \E n \in Node : Poll(n)
    \/ \E l \in Link : Lose(l) \/ Repeat(l)

Spec == Init /\ [][Next]_vars

\* What arrives is handled and the timer of run_network is set again at the end
\* of each run; strong fairness, since only the bound Window ever holds it back.
FairSpec ==
    /\ Spec
    /\ \A l \in Link : WF_vars(Receive(l[1], l[2]))
    /\ \A n \in Node : SF_vars(Poll(n))

-----------------------------------------------------------------------------
(***************************************************************************)
(* Properties.                                                             *)
(***************************************************************************)

TypeOK ==
    /\ DOMAIN trailing \subseteq Block
    /\ \A b \in DOMAIN trailing : trailing[b] \in DOMAIN trailing \cup {Genesis}
    /\ \A n \in Node :
         /\ full[n] \subseteq known[n] /\ known[n] \subseteq Block \cup {Genesis}
         /\ nonFull[n] \in [DOMAIN nonFull[n] -> 1 .. INTERVAL]
         /\ waiting[n] \in [DOMAIN waiting[n] -> 1 .. MAX_WAIT + 1]
    /\ \A l \in Link : channel[l] \in Seq(Message)
    /\ losses \in 0 .. MaxLosses /\ repeats \in 0 .. MaxRepeats

\* No body is forgotten: exactly the bodies a node lacks are in its map of blocks
\* to poll for, and it waits for no others.
Chased ==
    \A n \in Node : /\ DOMAIN nonFull[n] = known[n] \ full[n]
                    /\ DOMAIN waiting[n] \subseteq known[n] \ full[n]

\* The requests of n for the body of b on their way to a peer, and the answers on
\* their way back, as pairs of a channel and a place in it.  Those that a second
\* copy has brought about are not counted.
Underway(n, b) ==
    UNION {{l} \X {i \in DOMAIN channel[l] :
                     \/ l[1] = n /\ channel[l][i] = Msg("ask_full_block", b)
                     \/ l[2] = n /\ channel[l][i] = Msg("full_block", b)} : l \in Link}

\* A node does not have a body sent to it twice: while it has not stopped waiting
\* for it, one request for it is on its way to a peer, or one answer back.  All
\* others stem from a request or an answer that the connection has sent twice; to
\* be told twice who has the body brings no second request.
OneBody ==
    \A n \in Node, b \in Block :
       <<n, b>> \notin expired => Cardinality(Underway(n, b)) <= 1

\* All blocks can be asked for before the first is due again: with more of them the
\* map is never worked through to its end.
AllCanBeAsked == Cardinality(Block) <= INTERVAL * MAX_ASK_NON_FULL_IN_ONE_GO

\* Every body a node wants reaches it, if the blocks are few enough: again and
\* again no node lacks the body of a block it knows.
Obtained == AllCanBeAsked => []<>(\A n \in Node : known[n] \subseteq full[n])

\* The exchange spreads blocks.
Abstract == INSTANCE Spread
Spreads == Abstract!Spec
=============================================================================
