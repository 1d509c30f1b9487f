---------------------------- MODULE SnowballRound ----------------------------
(***************************************************************************)
(* The rounds of Snowball between nodes.  Miners announce that they have   *)
(* solved their puzzle; CONCURRENCY_BLOCKS announcements make a group and  *)
(* start the round; the leader hands out the blocks of the round (phase    *)
(* REQUEST); the owner of a block asks the members for their votes (phase  *)
(* VALIDATE); a block with enough votes is full and spreads; a node whose  *)
(* blocks are all full ends the round.                                     *)
(*                                                                         *)
(* Source: Snowball_Main/code/process_buffer.cpp (handlers), miner.cpp     *)
(* (miner, mine_Consensus_blocks), MyServer.cpp run_network (polls).       *)
(*                                                                         *)
(* Abstractions.  A message takes one step, handler and replies together:  *)
(* one thread runs the handlers.  The miner's announcement is one step     *)
(* too; started stands for the flag mining as well, its negation.  The     *)
(* exchange of headers and bodies is ChainTree's: here a node may take a   *)
(* full block from any node that has it.  blocks_in_phase_request and      *)
(* blocks_in_phase_validate have the keys of pre and votes.                *)
(***************************************************************************)
EXTENDS Integers, FiniteSets, FiniteSetsExt, Sequences, ConsensusGroup

CONSTANTS
    Node,
    Leader,                \* choose_leader returns the same address always
    CONCURRENCY_BLOCKS,    \* announcements that start a round
    InitialList,           \* the group every node starts from, or <<>>
    LastRound,             \* bound: announcements are made up to this round
    MaxMines,              \* bound: announcements of one node
    Resends,               \* bound: times a request for a block is repeated
    Window,                \* bound: messages between two nodes that a poll
                           \* may add to
    StrayReads,            \* what is read through the end of a map is arbitrary
                           \* (otherwise it never has the value that matters)
    Lossy,                 \* messages to a node that is not connected are lost
    MaxRepeats             \* bound: messages a connection sends twice

ASSUME RoundAssumption ==
    /\ Leader \in Node
    /\ CONCURRENCY_BLOCKS \in Nat \ {0}
    /\ InitialList \in Seq([node : Node, share : 1 .. MaxMines])
    /\ LastRound \in Nat /\ MaxMines \in Nat
    /\ Resends \in Nat /\ Window \in Nat
    /\ StrayReads \in BOOLEAN /\ Lossy \in BOOLEAN
    /\ MaxRepeats \in Nat

VARIABLES
    g,        \* g[n] : the Consensus_Group of n
    mines,    \* mines[n] : announcements made by n
    pre,      \* pre[n] : pre_blocks, order -> [owner, round, sent]
    mined,    \* all blocks mined
    votes,    \* votes[n] : waiting_for_phase_1_block, block -> verify_1_numbers
    voted,    \* history: <<b, m>> where the owner of b has counted votes of m
    full,     \* full[n] : blocks n holds with is_full_block set
    chan,     \* chan[m][n] : messages on the connection from m to n
    crashed,  \* nodes that have used a null pointer
    again     \* again[m][n] : messages that the connection from m to n has sent twice

vars == <<g, mines, pre, mined, votes, voted, full, chan, crashed, again>>

Threshold == (CONCURRENCY_BLOCKS \div 3) * 2

Announce(r) == [type |-> "mining_succeed", round |-> r]
Request(o, r) == [type |-> "consensus_block", order |-> o, round |-> r]
Received(o) == [type |-> "have_consensus_block", order |-> o]
Ask(b) == [type |-> "verified_1", block |-> b]
Answer(b, v) == [type |-> "answer_verified_1", block |-> b, votes |-> v]

\* Messages from n, added to the channels to the nodes in to; a node is not
\* among its own peers.
Send(ch, n, to, msg) ==
    [ch EXCEPT ![n] = [m \in Node |-> IF m \in to \ {n} THEN Append(@[m], msg)
                                                        ELSE @[m]]]

\* The message at the head of the connection from m is handled by n.
Handles(n, m, type) ==
    /\ n \notin crashed
    /\ chan[m][n] # <<>>
    /\ Head(chan[m][n]).type = type

Taken(n, m) == [chan EXCEPT ![m][n] = Tail(@)]

\* The map f with the entries of h for the keys f does not have.
Extend(f, h) ==
    [x \in DOMAIN f \cup DOMAIN h |-> IF x \in DOMAIN f THEN f[x] ELSE h[x]]

\* Blocks mined for the same place of a round differ by their hash.
NewBlock(n, r, o) ==
    [owner |-> n, round |-> r, order |-> o,
     copy |-> Cardinality({b \in mined : b.owner = n /\ b.round = r
                                           /\ b.order = o}) + 1]

-----------------------------------------------------------------------------
(***************************************************************************)
(* Mining and the group.                                                   *)
(***************************************************************************)

\* mine_Consensus_blocks, run by the leader n when group gn starts: its own
\* blocks are mined with its own votes, the others wait to be requested.
OwnBlocks(n, gn) ==
    {NewBlock(n, gn.round, o) :
        o \in {i \in DOMAIN Slots(gn.list) : Slots(gn.list)[i] = n}}

HandOut(n, gn) ==
    LET slots == Slots(gn.list)
    IN  Extend(pre[n], [o \in {i \in DOMAIN slots : slots[i] # n} |->
                          [owner |-> slots[o], round |-> gn.round, sent |-> 0]])

\* start_consensus_of_blocks once count reaches CONCURRENCY_BLOCKS, whether the
\* round has been started before or not.
StartIfReady(n, gn) ==
    LET ready == gn.count >= CONCURRENCY_BLOCKS
        own == IF ready /\ n = Leader THEN OwnBlocks(n, gn) ELSE {}
    IN  /\ g' = [g EXCEPT ![n] = IF ready THEN [gn EXCEPT !.started = TRUE]
                                          ELSE gn]
        /\ mined' = mined \cup own
        /\ votes' = [votes EXCEPT ![n] =
                       Extend([b \in own |-> Share(gn.list, n)], @)]
        /\ pre' = IF ready /\ n = Leader
                  THEN [pre EXCEPT ![n] = HandOut(n, gn)] ELSE pre

\* get_numbers_of_concurrency_blocks_in_a_round adds two counters, of the
\* blocks of n and of the others that are full.  A counter that was never
\* incremented is not in its map, and what is read for it is arbitrary.
FullOf(n, r) == {b \in full[n] : b.round = r}
MayMine(n) ==
    LET last == FullOf(n, g[n].round - 1)
        counted == /\ \E b \in last : b.owner = n
                   /\ \E b \in last : b.owner # n
    IN  \/ g[n].round = 1
        \/ counted /\ Cardinality(last) = CONCURRENCY_BLOCKS
        \/ ~counted /\ StrayReads

\* Mutant: the miner announces itself and does not join its own group.
MineOutside(n) ==
    /\ n \notin crashed
    /\ ~g[n].started
    /\ g[n].round <= LastRound /\ mines[n] < MaxMines
    /\ MayMine(n)
    /\ mines' = [mines EXCEPT ![n] = @ + 1]
    /\ chan' = Send(chan, n, Node, Announce(g[n].round))
    /\ UNCHANGED <<g, pre, mined, votes, voted, full, crashed, again>>

\* miner: a node that has solved its puzzle joins its own group and tells all.
Mine(n) ==
    /\ n \notin crashed
    /\ ~g[n].started
    /\ g[n].round <= LastRound /\ mines[n] < MaxMines
    /\ MayMine(n)
    /\ mines' = [mines EXCEPT ![n] = @ + 1]
    /\ StartIfReady(n, Join(g[n], n, g[n].round))
    /\ chan' = Send(chan, n, Node, Announce(g[n].round))
    /\ UNCHANGED <<voted, full, crashed, again>>

\* #mining_succeed.
ReceiveAnnounce(n, m) ==
    /\ Handles(n, m, "mining_succeed")
    /\ chan' = Taken(n, m)
    /\ LET r == Head(chan[m][n]).round
       IN  IF r = g[n].round /\ g[n].started
           THEN UNCHANGED <<g, mined, votes, pre>>
           ELSE StartIfReady(n, Join(g[n], m, r))
    /\ UNCHANGED <<mines, voted, full, crashed, again>>

-----------------------------------------------------------------------------
(***************************************************************************)
(* Phase REQUEST.                                                          *)
(***************************************************************************)

\* The poll sends a request for slot o, again until it is acknowledged.
PollRequest(n, o) ==
    /\ n \notin crashed
    /\ o \in DOMAIN pre[n]
    /\ pre[n][o].sent <= Resends
    /\ chan' = Send(chan, n, {pre[n][o].owner}, Request(o, pre[n][o].round))
    /\ pre' = [pre EXCEPT ![n][o].sent = @ + 1]
    /\ UNCHANGED <<g, mines, mined, votes, voted, full, crashed, again>>

\* #consensus_block: acknowledged, and mined, unless the round of the block is
\* the present one and has not started.
ReceiveRequest(n, m) ==
    /\ Handles(n, m, "consensus_block")
    /\ LET msg == Head(chan[m][n])
           b == NewBlock(n, msg.round, msg.order)
       IN  IF (msg.round = g[n].round /\ ~g[n].started) \/ m # Leader
           THEN /\ chan' = Taken(n, m)
                /\ UNCHANGED <<mined, votes>>
           ELSE /\ chan' = Send(Taken(n, m), n, {m}, Received(msg.order))
                /\ mined' = mined \cup {b}
                /\ votes' = [votes EXCEPT ![n] = Extend([x \in {b} |-> 0], @)]
    /\ UNCHANGED <<g, mines, pre, voted, full, crashed, again>>

\* Mutant: the acknowledgement of one slot clears the whole queue.
ReceiveReceivedAll(n, m) ==
    /\ Handles(n, m, "have_consensus_block")
    /\ chan' = Taken(n, m)
    /\ pre' = [pre EXCEPT ![n] = <<>>]
    /\ UNCHANGED <<g, mines, mined, votes, voted, full, crashed, again>>

\* #have_consensus_block: the slot is not requested any more.
ReceiveReceived(n, m) ==
    /\ Handles(n, m, "have_consensus_block")
    /\ chan' = Taken(n, m)
    /\ pre' = [pre EXCEPT ![n] =
                 Restrict(@, DOMAIN @ \ {Head(chan[m][n]).order})]
    /\ UNCHANGED <<g, mines, mined, votes, voted, full, crashed, again>>

-----------------------------------------------------------------------------
(***************************************************************************)
(* Phase VALIDATE.                                                         *)
(***************************************************************************)

\* The poll asks the members for their votes on b, again and again.
PollValidate(n, b) ==
    LET members == {m \in Node \ {n} : IsIn(g[n].list, m)}
    IN  /\ n \notin crashed
        /\ g[n].started
        /\ b \in DOMAIN votes[n]
        /\ members # {}
        /\ \A m \in members : Len(chan[n][m]) + Len(chan[m][n]) < Window
        /\ chan' = Send(chan, n, members, Ask(b))
        /\ UNCHANGED <<g, mines, pre, mined, votes, voted, full, crashed, again>>

\* #verified_1: n answers with its share in the round of the block if that round
\* is over, and in its present group otherwise, where it may not be a member.
ReceiveAsk(n, m) ==
    /\ Handles(n, m, "verified_1")
    /\ LET b == Head(chan[m][n]).block
           old == b.round < g[n].round
           list == IF old THEN g[n].history[b.round] ELSE g[n].list
           refused == \/ b.round = g[n].round /\ ~g[n].started
                      \/ old /\ ~IsIn(list, n)
                      \/ ~old /\ ~IsIn(list, m)
       IN  IF refused
           THEN chan' = Taken(n, m) /\ UNCHANGED crashed
           ELSE IF ~IsIn(list, n)
           THEN chan' = Taken(n, m) /\ crashed' = crashed \cup {n}
           ELSE /\ chan' = Send(Taken(n, m), n, {m}, Answer(b, Share(list, n)))
                /\ UNCHANGED crashed
    /\ UNCHANGED <<g, mines, pre, mined, votes, voted, full, again>>

\* Mutant: a block that has won goes on waiting for votes.
WinKeeps(n, b) ==
    /\ full' = [full EXCEPT ![n] = @ \cup {b}]
    /\ g' = IF DOMAIN votes[n] = {b} THEN [g EXCEPT ![n] = Advance(@)] ELSE g
    /\ UNCHANGED votes

\* What #answer_verified_1 does once block b of n has enough votes: b is full,
\* and with the last of its blocks n ends the round.
Win(n, b) ==
    LET rest == DOMAIN votes[n] \ {b}
    IN  /\ full' = [full EXCEPT ![n] = @ \cup {b}]
        /\ votes' = [votes EXCEPT ![n] = Restrict(@, rest)]
        /\ g' = IF rest = {} THEN [g EXCEPT ![n] = Advance(@)] ELSE g

\* #answer_verified_1: the votes are added to those the block has, and with the
\* first answer those of n itself.
ReceiveAnswer(n, m) ==
    /\ Handles(n, m, "answer_verified_1")
    /\ chan' = Taken(n, m)
    /\ LET b == Head(chan[m][n]).block
           waiting == g[n].started /\ b \in DOMAIN votes[n]
           own == IF votes[n][b] = 0 THEN Share(g[n].list, n) ELSE 0
           sum == votes[n][b] + own + Head(chan[m][n]).votes
       IN  IF waiting /\ (votes[n][b] = 0 => IsIn(g[n].list, n))
           THEN /\ voted' = voted \cup {<<b, m>>}
                /\ IF sum >= Threshold
                   THEN Win(n, b)
                   ELSE /\ votes' = [votes EXCEPT ![n][b] = sum]
                        /\ UNCHANGED <<g, full>>
                /\ UNCHANGED crashed
           ELSE /\ \/ ~waiting /\ UNCHANGED crashed
                   \* The counter read is that of b or, when b is not waited
                   \* for, arbitrary: 0 makes n look itself up.
                   \/ /\ g[n].started /\ ~IsIn(g[n].list, n)
                      /\ waiting \/ StrayReads
                      /\ crashed' = crashed \cup {n}
                /\ UNCHANGED <<g, votes, voted, full>>
    /\ UNCHANGED <<mines, pre, mined, again>>

\* Mutant: the body of a block is handed out before the block has won.
ReceiveFullBlockEarly(n, m, b) ==
    /\ n \notin crashed /\ m \notin crashed
    /\ b \in DOMAIN votes[m] \ full[n]
    /\ full' = [full EXCEPT ![n] = @ \cup {b}]
    /\ UNCHANGED <<g, mines, pre, mined, votes, voted, chan, crashed, again>>

\* #full_block: n takes a full block b from m.  Outside the group it ends the
\* round with the first full block of that round.
ReceiveFullBlock(n, m, b) ==
    /\ n \notin crashed /\ m \notin crashed
    /\ b \in full[m] \ full[n]
    /\ full' = [full EXCEPT ![n] = @ \cup {b}]
    /\ g' = IF b.round = g[n].round /\ g[n].started /\ ~IsIn(g[n].list, n)
            THEN [g EXCEPT ![n] = Advance(@)] ELSE g
    /\ UNCHANGED <<mines, pre, mined, votes, voted, chan, crashed, again>>

\* A message is dropped because the receiver is not connected.
Lose(m, n) ==
    /\ Lossy
    /\ chan[m][n] # <<>>
    /\ chan' = Taken(n, m)
    /\ UNCHANGED <<g, mines, pre, mined, votes, voted, full, crashed, again>>

\* The message sent last is sent again: both the handler that queues it and the
\* one that goes on after a write have written it.
Repeat(m, n) ==
    /\ again[m][n] < MaxRepeats
    /\ chan[m][n] # <<>>
    /\ chan' = [chan EXCEPT ![m][n] = Append(@, Last(@))]
    /\ again' = [again EXCEPT ![m][n] = @ + 1]
    /\ UNCHANGED <<g, mines, pre, mined, votes, voted, full, crashed>>

-----------------------------------------------------------------------------
\* A group of every node with the announcements of InitialList, in the same
\* order, and the leader's work at the start of the round.
InitialGroup ==
    [NewGroup EXCEPT !.list = InitialList, !.count = TotalShare(InitialList),
                     !.started = TotalShare(InitialList) >= CONCURRENCY_BLOCKS]
Init ==
    /\ g = [n \in Node |-> InitialGroup]
    /\ mines = [n \in Node |-> Share(InitialList, n)]
    /\ voted = {}
    /\ full = [n \in Node |-> {}]
    /\ chan = [m \in Node |-> [n \in Node |-> <<>>]]
    /\ crashed = {}
    /\ again = [m \in Node |-> [n \in Node |-> 0]]
    /\ LET slots == IF InitialGroup.started THEN Slots(InitialList) ELSE <<>>
           own == {[owner |-> Leader, round |-> 1, order |-> o, copy |-> 1] :
                     o \in {i \in DOMAIN slots : slots[i] = Leader}}
           rest == {i \in DOMAIN slots : slots[i] # Leader}
       IN  /\ mined = own
           /\ votes = [n \in Node |->
                         [b \in {x \in own : n = Leader} |->
                            Share(InitialList, n)]]
           /\ pre = [n \in Node |->
                       [o \in {i \in rest : n = Leader} |->
                          [owner |-> slots[o], round |-> 1, sent |-> 0]]]

Receive(n, m) ==
    \/ ReceiveAnnounce(n, m)
    \/ ReceiveRequest(n, m)
    \/ ReceiveReceived(n, m)
    \/ ReceiveAsk(n, m)
    \/ ReceiveAnswer(n, m)

Next ==
    \/ \E n \in Node : Mine(n)
    \/ \E n \in Node : \E o \in DOMAIN pre[n] : PollRequest(n, o)
    \/ \E n \in Node : \E b \in DOMAIN votes[n] : PollValidate(n, b)
    \/ \E n, m \in Node : Receive(n, m)
    \/ \E n, m \in Node : \E b \in mined : ReceiveFullBlock(n, m, b)
    \/ \E n, m \in Node : Lose(m, n) \/ Repeat(m, n)

Spec == Init /\ [][Next]_vars

-----------------------------------------------------------------------------
(***************************************************************************)
(* Properties.                                                             *)
(***************************************************************************)

Round == Nat \ {0}
Blocks == [owner : Node, round : Round, order : Nat \ {0}, copy : Nat \ {0}]
List == Seq([node : Node, share : Nat \ {0}])
Message ==
    [type : {"mining_succeed"}, round : Round]
      \cup [type : {"consensus_block"}, order : Nat \ {0}, round : Round]
      \cup [type : {"have_consensus_block"}, order : Nat \ {0}]
      \cup [type : {"verified_1"}, block : Blocks]
      \cup [type : {"answer_verified_1"}, block : Blocks, votes : Nat \ {0}]

TypeOK ==
    /\ \A n \in Node :
         /\ g[n].round \in Round /\ g[n].started \in BOOLEAN
         /\ g[n].list \in List /\ g[n].count \in Nat
         /\ \A r \in DOMAIN g[n].history : r \in Round /\ g[n].history[r] \in List
         /\ \A r \in DOMAIN g[n].future : r \in Round /\ g[n].future[r] \in List
         /\ \A o \in DOMAIN pre[n] :
              /\ o \in Nat \ {0}
              /\ pre[n][o] \in [owner : Node, round : Round, sent : Nat]
         /\ DOMAIN votes[n] \subseteq mined /\ full[n] \subseteq mined
         /\ \A b \in DOMAIN votes[n] : votes[n][b] \in Nat
         /\ \A m \in Node : chan[m][n] \in Seq(Message)
    /\ mines \in [Node -> 0 .. MaxMines]
    /\ mined \subseteq Blocks
    /\ voted \subseteq mined \X Node
    /\ crashed \subseteq Node
    /\ again \in [Node -> [Node -> 0 .. MaxRepeats]]

\* Every round that n has left is in its history: #verified_1 looks the round of
\* an old block up there and uses the entry without a test.
HistoryComplete ==
    \A n \in Node : DOMAIN g[n].history = 1 .. g[n].round - 1

\* A block that waits for votes is not full: the poll would forget it, and the
\* round, which ends when no block waits, could not end.
WaitingNotFull == \A n \in Node : DOMAIN votes[n] \cap full[n] = {}

\* A block that is full anywhere has won the vote its owner asked for.
FullImpliesWon == \A n \in Node : \A b \in full[n] : b \in full[b.owner]

\* No slot of the leader's first round gets lost: it is requested until its owner has
\* mined a block for it.
SlotsKept ==
    LET gl == g[Leader]
        slots == Slots(gl.list)
    IN  gl.round = 1 /\ gl.started =>
          \A o \in DOMAIN slots :
             \/ o \in DOMAIN pre[Leader] /\ pre[Leader][o].round = 1
             \/ \E b \in mined : /\ b.owner = slots[o]
                                 /\ b.round = 1 /\ b.order = o

\* In the first round nobody counts more announcements of a miner than it made and
\* the connection from it has sent twice: what is sent twice is counted twice.
NotOvercounted ==
    \A n, m \in Node :
       g[n].round = 1 => Share(g[n].list, m) <= mines[m] + again[m][n]

\* Until a second round starts no node follows a null pointer: who asks n, or answers
\* it, knows it as a member, and then n knows itself as one.  In the second round this
\* ends: an announcement made for one round is counted in the next by those who are
\* there already.
SecondRound == \E n \in Node : g[n].round > 2 \/ (g[n].round = 2 /\ g[n].started)
NoCrash == SecondRound \/ crashed = {}

\* Claim of "A block have enough votes in PHASE VALIDATE": the members that have
\* voted on a block that won, its owner among them, hold enough votes.
EnoughVotes ==
    \A n \in Node : \A b \in full[n] :
       LET voters == {m \in Node : <<b, m>> \in voted} \cup {b.owner}
           list == IF b.round \in DOMAIN g[b.owner].history
                   THEN g[b.owner].history[b.round] ELSE g[b.owner].list
       IN  MapThenSumSet(LAMBDA m : Share(list, m), voters) >= Threshold

\* Connections deliver, and the polls go on.
FirstBlocks == {[owner |-> Slots(InitialList)[o], round |-> 1, order |-> o,
                 copy |-> 1] : o \in DOMAIN Slots(InitialList)}
FairSpec ==
    /\ Spec
    /\ \A n \in Node : \A m \in Node \ {n} : WF_vars(Receive(n, m))
    /\ \A b \in FirstBlocks :
         /\ WF_vars(/\ b.order \in DOMAIN pre[Leader]
                    /\ PollRequest(Leader, b.order))
         /\ WF_vars(b \in DOMAIN votes[b.owner] /\ PollValidate(b.owner, b))
         /\ \A n \in Node : WF_vars(ReceiveFullBlock(n, b.owner, b))

\* A round that has started is over on every node, and every node then holds the
\* full blocks that let it mine for the next one.
RoundEnds ==
    <>[](\A n \in Node : /\ g[n].round = 2
                         /\ Cardinality(FullOf(n, 1)) = CONCURRENCY_BLOCKS)
=============================================================================
