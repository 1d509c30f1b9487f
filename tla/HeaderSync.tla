----------------------------- MODULE HeaderSync -----------------------------
(***************************************************************************)
(* A chain of a node (ChainTree, with the lock taken) and a peer it gets   *)
(* its headers from: headers that are lost on the way leave gaps, which    *)
(* the node closes by asking for blocks, some ancestors at a time.         *)
(*                                                                         *)
(* Source: OHIE_with_TX_Pool/code: #ask_block and #process_block in        *)
(* process_buffer.cpp, the poll of incomplete chains in                    *)
(* MyServer::run_network, create__ask_block in requests.cpp.               *)
(*                                                                         *)
(* Abstractions.  The peer knows every block that has been mined, the      *)
(* node's own as soon as they are linked; it stands for all peers that     *)
(* answer.  What the node sends it back as news, it knows.  Both           *)
(* directions are channels (module Link), which may repeat a message and   *)
(* of which the end of a connection takes a tail away.  Nothing makes a    *)
(* poll wait for the answers to the one before: it is held back only by    *)
(* the bound Window, when much is on its way.                              *)
(***************************************************************************)
EXTENDS ChainTree, Sequences, SequencesExt

CONSTANTS
    MAX_ASK_BLOCKS,
    Window,            \* bound: a poll is made with at most so many messages on
                       \* their way
    MaxLosses,         \* bound: connections that end
    MaxRepeats         \* bound: messages that are sent twice

ASSUME HeaderSyncAssumption ==
    /\ MAX_ASK_BLOCKS \in Nat \ {0}
    /\ {Window, MaxLosses, MaxRepeats} \subseteq Nat

VARIABLES
    asks,      \* #ask_block on the way to the peer: <<hash, number of blocks>>
    news,      \* #process_block on the way to the node
    losses,    \* number of connections that have ended
    repeats,   \* number of messages sent twice
    missing,   \* history: how many messages naming the root of a tree have been
               \* lost since it is one
    dropped    \* history: headers of the trees that were given up

wires == <<asks, news, losses, repeats, missing, dropped>>
allVars == <<vars, wires>>

SyncInit ==
    /\ Init
    /\ asks = <<>> /\ news = <<>> /\ losses = 0 /\ repeats = 0
    /\ missing = [h \in {} |-> 0] /\ dropped = {}

\* Hashes are interchangeable: which one a new block gets makes no difference.
Drawn(h) == Fresh(h) /\ h = CHOOSE x \in Hash : Fresh(x)

\* The peer mines a block and sends its header.
PeerSends(h, p) ==
    /\ Drawn(h)
    /\ PeerMines(h, p)
    /\ news' = Append(news, h)
    /\ UNCHANGED <<asks, losses, repeats, missing, dropped>>

\* create__ask_block: as many blocks as the gap may be deep, one at least.
AskFor(h, myDepth, hashDepth) ==
    <<h, IF myDepth >= hashDepth THEN 1 ELSE hashDepth - myDepth>>

Roots == {t.root : t \in forest}

\* The roots of new trees come without losses.
NewRoots == [h \in Roots' |-> IF h \in Roots THEN missing[h] ELSE 0]

\* #process_block: if the parent is to be asked for, as many blocks as h is deeper
\* than the deepest block.
ReceiveNews ==
    /\ news # <<>>
    /\ LET h == Head(news)
       IN  /\ ReceiveKnown(h) \/ Attach(h) \/ StoreIncomplete(h)
           /\ asks' = IF NeedParent(h)
                      THEN Append(asks, AskFor(Parent(h), Depth(deepest), Depth(h)))
                      ELSE asks
    /\ news' = Tail(news)
    /\ missing' = NewRoots
    /\ UNCHANGED <<losses, repeats, dropped>>

\* Mutant: a root is asked for again only until the first poll has asked for it.
PollIncompleteOnce(due) ==
    LET over == {t \in due : t.asks >= NO_ASKS_BEFORE_REMOVING}
        wanted == {t.root : t \in due \ over}
    IN  /\ Len(asks) + Len(news) <= Window
        /\ \A t \in due : t.asks = 0
        /\ AskIncomplete(due)
        /\ asks' = asks \o SetToSeq({AskFor(r, 0, MAX_ASK_BLOCKS) : r \in wanted})
        /\ dropped' = dropped \cup UNION {t.nodes : t \in over}
        /\ missing' = NewRoots
        /\ UNCHANGED <<news, losses, repeats>>

\* The timer asks for the roots of the incomplete trees that are due, but for
\* those of the trees it gives up.
PollIncomplete(due) ==
    LET over == {t \in due : t.asks >= NO_ASKS_BEFORE_REMOVING}
        wanted == {t.root : t \in due \ over}
    IN  /\ Len(asks) + Len(news) <= Window
        /\ AskIncomplete(due)
        /\ asks' = asks \o SetToSeq({AskFor(r, 0, MAX_ASK_BLOCKS) : r \in wanted})
        /\ dropped' = dropped \cup UNION {t.nodes : t \in over}
        /\ missing' = NewRoots
        /\ UNCHANGED <<news, losses, repeats>>

\* The ancestors above h, at most k of them, without the root.
Above(h, k) ==
    LET up[i \in Nat] == IF i = 0 THEN h
                         ELSE IF up[i - 1] = Genesis THEN Genesis
                         ELSE Parent(up[i - 1])
    IN  SelectSeq([i \in 1 .. k |-> up[i]], LAMBDA b : b # Genesis)

\* Mutant: the answer begins above the block that was asked for.
PeerAnswersAbove ==
    /\ asks # <<>>
    /\ LET h == Head(asks)[1]
           k == IF Head(asks)[2] < MAX_ASK_BLOCKS THEN Head(asks)[2]
                ELSE MAX_ASK_BLOCKS
       IN  news' = news \o Above(h, k)
    /\ asks' = Tail(asks)
    /\ UNCHANGED <<vars, losses, repeats, missing, dropped>>

\* #ask_block, at the peer: the block and those above it, as many as are asked for.
PeerAnswers ==
    /\ asks # <<>>
    /\ LET h == Head(asks)[1]
           k == IF Head(asks)[2] < MAX_ASK_BLOCKS THEN Head(asks)[2]
                ELSE MAX_ASK_BLOCKS
       IN  news' = news \o <<h>> \o Above(h, k - 1)
    /\ asks' = Tail(asks)
    /\ UNCHANGED <<vars, losses, repeats, missing, dropped>>

\* The requests for h among some messages, and the headers h among others.
Requests(s, h) == {i \in DOMAIN s : s[i][1] = h}
Headers(s, h) == {i \in DOMAIN s : s[i] = h}

\* The network: a tail of what a connection carries is lost.
LoseTail ==
    /\ losses < MaxLosses
    /\ losses' = losses + 1
    /\ \/ \E k \in 0 .. Len(asks) - 1 :
            /\ asks' = SubSeq(asks, 1, k)
            /\ missing' = [h \in Roots |-> missing[h]
                              + Cardinality(Requests(asks, h) \ (1 .. k))]
            /\ UNCHANGED news
       \/ \E k \in 0 .. Len(news) - 1 :
            /\ news' = SubSeq(news, 1, k)
            /\ missing' = [h \in Roots |-> missing[h]
                              + Cardinality(Headers(news, h) \ (1 .. k))]
            /\ UNCHANGED asks
    /\ UNCHANGED <<vars, repeats, dropped>>

\* The network: the message sent last is sent again.
Repeat ==
    /\ repeats < MaxRepeats
    /\ repeats' = repeats + 1
    /\ \/ asks # <<>> /\ asks' = Append(asks, Last(asks)) /\ UNCHANGED news
       \/ news # <<>> /\ news' = Append(news, Last(news)) /\ UNCHANGED asks
    /\ UNCHANGED <<vars, losses, missing, dropped>>

SyncNext ==
    \/ \E h \in Hash, p \in Block : PeerSends(h, p)
    \/ ReceiveNews
    \/ \E due \in SUBSET forest : PollIncomplete(due)
    \/ PeerAnswers
    \/ LoseTail
    \/ Repeat
    \/ \E h \in Hash : Drawn(h) /\ MineBegin(h) /\ UNCHANGED wires
    \/ MineStep /\ UNCHANGED wires

SyncSpec == SyncInit /\ [][SyncNext]_allVars

\* Both nodes handle what arrives and the miner gives the lock back.  Every root
\* is polled for: strong fairness, since only the lock and the bound Window ever
\* hold the timer back.
PollRoot(r) == \E due \in SUBSET forest :
                 /\ \E t \in due : t.root = r
                 /\ PollIncomplete(due)
FairSyncSpec ==
    /\ SyncSpec
    /\ WF_allVars(ReceiveNews) /\ WF_allVars(PeerAnswers)
    /\ \A r \in Hash : SF_allVars(PollRoot(r))
    /\ WF_allVars(MineStep /\ UNCHANGED wires)

-----------------------------------------------------------------------------
(***************************************************************************)
(* Properties.                                                             *)
(***************************************************************************)

\* The requests for h that have had no effect yet: they are on their way, or their
\* answer is, or one of the two was lost.
Unanswered(h) == Cardinality(Requests(asks, h)) + Cardinality(Headers(news, h))
                   + missing[h]

\* A peer that answers is given up only for the network's sake: a root polled for
\* some times has had one request more, and none of them was answered.  So a tree is
\* dropped when NO_ASKS_BEFORE_REMOVING + 1 messages are lost or late.
PatientEnough == \A t \in forest : t.asks < Unanswered(t.root)

\* Every gap is closed or given up: a header kept in an incomplete tree reaches
\* the main tree, however many ancestors are missing and whatever MAX_ASK_BLOCKS
\* is, or its tree is dropped.
GapCloses == \A h \in Hash : (h \in InForest) ~> (h \in main \/ h \in dropped)
=============================================================================
