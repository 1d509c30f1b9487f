------------------------- MODULE SnowballRoundProofs -------------------------
(***************************************************************************)
(* Theorems about SnowballRound for any set of nodes, any initial group,   *)
(* any bounds, with and without losses, whatever stray reads return.       *)
(***************************************************************************)
EXTENDS SnowballRound, ConsensusGroupProofs

-----------------------------------------------------------------------------
(***************************************************************************)
(* Types, with the two facts about a group that typing needs: #verified_1  *)
(* indexes the history, and the first answer adds a share.                 *)
(***************************************************************************)

Order == Nat \ {0}

\* The entries of pre_blocks and of waiting_for_phase_1_block.
Queues == UNION {[D -> [owner : Node, round : Round, sent : Nat]] : D \in SUBSET Order}
Counters(S) == UNION {[D -> Nat] : D \in SUBSET S}

Typed ==
    /\ g \in [Node -> Groups(Node)]
    /\ \A n \in Node : SoundGroup(g[n])
    /\ mines \in [Node -> 0 .. MaxMines]
    /\ pre \in [Node -> Queues]
    /\ mined \in SUBSET Blocks /\ IsFiniteSet(mined)
    /\ votes \in [Node -> Counters(mined)]
    /\ full \in [Node -> SUBSET mined]
    /\ chan \in [Node -> [Node -> Seq(Message)]]
    /\ voted \in SUBSET (mined \X Node)
    /\ crashed \in SUBSET Node

\* What is in a queue.
LEMMA QueueType ==
  ASSUME NEW q \in Queues
  PROVE  /\ q \in [DOMAIN q -> [owner : Node, round : Round, sent : Nat]]
         /\ DOMAIN q \in SUBSET Order
         /\ \A o \in DOMAIN q :
              /\ q[o] \in [owner : Node, round : Round, sent : Nat]
              /\ q[o] = [owner |-> q[o].owner, round |-> q[o].round, sent |-> q[o].sent]
              /\ q[o].owner \in Node /\ q[o].round \in Round /\ q[o].sent \in Nat
<1>1. PICK D \in SUBSET Order : q \in [D -> [owner : Node, round : Round, sent : Nat]]
  BY DEF Queues
<1>2. \A o \in DOMAIN q : q[o] \in [owner : Node, round : Round, sent : Nat]
  BY <1>1
<1> QED BY <1>1, <1>2

LEMMA CounterType ==
  ASSUME NEW S, NEW v \in Counters(S)
  PROVE  /\ v \in [DOMAIN v -> Nat] /\ DOMAIN v \in SUBSET S
         /\ \A b \in DOMAIN v : v[b] \in Nat /\ b \in S
<1>1. PICK D \in SUBSET S : v \in [D -> Nat]
  BY DEF Counters
<1> QED BY <1>1

\* A map stays one when it is extended or restricted.
LEMMA ExtendCounters ==
  ASSUME NEW S, NEW T, NEW u \in Counters(S), NEW v \in Counters(T)
  PROVE  /\ Extend(u, v) \in Counters(S \cup T)
         /\ DOMAIN Extend(u, v) = DOMAIN u \cup DOMAIN v
<1>1. Extend(u, v) \in [DOMAIN u \cup DOMAIN v -> Nat]
  BY CounterType DEF Extend
<1>2. DOMAIN u \cup DOMAIN v \in SUBSET (S \cup T)
  BY CounterType
<1> QED BY <1>1, <1>2 DEF Counters

LEMMA ExtendQueues ==
  ASSUME NEW u \in Queues, NEW v \in Queues
  PROVE  /\ Extend(u, v) \in Queues
         /\ DOMAIN Extend(u, v) = DOMAIN u \cup DOMAIN v
         /\ \A o \in DOMAIN u : Extend(u, v)[o] = u[o]
         /\ \A o \in DOMAIN v \ DOMAIN u : Extend(u, v)[o] = v[o]
<1>1. Extend(u, v) \in [DOMAIN u \cup DOMAIN v
                          -> [owner : Node, round : Round, sent : Nat]]
  BY QueueType DEF Extend
<1>2. DOMAIN u \cup DOMAIN v \in SUBSET Order
  BY QueueType
<1>3. Extend(u, v) \in Queues
  BY <1>1, <1>2 DEF Queues
<1> QED BY <1>3 DEF Extend

\* The assumptions on the constants, in the forms the proofs use.
LEMMA InitialListType ==
  /\ InitialList \in MemberLists(Node)
  /\ \A n : Share(InitialList, n) \in 0 .. MaxMines
<1>1. InitialList \in Seq([node : Node, share : 1 .. MaxMines]) /\ MaxMines \in Nat
  BY RoundAssumption
<1>2. [node : Node, share : 1 .. MaxMines] \subseteq [node : Node, share : Nat \ {0}]
  BY <1>1
<1>3. InitialList \in MemberLists(Node)
  <2> DEFINE A == [node : Node, share : 1 .. MaxMines]
             B == [node : Node, share : Nat \ {0}]
  <2>1. InitialList \in Seq(A) /\ A \subseteq B
    BY <1>1, <1>2
  <2> HIDE DEF A, B
  <2>2. InitialList \in Seq(B)
    BY <2>1, SeqMonotonic
  <2> QED BY <2>2 DEF MemberLists, B
<1>4. ASSUME NEW n
      PROVE  Share(InitialList, n) \in 0 .. MaxMines
  <2>1. CASE IsIn(InitialList, n)
    <3>1. PICK i \in 1 .. Len(InitialList) :
            InitialList[i].node = n /\ \A j \in 1 .. i - 1 : InitialList[j].node # n
      BY <1>3, <2>1, MemberEntry
    <3>2. Share(InitialList, n) = InitialList[i].share
      BY <1>3, <3>1, ShareAt
    <3>3. InitialList[i] \in [node : Node, share : 1 .. MaxMines]
      BY <1>1, ElementOfSeq
    <3> QED BY <1>1, <3>2, <3>3
  <2>2. CASE ~ IsIn(InitialList, n)
    BY <1>1, <1>3, <2>2, ShareType
  <2> QED BY <2>1, <2>2
<1> QED BY <1>3, <1>4

\* A node holds a group, and the messages it handles are of the five kinds.
LEMMA GroupFields ==
  ASSUME Typed, NEW n \in Node
  PROVE  /\ g[n] \in Groups(Node) /\ SoundGroup(g[n])
         /\ g[n].round \in Round /\ g[n].started \in BOOLEAN
         /\ g[n].list \in MemberLists(Node) /\ g[n].count \in Nat
         /\ g[n].history \in GroupMaps(Node) /\ g[n].future \in GroupMaps(Node)
BY DEF Typed, Groups, Round

LEMMA HeadType ==
  ASSUME Typed, NEW n \in Node, NEW m \in Node, chan[m][n] # <<>>
  PROVE  LET msg == Head(chan[m][n])
         IN  /\ msg \in Message
             /\ msg.type = "mining_succeed" => msg.round \in Round
             /\ msg.type = "consensus_block" => msg.order \in Order /\ msg.round \in Round
             /\ msg.type = "have_consensus_block" => msg.order \in Order
             /\ msg.type = "verified_1" => msg.block \in Blocks
             /\ msg.type = "answer_verified_1" => msg.block \in Blocks
                                                  /\ msg.votes \in Nat \ {0}
<1>1. chan[m][n] \in Seq(Message)
  BY DEF Typed
<1> DEFINE msg == Head(chan[m][n])
<1>2. msg \in Message
  BY <1>1, HeadTailProperties
<1> HIDE DEF msg
<1>3. msg.type = "mining_succeed" => msg.round \in Round
  BY <1>2 DEF Message
<1>4. msg.type = "consensus_block" => msg.order \in Order /\ msg.round \in Round
  BY <1>2 DEF Message, Order
<1>5. msg.type = "have_consensus_block" => msg.order \in Order
  BY <1>2 DEF Message, Order
<1>6. msg.type = "verified_1" => msg.block \in Blocks
  BY <1>2 DEF Message
<1>7. msg.type = "answer_verified_1" => msg.block \in Blocks /\ msg.votes \in Nat \ {0}
  BY <1>2 DEF Message
<1> QED BY <1>2, <1>3, <1>4, <1>5, <1>6, <1>7 DEF msg

LEMMA MessageTypes ==
  /\ \A r \in Round : Announce(r) \in Message
  /\ \A o \in Order, r \in Round : Request(o, r) \in Message
  /\ \A o \in Order : Received(o) \in Message
  /\ \A b \in Blocks : Ask(b) \in Message
  /\ \A b \in Blocks, v \in Nat \ {0} : Answer(b, v) \in Message
BY DEF Announce, Request, Received, Ask, Answer, Message, Order

\* Send and Taken keep the channels and change the ends they name.
LEMMA SendType ==
  ASSUME NEW ch \in [Node -> [Node -> Seq(Message)]], NEW n \in Node, NEW to,
         NEW msg \in Message
  PROVE  Send(ch, n, to, msg) \in [Node -> [Node -> Seq(Message)]]
<1> DEFINE row == [m \in Node |-> IF m \in to \ {n} THEN Append(ch[n][m], msg)
                                  ELSE ch[n][m]]
<1>1. row \in [Node -> Seq(Message)]
  BY AppendProperties
<1>2. Send(ch, n, to, msg) = [ch EXCEPT ![n] = row]
  BY DEF Send
<1> QED BY <1>1, <1>2

LEMMA SendKeeps ==
  \A ch \in [Node -> [Node -> Seq(Message)]], n \in Node, msg \in Message : \A to :
     Send(ch, n, to, msg) \in [Node -> [Node -> Seq(Message)]]
BY SendType

LEMMA TakenType ==
  ASSUME Typed, NEW n \in Node, NEW m \in Node, chan[m][n] # <<>>
  PROVE  /\ Taken(n, m) \in [Node -> [Node -> Seq(Message)]]
         /\ \A a, b \in Node : Taken(n, m)[a][b] = IF a = m /\ b = n
                                                   THEN Tail(chan[m][n]) ELSE chan[a][b]
<1>1. chan \in [Node -> [Node -> Seq(Message)]]
  BY DEF Typed
<1>2. Tail(chan[m][n]) \in Seq(Message)
  <2>1. chan[m][n] \in Seq(Message)
    BY <1>1
  <2> QED BY <2>1, HeadTailProperties
<1>3. Taken(n, m) = [chan EXCEPT ![m] = [chan[m] EXCEPT ![n] = Tail(chan[m][n])]]
  BY DEF Taken
<1> DEFINE row == [chan[m] EXCEPT ![n] = Tail(chan[m][n])]
<1>4. /\ row \in [Node -> Seq(Message)]
      /\ \A b \in Node : row[b] = IF b = n THEN Tail(chan[m][n]) ELSE chan[m][b]
  BY <1>1, <1>2
<1> HIDE DEF row
<1>5. Taken(n, m) = [chan EXCEPT ![m] = row]
  BY <1>3 DEF row
<1> QED BY <1>1, <1>4, <1>5

-----------------------------------------------------------------------------
(***************************************************************************)
(* New blocks.  The hash of a block is the number of its copy: it is new   *)
(* because all blocks of its place have smaller numbers.                   *)
(***************************************************************************)

SamePlace(b) == {x \in mined : /\ x.owner = b.owner /\ x.round = b.round
                               /\ x.order = b.order}

Numbered == \A b \in mined : b.copy <= Cardinality(SamePlace(b))

LEMMA SamePlaceFinite ==
  ASSUME Typed, NEW b
  PROVE  IsFiniteSet(SamePlace(b)) /\ Cardinality(SamePlace(b)) \in Nat
<1>1. SamePlace(b) \in SUBSET mined
  BY DEF SamePlace
<1>2. IsFiniteSet(SamePlace(b))
  BY <1>1, FS_Subset DEF Typed
<1> QED BY <1>2, FS_CardinalityType

\* A block mined now is none of those mined before.
LEMMA NewBlockIsNew ==
  ASSUME Typed, Numbered, NEW n \in Node, NEW r \in Round, NEW o \in Order
  PROVE  LET b == NewBlock(n, r, o)
         IN  /\ b \in Blocks /\ b \notin mined
             /\ b.owner = n /\ b.round = r /\ b.order = o
             /\ b.copy = Cardinality(SamePlace(b)) + 1
<1> DEFINE b == NewBlock(n, r, o)
           S == {x \in mined : x.owner = n /\ x.round = r /\ x.order = o}
<1>1. b = [owner |-> n, round |-> r, order |-> o, copy |-> Cardinality(S) + 1]
  BY DEF NewBlock
<1>2. b.owner = n /\ b.round = r /\ b.order = o
  BY <1>1
<1>3. S = SamePlace(b)
  BY <1>2 DEF SamePlace
<1>4. Cardinality(S) \in Nat
  BY <1>3, SamePlaceFinite
<1> HIDE DEF S
<1>5. b \in Blocks /\ b.copy = Cardinality(S) + 1
  BY <1>1, <1>4 DEF Blocks, Order
<1> HIDE DEF b
<1>6. b \notin mined
  BY <1>3, <1>4, <1>5 DEF Numbered
<1> QED BY <1>2, <1>3, <1>5, <1>6 DEF b

\* Any number of blocks may be mined in one step, each for a place of its own.
LEMMA NumberedKept ==
  ASSUME Typed, Numbered, NEW own, IsFiniteSet(own), mined' = mined \cup own,
         \A b \in own : b \in Blocks /\ b = NewBlock(b.owner, b.round, b.order)
  PROVE  Numbered'
<1> DEFINE After(b) == {x \in mined \cup own : /\ x.owner = b.owner
                                              /\ x.round = b.round
                                              /\ x.order = b.order}
<1>1. IsFiniteSet(mined \cup own)
  BY FS_Union DEF Typed
<1>2. ASSUME NEW b
      PROVE  /\ IsFiniteSet(After(b)) /\ SamePlace(b) \in SUBSET After(b)
             /\ Cardinality(SamePlace(b)) <= Cardinality(After(b))
             /\ Cardinality(After(b)) \in Nat
  <2>1. After(b) \in SUBSET (mined \cup own) /\ SamePlace(b) \in SUBSET After(b)
    BY DEF SamePlace
  <2> HIDE DEF After
  <2>2. IsFiniteSet(After(b))
    BY <1>1, <2>1, FS_Subset
  <2> QED BY <2>1, <2>2, FS_Subset, FS_CardinalityType
<1>3. ASSUME NEW b \in mined
      PROVE  b.copy <= Cardinality(After(b))
  <2>1. b.copy <= Cardinality(SamePlace(b)) /\ b.copy \in Nat
    BY DEF Numbered, Typed, Blocks
  <2> HIDE DEF After
  <2> QED BY <1>2, <2>1, SamePlaceFinite
<1>4. ASSUME NEW b \in own
      PROVE  b.copy <= Cardinality(After(b))
  <2>1. b.owner \in Node /\ b.round \in Round /\ b.order \in Order
    BY DEF Blocks, Order
  <2>2. b \notin mined /\ b.copy = Cardinality(SamePlace(b)) + 1
    BY <2>1, NewBlockIsNew
  <2>3. b \notin SamePlace(b)
    BY <2>2 DEF SamePlace
  <2>4. SamePlace(b) \cup {b} \in SUBSET After(b)
    BY <1>2
  <2> HIDE DEF After
  <2>5. Cardinality(SamePlace(b) \cup {b}) = Cardinality(SamePlace(b)) + 1
    BY <2>3, SamePlaceFinite, FS_AddElement
  <2>6. Cardinality(SamePlace(b) \cup {b}) <= Cardinality(After(b))
    BY <1>2, <2>4, FS_Subset
  <2> QED BY <2>2, <2>5, <2>6
<1>5. \A b : After(b) = SamePlace(b)'
  BY DEF SamePlace
<1> HIDE DEF After
<1> QED BY <1>3, <1>4, <1>5 DEF Numbered

\* The leader's own blocks, mined when the round starts.
LEMMA OwnBlocksType ==
  ASSUME Typed, Numbered, NEW n \in Node, NEW gn \in Groups(Node)
  PROVE  /\ IsFiniteSet(OwnBlocks(n, gn))
         /\ OwnBlocks(n, gn) \cap mined = {}
         /\ \A b \in OwnBlocks(n, gn) :
              /\ b \in Blocks /\ b.owner = n /\ b.round = gn.round
              /\ b = NewBlock(b.owner, b.round, b.order)
<1> DEFINE D == {i \in DOMAIN Slots(gn.list) : Slots(gn.list)[i] = n}
           f == [o \in D |-> NewBlock(n, gn.round, o)]
<1>1. gn.list \in MemberLists(Node) /\ gn.round \in Round
  BY DEF Groups, Round
<1>2. TotalShare(gn.list) \in Nat /\ DOMAIN Slots(gn.list) = 1 .. TotalShare(gn.list)
  BY <1>1, SlotsType, OwnedFinite
<1>3. IsFiniteSet(1 .. TotalShare(gn.list)) /\ D \in SUBSET (1 .. TotalShare(gn.list))
  BY <1>2, UpToFinite
<1>4. D \in SUBSET Order
  BY <1>2 DEF Order
<1> HIDE DEF D
<1>5. IsFiniteSet(D)
  BY <1>3, FS_Subset
<1>6. IsFiniteSet({f[o] : o \in D})
  <2>1. DOMAIN f = D
    OBVIOUS
  <2> HIDE DEF f
  <2> QED BY <1>5, <2>1, FiniteImage
<1>7. OwnBlocks(n, gn) = {NewBlock(n, gn.round, o) : o \in D}
  BY DEF OwnBlocks, D
<1>8. {f[o] : o \in D} = OwnBlocks(n, gn)
  BY <1>7
<1>9. ASSUME NEW o \in D
      PROVE  LET b == NewBlock(n, gn.round, o)
             IN  /\ b \notin mined /\ b \in Blocks /\ b.owner = n
                 /\ b.round = gn.round /\ b.order = o
  BY <1>1, <1>4, NewBlockIsNew
<1> HIDE DEF f
<1>10. ASSUME NEW b \in OwnBlocks(n, gn)
       PROVE  /\ b \notin mined /\ b \in Blocks /\ b.owner = n /\ b.round = gn.round
              /\ b = NewBlock(b.owner, b.round, b.order)
  <2>1. PICK o \in D : b = NewBlock(n, gn.round, o)
    BY <1>7
  <2> QED BY <1>9, <2>1
<1> QED BY <1>6, <1>8, <1>10

-----------------------------------------------------------------------------
(***************************************************************************)
(* The inductive invariant.                                                *)
(***************************************************************************)

\* A node waits for votes on blocks of its own only.
Owners == \A n \in Node : \A b \in DOMAIN votes[n] : b.owner = n

IInv == Typed /\ Numbered /\ Owners /\ WaitingNotFull /\ FullImpliesWon

\* What StartIfReady leaves of IInv to show: everything but the channels.
AfterStart ==
    /\ g' \in [Node -> Groups(Node)] /\ \A n \in Node : SoundGroup(g[n])'
    /\ pre' \in [Node -> Queues]
    /\ mined' \in SUBSET Blocks /\ IsFiniteSet(mined') /\ mined \subseteq mined'
    /\ votes' \in [Node -> Counters(mined')]
    /\ Numbered' /\ Owners' /\ WaitingNotFull' /\ FullImpliesWon'

\* A group stays sound when its round is started.
LEMMA StartSound ==
  ASSUME NEW gn \in Groups(Node), SoundGroup(gn)
  PROVE  /\ [gn EXCEPT !.started = TRUE] \in Groups(Node)
         /\ SoundGroup([gn EXCEPT !.started = TRUE])
<1> DEFINE new == [gn EXCEPT !.started = TRUE]
<1>1. new \in Groups(Node)
  BY DEF Groups
<1>2. new.list = gn.list /\ new.count = gn.count /\ new.history = gn.history
      /\ new.round = gn.round
  BY DEF Groups
<1> HIDE DEF new
<1>3. SoundGroup(new)
  BY <1>2 DEF SoundGroup
<1> QED BY <1>1, <1>3 DEF new

\* The queue of slots the leader hands out.
LEMMA HandOutType ==
  ASSUME Typed, NEW n \in Node, NEW gn \in Groups(Node)
  PROVE  HandOut(n, gn) \in Queues
<1> DEFINE slots == Slots(gn.list)
           D == {i \in DOMAIN slots : slots[i] # n}
           more == [o \in D |-> [owner |-> slots[o], round |-> gn.round, sent |-> 0]]
<1>1. gn.list \in MemberLists(Node) /\ gn.round \in Round
  BY DEF Groups, Round
<1>2. slots \in [1 .. TotalShare(gn.list) -> Node] /\ TotalShare(gn.list) \in Nat
  BY <1>1, SlotsType, OwnedFinite
<1> HIDE DEF slots
<1>3. D \in SUBSET Order
  BY <1>2 DEF Order
<1>4. more \in [D -> [owner : Node, round : Round, sent : Nat]]
  BY <1>1, <1>2
<1>5. more \in Queues
  BY <1>3, <1>4 DEF Queues
<1>6. HandOut(n, gn) = Extend(pre[n], more)
  BY DEF HandOut, slots
<1>7. pre[n] \in Queues
  BY DEF Typed
<1> HIDE DEF more
<1> QED BY <1>5, <1>6, <1>7, ExtendQueues

\* Starting a round, or not, keeps the invariant.
LEMMA StartKeeps ==
  ASSUME IInv, NEW n \in Node, NEW gn \in Groups(Node), SoundGroup(gn),
         StartIfReady(n, gn), UNCHANGED full
  PROVE  AfterStart
<1> DEFINE ready == gn.count >= CONCURRENCY_BLOCKS
           own == IF ready /\ n = Leader THEN OwnBlocks(n, gn) ELSE {}
           mine == [b \in own |-> Share(gn.list, n)]
<1>0. Typed /\ Numbered /\ Owners /\ WaitingNotFull /\ FullImpliesWon
  BY DEF IInv
<1>1. /\ g' = [g EXCEPT ![n] = IF ready THEN [gn EXCEPT !.started = TRUE] ELSE gn]
      /\ mined' = mined \cup own
      /\ votes' = [votes EXCEPT ![n] = Extend(mine, votes[n])]
      /\ pre' = IF ready /\ n = Leader THEN [pre EXCEPT ![n] = HandOut(n, gn)] ELSE pre
  BY DEF StartIfReady
<1>2. /\ IsFiniteSet(own) /\ own \cap mined = {}
      /\ \A b \in own : /\ b \in Blocks /\ b.owner = n
                        /\ b = NewBlock(b.owner, b.round, b.order)
  BY <1>0, OwnBlocksType, FS_EmptySet
<1> HIDE DEF own
<1>3. Share(gn.list, n) \in Nat
  BY ShareType DEF Groups
<1>4. mine \in Counters(own) /\ DOMAIN mine = own
  BY <1>3 DEF Counters
<1> HIDE DEF mine
<1>5. g' \in [Node -> Groups(Node)] /\ \A k \in Node : SoundGroup(g[k])'
  <2>1. /\ [gn EXCEPT !.started = TRUE] \in Groups(Node)
        /\ SoundGroup([gn EXCEPT !.started = TRUE])
    BY StartSound
  <2> DEFINE new == IF ready THEN [gn EXCEPT !.started = TRUE] ELSE gn
  <2>2. new \in Groups(Node) /\ SoundGroup(new)
    BY <2>1
  <2>3. g' = [g EXCEPT ![n] = new]
    BY <1>1
  <2> HIDE DEF new
  <2>4. \A k \in Node : g'[k] = IF k = n THEN new ELSE g[k]
    BY <1>0, <2>3 DEF Typed
  <2>5. \A k \in Node : SoundGroup(g'[k])
    BY <1>0, <2>2, <2>4 DEF Typed
  <2>6. g' \in [Node -> Groups(Node)]
    BY <1>0, <2>2, <2>3 DEF Typed
  <2> QED BY <2>5, <2>6 DEF SoundGroup
<1>6. pre' \in [Node -> Queues]
  BY <1>0, <1>1, HandOutType DEF Typed
<1>7. mined' \in SUBSET Blocks /\ IsFiniteSet(mined') /\ mined \subseteq mined'
  BY <1>0, <1>1, <1>2, FS_Union DEF Typed
<1>8. /\ Extend(mine, votes[n]) \in Counters(mined')
      /\ DOMAIN Extend(mine, votes[n]) = own \cup DOMAIN votes[n]
  <2>1. votes[n] \in Counters(mined)
    BY <1>0 DEF Typed
  <2>2. own \cup mined = mined'
    BY <1>1
  <2>3. mine \in Counters(own)
    BY <1>4
  <2>4. Extend(mine, votes[n]) \in Counters(own \cup mined)
    BY <2>1, <2>3, ExtendCounters
  <2>5. DOMAIN Extend(mine, votes[n]) = DOMAIN mine \cup DOMAIN votes[n]
    BY DEF Extend
  <2> QED BY <1>4, <2>2, <2>4, <2>5
<1>9. votes' \in [Node -> Counters(mined')]
  <2>1. \A k \in Node : votes[k] \in Counters(mined')
    BY <1>0, <1>7, CounterType DEF Typed, Counters
  <2> QED BY <1>0, <1>1, <1>8, <2>1 DEF Typed
<1>10. Numbered'
  BY <1>0, <1>1, <1>2, NumberedKept
<1>11. \A k \in Node : DOMAIN votes'[k] = IF k = n THEN own \cup DOMAIN votes[n]
                                          ELSE DOMAIN votes[k]
  BY <1>0, <1>1, <1>8 DEF Typed
<1>12. Owners'
  BY <1>0, <1>2, <1>11 DEF Owners
<1>13. WaitingNotFull'
  BY <1>0, <1>2, <1>11 DEF WaitingNotFull, Typed
<1>14. FullImpliesWon'
  BY <1>0 DEF FullImpliesWon
<1> QED BY <1>5, <1>6, <1>7, <1>9, <1>10, <1>12, <1>13, <1>14 DEF AfterStart

-----------------------------------------------------------------------------
(***************************************************************************)
(* Each action keeps the invariant.                                        *)
(***************************************************************************)

\* miner.
LEMMA MineKeeps ==
  ASSUME IInv, NEW n \in Node, Mine(n)
  PROVE  IInv'
<1>0. Typed /\ g[n].round \in Round
  BY GroupFields DEF IInv
<1> DEFINE gn == Join(g[n], n, g[n].round)
<1>1. gn \in Groups(Node) /\ SoundGroup(gn)
  BY <1>0, GroupFields, JoinType, SoundKept DEF Round
<1>2. StartIfReady(n, gn) /\ UNCHANGED full
  BY DEF Mine
<1> HIDE DEF gn
<1>3. AfterStart
  BY <1>1, <1>2, StartKeeps
<1>4. mines' \in [Node -> 0 .. MaxMines]
  <2>1. mines[n] < MaxMines /\ mines' = [mines EXCEPT ![n] = mines[n] + 1]
    BY DEF Mine
  <2>2. mines \in [Node -> 0 .. MaxMines] /\ MaxMines \in Nat
    BY <1>0, RoundAssumption DEF Typed
  <2>3. mines[n] + 1 \in 0 .. MaxMines
    BY <2>1, <2>2
  <2> QED BY <2>1, <2>2, <2>3
<1>5. chan' \in [Node -> [Node -> Seq(Message)]]
  <2>1. Announce(g[n].round) \in Message
    BY <1>0, MessageTypes
  <2>2. chan \in [Node -> [Node -> Seq(Message)]]
    BY <1>0 DEF Typed
  <2>3. chan' = Send(chan, n, Node, Announce(g[n].round))
    BY DEF Mine
  <2> QED BY <2>1, <2>2, <2>3, SendKeeps
<1>6. voted' = voted /\ full' = full /\ crashed' = crashed
  BY DEF Mine
<1> QED BY <1>0, <1>3, <1>4, <1>5, <1>6 DEF AfterStart, IInv, Typed

\* Nothing but the channels and the nodes that crashed changes.
LEMMA ChannelsKeep ==
  ASSUME IInv, chan' \in [Node -> [Node -> Seq(Message)]], crashed' \in SUBSET Node,
         UNCHANGED <<g, mines, pre, mined, votes, voted, full>>
  PROVE  IInv'
<1>1. Typed'
  BY DEF IInv, Typed, SoundGroup
<1>2. Numbered'
  BY DEF IInv, Numbered, SamePlace
<1>3. Owners' /\ WaitingNotFull' /\ FullImpliesWon'
  BY DEF IInv, Owners, WaitingNotFull, FullImpliesWon
<1> QED BY <1>1, <1>2, <1>3 DEF IInv

\* #mining_succeed.
LEMMA ReceiveAnnounceKeeps ==
  ASSUME IInv, NEW n \in Node, NEW m \in Node, ReceiveAnnounce(n, m)
  PROVE  IInv'
<1> DEFINE r == Head(chan[m][n]).round
           gn == Join(g[n], m, r)
<1>0. Typed /\ chan[m][n] # <<>> /\ Head(chan[m][n]).type = "mining_succeed"
  BY DEF ReceiveAnnounce, Handles, IInv
<1>1. chan' \in [Node -> [Node -> Seq(Message)]]
  BY <1>0, TakenType DEF ReceiveAnnounce
<1>2. UNCHANGED <<mines, voted, full, crashed>>
  BY DEF ReceiveAnnounce
<1>3. CASE UNCHANGED <<g, mined, votes, pre>>
  BY <1>0, <1>1, <1>2, <1>3, ChannelsKeep DEF Typed
<1>4. CASE StartIfReady(n, gn)
  <2>1. r \in Nat \ {0}
    BY <1>0, HeadType DEF Round
  <2> HIDE DEF r
  <2>2. gn \in Groups(Node) /\ SoundGroup(gn)
    BY <1>0, <2>1, GroupFields, JoinType, SoundKept
  <2> HIDE DEF gn
  <2>3. AfterStart
    BY <1>2, <1>4, <2>2, StartKeeps
  <2> QED BY <1>0, <1>1, <1>2, <2>3 DEF AfterStart, IInv, Typed
<1> QED BY <1>3, <1>4 DEF ReceiveAnnounce

\* The queue of the leader changes, and channels.
LEMMA QueueKeeps ==
  ASSUME IInv, chan' \in [Node -> [Node -> Seq(Message)]], pre' \in [Node -> Queues],
         UNCHANGED <<g, mines, mined, votes, voted, full, crashed>>
  PROVE  IInv'
<1>1. Typed'
  BY DEF IInv, Typed, SoundGroup
<1>2. Numbered'
  BY DEF IInv, Numbered, SamePlace
<1>3. Owners' /\ WaitingNotFull' /\ FullImpliesWon'
  BY DEF IInv, Owners, WaitingNotFull, FullImpliesWon
<1> QED BY <1>1, <1>2, <1>3 DEF IInv

\* The poll of phase REQUEST.
LEMMA PollRequestKeeps ==
  ASSUME IInv, NEW n \in Node, NEW o \in DOMAIN pre[n], PollRequest(n, o)
  PROVE  IInv'
<1>0. Typed /\ pre[n] \in Queues
  BY DEF IInv, Typed
<1> DEFINE e == pre[n][o]
           new == [e EXCEPT !.sent = e.sent + 1]
<1>1. /\ e \in [owner : Node, round : Round, sent : Nat] /\ e.round \in Round
      /\ e.sent \in Nat /\ o \in Order
      /\ DOMAIN pre[n] \in SUBSET Order
      /\ pre[n] \in [DOMAIN pre[n] -> [owner : Node, round : Round, sent : Nat]]
  BY <1>0, QueueType
<1>2. chan' \in [Node -> [Node -> Seq(Message)]]
  <2>1. Request(o, e.round) \in Message
    BY <1>1, MessageTypes
  <2>2. chan \in [Node -> [Node -> Seq(Message)]]
    BY <1>0 DEF Typed
  <2>3. chan' = Send(chan, n, {e.owner}, Request(o, e.round))
    BY DEF PollRequest
  <2> QED BY <2>1, <2>2, <2>3, SendKeeps
<1>3. new \in [owner : Node, round : Round, sent : Nat]
  BY <1>1
<1>4. pre' = [pre EXCEPT ![n] = [pre[n] EXCEPT ![o] = new]]
  BY DEF PollRequest
<1> HIDE DEF new
<1>5. [pre[n] EXCEPT ![o] = new]
        \in [DOMAIN pre[n] -> [owner : Node, round : Round, sent : Nat]]
  BY <1>1, <1>3
<1>6. [pre[n] EXCEPT ![o] = new] \in Queues
  BY <1>1, <1>5 DEF Queues
<1>7. pre' \in [Node -> Queues]
  BY <1>0, <1>4, <1>6 DEF Typed
<1> QED BY <1>2, <1>7, QueueKeeps DEF PollRequest

\* #have_consensus_block.
LEMMA ReceiveReceivedKeeps ==
  ASSUME IInv, NEW n \in Node, NEW m \in Node, ReceiveReceived(n, m)
  PROVE  IInv'
<1>0. Typed /\ chan[m][n] # <<>> /\ pre[n] \in Queues
  BY DEF ReceiveReceived, Handles, IInv, Typed
<1>1. chan' \in [Node -> [Node -> Seq(Message)]]
  BY <1>0, TakenType DEF ReceiveReceived
<1> DEFINE D == DOMAIN pre[n] \ {Head(chan[m][n]).order}
<1>2. pre' = [pre EXCEPT ![n] = Restrict(pre[n], D)]
  BY DEF ReceiveReceived
<1>3. D \in SUBSET Order /\ D \subseteq DOMAIN pre[n]
  BY <1>0, QueueType
<1> HIDE DEF D
<1>4. Restrict(pre[n], D) \in [D -> [owner : Node, round : Round, sent : Nat]]
  BY <1>0, <1>3, QueueType DEF Restrict
<1>5. Restrict(pre[n], D) \in Queues
  BY <1>3, <1>4 DEF Queues
<1>6. pre' \in [Node -> Queues]
  BY <1>0, <1>2, <1>5 DEF Typed
<1> QED BY <1>1, <1>6, QueueKeeps DEF ReceiveReceived

\* #consensus_block: the block that is mined was not there before.
LEMMA ReceiveRequestKeeps ==
  ASSUME IInv, NEW n \in Node, NEW m \in Node, ReceiveRequest(n, m)
  PROVE  IInv'
<1> DEFINE msg == Head(chan[m][n])
           b == NewBlock(n, msg.round, msg.order)
           refused == (msg.round = g[n].round /\ ~g[n].started) \/ m # Leader
<1>0. /\ Typed /\ Numbered /\ Owners /\ WaitingNotFull /\ FullImpliesWon
      /\ chan[m][n] # <<>> /\ msg.type = "consensus_block"
      /\ UNCHANGED <<g, mines, pre, voted, full, crashed>>
  BY DEF ReceiveRequest, Handles, IInv
<1>1. msg.round \in Round /\ msg.order \in Order
  BY <1>0, HeadType
<1>2. Taken(n, m) \in [Node -> [Node -> Seq(Message)]]
  BY <1>0, TakenType
<1>3. CASE refused
  <2>1. chan' = Taken(n, m) /\ UNCHANGED <<mined, votes>>
    BY <1>3 DEF ReceiveRequest
  <2> QED BY <1>0, <1>2, <2>1, ChannelsKeep DEF Typed
<1>4. CASE ~ refused
  <2> DEFINE zero == [x \in {b} |-> 0]
  <2>1. /\ chan' = Send(Taken(n, m), n, {m}, Received(msg.order))
        /\ mined' = mined \cup {b}
        /\ votes' = [votes EXCEPT ![n] = Extend(zero, votes[n])]
    BY <1>4 DEF ReceiveRequest
  <2>2. b \in Blocks /\ b \notin mined /\ b.owner = n
        /\ b = NewBlock(b.owner, b.round, b.order)
    BY <1>0, <1>1, NewBlockIsNew
  <2> HIDE DEF b, msg
  <2>3. chan' \in [Node -> [Node -> Seq(Message)]]
    <3>1. Received(msg.order) \in Message
      BY <1>1, MessageTypes
    <3> QED BY <1>2, <2>1, <3>1, SendType
  <2>4. mined' \in SUBSET Blocks /\ IsFiniteSet(mined') /\ Numbered'
    <3>1. IsFiniteSet({b})
      BY FS_Singleton
    <3>2. IsFiniteSet(mined')
      BY <1>0, <2>1, <3>1, FS_Union DEF Typed
    <3>3. Numbered'
      BY <1>0, <2>1, <2>2, <3>1, NumberedKept
    <3> QED BY <1>0, <2>1, <2>2, <3>2, <3>3 DEF Typed
  <2>5. zero \in Counters({b}) /\ DOMAIN zero = {b}
    <3>1. zero \in [{b} -> Nat] /\ {b} \in SUBSET {b}
      OBVIOUS
    <3> QED BY <3>1 DEF Counters
  <2> HIDE DEF zero
  <2>6. Extend(zero, votes[n]) \in Counters(mined')
    <3>1. votes[n] \in Counters(mined) /\ {b} \cup mined = mined'
      BY <1>0, <2>1 DEF Typed
    <3>2. Extend(zero, votes[n]) \in Counters({b} \cup mined)
      BY <2>5, <3>1, ExtendCounters
    <3> QED BY <3>1, <3>2
  <2>7. votes' \in [Node -> Counters(mined')]
    <3>1. \A k \in Node : votes[k] \in Counters(mined')
      BY <1>0, <2>1, CounterType DEF Typed, Counters
    <3> QED BY <1>0, <2>1, <2>6, <3>1 DEF Typed
  <2>8. DOMAIN Extend(zero, votes[n]) = {b} \cup DOMAIN votes[n]
    BY <2>5 DEF Extend
  <2>9. \A k \in Node : DOMAIN votes'[k] = IF k = n THEN {b} \cup DOMAIN votes[n]
                                           ELSE DOMAIN votes[k]
    BY <1>0, <2>1, <2>8 DEF Typed
  <2>10. Owners'
    BY <1>0, <2>2, <2>9 DEF Owners
  <2>11. WaitingNotFull'
    <3>1. \A k \in Node : b \notin full[k] /\ full'[k] = full[k]
      BY <1>0, <2>2 DEF Typed
    <3> QED BY <1>0, <2>9, <3>1 DEF WaitingNotFull
  <2>12. FullImpliesWon'
    BY <1>0 DEF FullImpliesWon
  <2>13. Typed'
    BY <1>0, <2>1, <2>3, <2>4, <2>7 DEF Typed, SoundGroup
  <2> QED BY <2>4, <2>10, <2>11, <2>12, <2>13 DEF IInv
<1> QED BY <1>3, <1>4

\* The poll of phase VALIDATE.
LEMMA PollValidateKeeps ==
  ASSUME IInv, NEW n \in Node, NEW b \in DOMAIN votes[n], PollValidate(n, b)
  PROVE  IInv'
<1>0. Typed
  BY DEF IInv
<1>1. Ask(b) \in Message
  BY <1>0, CounterType, MessageTypes DEF Typed
<1>2. chan \in [Node -> [Node -> Seq(Message)]] /\ crashed \in SUBSET Node
  BY <1>0 DEF Typed
<1> DEFINE members == {m \in Node \ {n} : IsIn(g[n].list, m)}
<1>3. chan' = Send(chan, n, members, Ask(b))
      /\ UNCHANGED <<g, mines, pre, mined, votes, voted, full, crashed>>
  BY DEF PollValidate
<1> HIDE DEF members
<1>4. chan' \in [Node -> [Node -> Seq(Message)]]
  BY <1>1, <1>2, <1>3, SendType
<1> QED BY <1>2, <1>3, <1>4, ChannelsKeep

\* #verified_1: the round that is looked up is in the history.
LEMMA ReceiveAskKeeps ==
  ASSUME IInv, NEW n \in Node, NEW m \in Node, ReceiveAsk(n, m)
  PROVE  IInv'
<1> DEFINE b == Head(chan[m][n]).block
           old == b.round < g[n].round
           list == IF old THEN g[n].history[b.round] ELSE g[n].list
<1>0. /\ Typed /\ chan[m][n] # <<>> /\ Head(chan[m][n]).type = "verified_1"
      /\ UNCHANGED <<g, mines, pre, mined, votes, voted, full>>
  BY DEF ReceiveAsk, Handles, IInv
<1>1. b \in Blocks /\ b.round \in Round
  BY <1>0, HeadType DEF Blocks
<1>2. list \in MemberLists(Node)
  <2>1. old => b.round \in DOMAIN g[n].history
    BY <1>0, <1>1, GroupFields DEF SoundGroup, Round
  <2> QED BY <1>0, <2>1, GroupFields, GroupMapType
<1>3. Taken(n, m) \in [Node -> [Node -> Seq(Message)]]
  BY <1>0, TakenType
<1>4. \/ chan' = Taken(n, m) /\ UNCHANGED crashed
      \/ chan' = Taken(n, m) /\ crashed' = crashed \cup {n}
      \/ /\ IsIn(list, n) /\ UNCHANGED crashed
         /\ chan' = Send(Taken(n, m), n, {m}, Answer(b, Share(list, n)))
  BY DEF ReceiveAsk
<1> HIDE DEF list, b
<1>5. chan' \in [Node -> [Node -> Seq(Message)]] /\ crashed' \in SUBSET Node
  <2>1. IsIn(list, n) => Share(list, n) \in Nat \ {0}
    BY <1>2, ShareType
  <2>2. IsIn(list, n) => Answer(b, Share(list, n)) \in Message
    BY <1>1, <2>1, MessageTypes
  <2>3. IsIn(list, n) => Send(Taken(n, m), n, {m}, Answer(b, Share(list, n)))
                            \in [Node -> [Node -> Seq(Message)]]
    BY <1>3, <2>2, SendType
  <2> QED BY <1>0, <1>3, <1>4, <2>3 DEF Typed
<1> QED BY <1>0, <1>5, ChannelsKeep

\* A message is lost.
LEMMA LoseKeeps ==
  ASSUME IInv, NEW n \in Node, NEW m \in Node, Lose(m, n)
  PROVE  IInv'
<1>0. Typed /\ chan[m][n] # <<>>
  BY DEF Lose, IInv
<1>1. chan' \in [Node -> [Node -> Seq(Message)]] /\ crashed' \in SUBSET Node
  BY <1>0, TakenType DEF Lose, Typed
<1> QED BY <1>1, ChannelsKeep DEF Lose

\* What a connection holds after it has sent the last message again: the same
\* messages.
LEMMA RepeatType ==
  ASSUME Typed, NEW n \in Node, NEW m \in Node, Repeat(m, n)
  PROVE  /\ chan' \in [Node -> [Node -> Seq(Message)]]
         /\ chan[m][n] \in Seq(Message) /\ chan[m][n] # <<>>
         /\ Last(chan[m][n]) \in Message
         /\ \A a, b \in Node :
              chan'[a][b] = IF a = m /\ b = n
                            THEN Append(chan[m][n], Last(chan[m][n])) ELSE chan[a][b]
<1> DEFINE s == chan[m][n]
           more == Append(s, Last(s))
<1>1. chan \in [Node -> [Node -> Seq(Message)]] /\ s \in Seq(Message) /\ s # <<>>
  BY DEF Typed, Repeat
<1>2. Last(s) \in Message
  BY <1>1, EmptySeq, ElementOfSeq, LenProperties DEF Last
<1>3. more \in Seq(Message)
  BY <1>1, <1>2, AppendProperties
<1>4. chan' = [chan EXCEPT ![m] = [chan[m] EXCEPT ![n] = more]]
  BY <1>1 DEF Repeat
<1> HIDE DEF more
<1>5. \A a, b \in Node : chan'[a][b] = IF a = m /\ b = n THEN more ELSE chan[a][b]
  BY <1>1, <1>4
<1>6. chan' \in [Node -> [Node -> Seq(Message)]]
  BY <1>1, <1>3, <1>4
<1> QED BY <1>1, <1>2, <1>5, <1>6 DEF more

\* A message is sent again.
LEMMA RepeatKeeps ==
  ASSUME IInv, NEW n \in Node, NEW m \in Node, Repeat(m, n)
  PROVE  IInv'
<1>1. Typed /\ crashed' = crashed
  BY DEF IInv, Repeat
<1>2. chan' \in [Node -> [Node -> Seq(Message)]] /\ crashed' \in SUBSET Node
  BY <1>1, RepeatType DEF Typed
<1> QED BY <1>2, ChannelsKeep DEF Repeat

\* A node ends its round, or goes on.
LEMMA GroupsKept ==
  ASSUME Typed, NEW n \in Node,
         g' = [g EXCEPT ![n] = Advance(g[n])] \/ UNCHANGED g
  PROVE  g' \in [Node -> Groups(Node)] /\ \A k \in Node : SoundGroup(g[k])'
<1>1. Advance(g[n]) \in Groups(Node) /\ SoundGroup(Advance(g[n]))
  BY GroupFields, AdvanceType, SoundKept
<1>2. g \in [Node -> Groups(Node)] /\ \A k \in Node : SoundGroup(g[k])
  BY DEF Typed
<1>3. g' \in [Node -> Groups(Node)] /\ \A k \in Node : SoundGroup(g'[k])
  BY <1>1, <1>2
<1> QED BY <1>3 DEF SoundGroup

\* #answer_verified_1: a block that wins leaves the blocks that wait in the same step.
LEMMA ReceiveAnswerKeeps ==
  ASSUME IInv, NEW n \in Node, NEW m \in Node, ReceiveAnswer(n, m)
  PROVE  IInv'
<1> DEFINE msg == Head(chan[m][n])
           b == msg.block
           waiting == g[n].started /\ b \in DOMAIN votes[n]
           own == IF votes[n][b] = 0 THEN Share(g[n].list, n) ELSE 0
           sum == votes[n][b] + own + msg.votes
           counted == waiting /\ (votes[n][b] = 0 => IsIn(g[n].list, n))
<1>0. /\ Typed /\ Numbered /\ Owners /\ WaitingNotFull /\ FullImpliesWon
      /\ chan[m][n] # <<>> /\ msg.type = "answer_verified_1"
      /\ chan' = Taken(n, m) /\ UNCHANGED <<mines, pre, mined>>
  BY DEF ReceiveAnswer, Handles, IInv
<1>1. msg.votes \in Nat
  BY <1>0, HeadType
<1>2. chan' \in [Node -> [Node -> Seq(Message)]]
  BY <1>0, TakenType
<1>3. Numbered'
  BY <1>0 DEF Numbered, SamePlace
<1>4. CASE ~ counted
  <2>1. /\ crashed' = crashed \/ crashed' = crashed \cup {n}
        /\ UNCHANGED <<g, votes, voted, full>>
    BY <1>4 DEF ReceiveAnswer
  <2>2. crashed' \in SUBSET Node
    BY <1>0, <2>1 DEF Typed
  <2> QED BY <1>0, <1>2, <2>1, <2>2, ChannelsKeep
<1>5. CASE counted
  <2>0. b \in DOMAIN votes[n] /\ b \in mined /\ votes[n][b] \in Nat
        /\ votes[n] \in [DOMAIN votes[n] -> Nat] /\ DOMAIN votes[n] \in SUBSET mined
        /\ b.owner = n
    BY <1>0, <1>5, CounterType DEF Typed, Owners
  <2>1. voted' = voted \cup {<<b, m>>} /\ UNCHANGED crashed
    BY <1>5 DEF ReceiveAnswer
  <2>2. voted' \in SUBSET (mined' \X Node) /\ crashed' \in SUBSET Node
    BY <1>0, <2>0, <2>1 DEF Typed
  <2>3. sum \in Nat
    <3>1. g[n].list \in MemberLists(Node)
      BY <1>0, GroupFields
    <3>2. Share(g[n].list, n) \in Nat
      BY <3>1, ShareType
    <3>3. votes[n][b] \in Nat
      BY <2>0
    <3> HIDE DEF b, msg
    <3> QED BY <1>1, <3>2, <3>3
  <2>4. CASE sum >= Threshold
    <3> DEFINE rest == DOMAIN votes[n] \ {b}
    <3>1. /\ full' = [full EXCEPT ![n] = full[n] \cup {b}]
          /\ votes' = [votes EXCEPT ![n] = Restrict(votes[n], rest)]
          /\ g' = IF rest = {} THEN [g EXCEPT ![n] = Advance(g[n])] ELSE g
      BY <1>5, <2>4 DEF ReceiveAnswer, Win
    <3> HIDE DEF b, msg
    <3>2. g' \in [Node -> Groups(Node)] /\ \A k \in Node : SoundGroup(g[k])'
      BY <1>0, <3>1, GroupsKept
    <3>3. Restrict(votes[n], rest) \in Counters(mined)
          /\ DOMAIN Restrict(votes[n], rest) = rest
      <4>1. Restrict(votes[n], rest) \in [rest -> Nat] /\ rest \in SUBSET mined
        BY <2>0 DEF Restrict
      <4> QED BY <4>1 DEF Counters
    <3>4. /\ votes' \in [Node -> Counters(mined')]
          /\ full' \in [Node -> SUBSET mined']
      BY <1>0, <2>0, <3>1, <3>3 DEF Typed
    <3>5. \A k \in Node : DOMAIN votes'[k] = IF k = n THEN rest ELSE DOMAIN votes[k]
      BY <1>0, <3>1, <3>3 DEF Typed
    <3>6. \A k \in Node : full'[k] = IF k = n THEN full[n] \cup {b} ELSE full[k]
      BY <1>0, <3>1 DEF Typed
    <3>7. Owners' /\ WaitingNotFull'
      BY <1>0, <3>5, <3>6 DEF Owners, WaitingNotFull
    <3>8. FullImpliesWon'
      <4> SUFFICES ASSUME NEW k \in Node, NEW x \in full'[k]
                   PROVE  x \in full'[x.owner]
        BY DEF FullImpliesWon
      <4>1. CASE x \in full[k]
        <5>1. x \in full[x.owner] /\ x.owner \in Node
          BY <1>0, <4>1 DEF FullImpliesWon, Typed, Blocks
        <5> QED BY <3>6, <5>1
      <4>2. CASE x = b
        BY <2>0, <3>6, <4>2 DEF b
      <4> QED BY <3>6, <4>1, <4>2
    <3>9. Typed'
      BY <1>0, <1>2, <2>2, <3>2, <3>4 DEF Typed
    <3> QED BY <1>3, <3>7, <3>8, <3>9 DEF IInv
  <2>5. CASE ~ (sum >= Threshold)
    <3>1. votes' = [votes EXCEPT ![n] = [votes[n] EXCEPT ![b] = sum]]
          /\ UNCHANGED <<g, full>>
      BY <1>5, <2>5 DEF ReceiveAnswer
    <3> HIDE DEF b, sum
    <3>2. [votes[n] EXCEPT ![b] = sum] \in Counters(mined)
      <4>1. [votes[n] EXCEPT ![b] = sum] \in [DOMAIN votes[n] -> Nat]
        BY <2>0, <2>3
      <4> QED BY <2>0, <4>1 DEF Counters
    <3>3. votes' \in [Node -> Counters(mined')]
      BY <1>0, <3>1, <3>2 DEF Typed
    <3>4. \A k \in Node : DOMAIN votes'[k] = DOMAIN votes[k]
      BY <1>0, <3>1 DEF Typed
    <3>5. Owners' /\ WaitingNotFull' /\ FullImpliesWon'
      BY <1>0, <3>1, <3>4 DEF Owners, WaitingNotFull, FullImpliesWon
    <3>6. Typed'
      BY <1>0, <1>2, <2>2, <3>1, <3>3 DEF Typed, SoundGroup
    <3> QED BY <1>3, <3>5, <3>6 DEF IInv
  <2> QED BY <2>4, <2>5
<1> QED BY <1>4, <1>5

\* #full_block: what n takes from m is no block n waits for.
LEMMA ReceiveFullBlockKeeps ==
  ASSUME IInv, NEW n \in Node, NEW m \in Node, NEW b \in mined,
         ReceiveFullBlock(n, m, b)
  PROVE  IInv'
<1>0. /\ Typed /\ Numbered /\ Owners /\ WaitingNotFull /\ FullImpliesWon
      /\ b \in full[m] /\ b \notin full[n]
      /\ full' = [full EXCEPT ![n] = full[n] \cup {b}]
      /\ UNCHANGED <<mines, pre, mined, votes, voted, chan, crashed>>
  BY DEF ReceiveFullBlock, IInv
<1>1. g' \in [Node -> Groups(Node)] /\ \A k \in Node : SoundGroup(g[k])'
  <2>1. g' = [g EXCEPT ![n] = Advance(g[n])] \/ UNCHANGED g
    BY DEF ReceiveFullBlock
  <2> QED BY <1>0, <2>1, GroupsKept
<1>2. full' \in [Node -> SUBSET mined]
  BY <1>0 DEF Typed
<1>3. \A k \in Node : full'[k] = IF k = n THEN full[n] \cup {b} ELSE full[k]
  BY <1>0 DEF Typed
<1>4. b \in full[b.owner] /\ b.owner \in Node
  BY <1>0 DEF FullImpliesWon, Typed, Blocks
<1>5. b \notin DOMAIN votes[n]
  BY <1>0, <1>4 DEF Owners
<1>6. WaitingNotFull'
  BY <1>0, <1>3, <1>5 DEF WaitingNotFull
<1>7. FullImpliesWon'
  <2> SUFFICES ASSUME NEW k \in Node, NEW x \in full'[k]
               PROVE  x \in full'[x.owner]
    BY DEF FullImpliesWon
  <2>1. x \in full[k] \/ x = b
    BY <1>3
  <2>2. CASE x \in full[k]
    <3>1. x \in full[x.owner]
      BY <1>0, <2>2 DEF FullImpliesWon
    <3>2. mined \subseteq Blocks /\ full[k] \subseteq mined
      BY <1>0 DEF Typed
    <3>3. x.owner \in Node
      BY <2>2, <3>2 DEF Blocks
    <3> QED BY <1>3, <3>1, <3>3
  <2>3. CASE x = b
    BY <1>3, <1>4, <2>3
  <2> QED BY <2>1, <2>2, <2>3
<1>8. Owners' /\ Numbered'
  BY <1>0 DEF Owners, Numbered, SamePlace
<1>9. Typed'
  BY <1>0, <1>1, <1>2 DEF Typed
<1> QED BY <1>6, <1>7, <1>8, <1>9 DEF IInv

\* The invariant is inductive.
LEMMA IInvStep == IInv /\ [Next]_vars => IInv'
<1> SUFFICES ASSUME IInv, [Next]_vars
             PROVE  IInv'
  OBVIOUS
<1>1. ASSUME NEW n \in Node, Mine(n)
      PROVE  IInv'
  BY <1>1, MineKeeps
<1>2. ASSUME NEW n \in Node, NEW o \in DOMAIN pre[n], PollRequest(n, o)
      PROVE  IInv'
  BY <1>2, PollRequestKeeps
<1>3. ASSUME NEW n \in Node, NEW b \in DOMAIN votes[n], PollValidate(n, b)
      PROVE  IInv'
  BY <1>3, PollValidateKeeps
<1>4. ASSUME NEW n \in Node, NEW m \in Node, Receive(n, m)
      PROVE  IInv'
  BY <1>4, ReceiveAnnounceKeeps, ReceiveRequestKeeps, ReceiveReceivedKeeps,
     ReceiveAskKeeps, ReceiveAnswerKeeps DEF Receive
<1>5. ASSUME NEW n \in Node, NEW m \in Node, NEW b \in mined, ReceiveFullBlock(n, m, b)
      PROVE  IInv'
  BY <1>5, ReceiveFullBlockKeeps
<1>6. ASSUME NEW n \in Node, NEW m \in Node, Lose(m, n) \/ Repeat(m, n)
      PROVE  IInv'
  BY <1>6, LoseKeeps, RepeatKeeps
<1>7. CASE UNCHANGED vars
  BY <1>7, ChannelsKeep DEF vars, IInv, Typed
<1> QED BY <1>1, <1>2, <1>3, <1>4, <1>5, <1>6, <1>7 DEF Next

\* The program starts with the invariant: every node with the same group, and the
\* leader with the blocks of the round that runs.
LEMMA IInvInit == Init => IInv
<1> SUFFICES ASSUME Init
             PROVE  IInv
  OBVIOUS
<1> DEFINE slots == IF InitialGroup.started THEN Slots(InitialList) ELSE <<>>
           D == {i \in DOMAIN slots : slots[i] = Leader}
           rest == {i \in DOMAIN slots : slots[i] # Leader}
           blk(o) == [owner |-> Leader, round |-> 1, order |-> o, copy |-> 1]
           own == {blk(o) : o \in D}
<1>1. /\ g = [n \in Node |-> InitialGroup]
      /\ mines = [n \in Node |-> Share(InitialList, n)]
      /\ voted = {} /\ full = [n \in Node |-> {}] /\ crashed = {}
      /\ chan = [m \in Node |-> [n \in Node |-> <<>>]]
      /\ mined = own
      /\ votes = [n \in Node |-> [b \in {x \in own : n = Leader} |->
                                     Share(InitialList, n)]]
      /\ pre = [n \in Node |-> [o \in {i \in rest : n = Leader} |->
                                   [owner |-> slots[o], round |-> 1, sent |-> 0]]]
  BY DEF Init
<1>2. InitialList \in MemberLists(Node) /\ TotalShare(InitialList) \in Nat
      /\ Leader \in Node
  BY InitialListType, OwnedFinite, RoundAssumption
<1>3. InitialGroup = [round |-> 1, started |-> TotalShare(InitialList) >= CONCURRENCY_BLOCKS,
                      list |-> InitialList, count |-> TotalShare(InitialList),
                      history |-> EmptyMap, future |-> EmptyMap]
  <2> DEFINE total == TotalShare(InitialList)
             ready == total >= CONCURRENCY_BLOCKS
  <2>1. InitialGroup = [NewGroup EXCEPT !.list = InitialList, !.count = total,
                                        !.started = ready]
    BY DEF InitialGroup
  <2> HIDE DEF total, ready
  <2>2. InitialGroup = [round |-> 1, started |-> ready, list |-> InitialList,
                        count |-> total, history |-> EmptyMap, future |-> EmptyMap]
    BY <2>1 DEF NewGroup
  <2> QED BY <2>2 DEF total, ready
<1>4. EmptyMap \in GroupMaps(Node) /\ DOMAIN EmptyMap = {}
  <2>1. EmptyMap \in [{} -> MemberLists(Node)] /\ {} \in SUBSET (Nat \ {0})
    BY DEF EmptyMap
  <2> QED BY <2>1 DEF GroupMaps
<1>5. InitialGroup \in Groups(Node) /\ SoundGroup(InitialGroup)
  BY <1>2, <1>3, <1>4 DEF Groups, SoundGroup
<1>6. DOMAIN slots \in SUBSET Order /\ IsFiniteSet(DOMAIN slots)
      /\ \A o \in DOMAIN slots : slots[o] \in Node
  <2>1. Slots(InitialList) \in [1 .. TotalShare(InitialList) -> Node]
    BY <1>2, SlotsType
  <2>2. CASE InitialGroup.started
    <3>1. DOMAIN slots = 1 .. TotalShare(InitialList)
      BY <2>1, <2>2
    <3>2. IsFiniteSet(DOMAIN slots)
      BY <1>2, <3>1, UpToFinite
    <3> QED BY <1>2, <2>1, <2>2, <3>1, <3>2 DEF Order
  <2>3. CASE ~ InitialGroup.started
    <3>1. DOMAIN slots = {}
      BY <2>3
    <3> QED BY <3>1, FS_EmptySet
  <2> QED BY <2>2, <2>3
<1> HIDE DEF slots
<1>7. D \in SUBSET Order /\ IsFiniteSet(D) /\ rest \in SUBSET Order
  BY <1>6, FS_Subset
<1> HIDE DEF D
<1>8. own \in SUBSET Blocks /\ IsFiniteSet(own) /\ \A b \in own : b.owner = Leader /\ b.copy = 1
  <2>1. \A o \in D : blk(o) \in Blocks /\ blk(o).owner = Leader /\ blk(o).copy = 1
    BY <1>2, <1>7 DEF Blocks, Order, Round
  <2> DEFINE f == [o \in D |-> blk(o)]
  <2>2. IsFiniteSet({f[o] : o \in D})
    <3>1. DOMAIN f = D
      OBVIOUS
    <3> HIDE DEF f
    <3> QED BY <1>7, <3>1, FiniteImage
  <2>3. {f[o] : o \in D} = own
    OBVIOUS
  <2> QED BY <2>1, <2>2, <2>3
<1> HIDE DEF own
<1>9. \A n \in Node : votes[n] \in Counters(mined) /\ DOMAIN votes[n] \subseteq own
                     /\ (n # Leader => DOMAIN votes[n] = {})
  <2> TAKE n \in Node
  <2> DEFINE E == {x \in own : n = Leader}
  <2>1. Share(InitialList, n) \in Nat
    BY <1>2, ShareType
  <2>2. votes[n] \in [E -> Nat] /\ E \in SUBSET mined
    BY <1>1, <2>1
  <2> QED BY <1>1, <2>2 DEF Counters
<1>10. \A n \in Node : pre[n] \in Queues
  <2> TAKE n \in Node
  <2> DEFINE E == {i \in rest : n = Leader}
  <2>1. E \in SUBSET Order /\ \A o \in E : slots[o] \in Node
    BY <1>6, <1>7
  <2>2. pre[n] \in [E -> [owner : Node, round : Round, sent : Nat]]
    BY <1>1, <2>1 DEF Round
  <2> HIDE DEF E
  <2> QED BY <2>1, <2>2 DEF Queues
<1>11. Typed
  <2>1. g \in [Node -> Groups(Node)] /\ \A n \in Node : SoundGroup(g[n])
    BY <1>1, <1>5
  <2>2. mines \in [Node -> 0 .. MaxMines]
    BY <1>1, InitialListType
  <2>3. pre \in [Node -> Queues]
    <3>1. pre = [n \in Node |-> pre[n]]
      BY <1>1
    <3> QED BY <1>10, <3>1
  <2>4. votes \in [Node -> Counters(mined)]
    <3>1. votes = [n \in Node |-> votes[n]]
      BY <1>1
    <3> QED BY <1>9, <3>1
  <2>5. chan \in [Node -> [Node -> Seq(Message)]]
    BY <1>1
  <2>6. full \in [Node -> SUBSET mined] /\ voted \in SUBSET (mined \X Node)
        /\ crashed \in SUBSET Node
    BY <1>1
  <2> QED BY <1>1, <1>8, <2>1, <2>2, <2>3, <2>4, <2>5, <2>6 DEF Typed
<1>12. Numbered
  <2> SUFFICES ASSUME NEW b \in mined
               PROVE  b.copy <= Cardinality(SamePlace(b))
    BY DEF Numbered
  <2>1. b.copy = 1 /\ b \in SamePlace(b)
    BY <1>1, <1>8 DEF SamePlace
  <2>2. SamePlace(b) # {} /\ IsFiniteSet(SamePlace(b)) /\ Cardinality(SamePlace(b)) \in Nat
    BY <1>11, <2>1, SamePlaceFinite
  <2>3. Cardinality(SamePlace(b)) # 0
    BY <2>2, FS_EmptySet
  <2> QED BY <2>1, <2>2, <2>3
<1>13. Owners
  BY <1>8, <1>9 DEF Owners
<1>14. WaitingNotFull /\ FullImpliesWon
  BY <1>1 DEF WaitingNotFull, FullImpliesWon
<1> QED BY <1>11, <1>12, <1>13, <1>14 DEF IInv

-----------------------------------------------------------------------------
(***************************************************************************)
(* Theorems.                                                               *)
(***************************************************************************)

LEMMA Inductive == Spec => []IInv
BY IInvInit, IInvStep, PTL DEF Spec

\* How often a connection has sent a message twice.
Again == again \in [Node -> [Node -> 0 .. MaxRepeats]]

LEMMA AgainKept ==
  [Next]_vars => UNCHANGED again \/ \E n, m \in Node : Repeat(m, n)
<1> SUFFICES ASSUME [Next]_vars
             PROVE  UNCHANGED again \/ \E n, m \in Node : Repeat(m, n)
  OBVIOUS
<1>1. ASSUME NEW n \in Node, Mine(n)
      PROVE  UNCHANGED again
  BY <1>1 DEF Mine
<1>2. ASSUME NEW n \in Node, NEW o \in DOMAIN pre[n], PollRequest(n, o)
      PROVE  UNCHANGED again
  BY <1>2 DEF PollRequest
<1>3. ASSUME NEW n \in Node, NEW b \in DOMAIN votes[n], PollValidate(n, b)
      PROVE  UNCHANGED again
  BY <1>3 DEF PollValidate
<1>4. ASSUME NEW n \in Node, NEW m \in Node, Receive(n, m)
      PROVE  UNCHANGED again
  <2>1. CASE ReceiveAnnounce(n, m)
    BY <2>1 DEF ReceiveAnnounce
  <2>2. CASE ReceiveRequest(n, m)
    BY <2>2 DEF ReceiveRequest
  <2>3. CASE ReceiveReceived(n, m)
    BY <2>3 DEF ReceiveReceived
  <2>4. CASE ReceiveAsk(n, m)
    BY <2>4 DEF ReceiveAsk
  <2>5. CASE ReceiveAnswer(n, m)
    BY <2>5 DEF ReceiveAnswer
  <2> QED BY <1>4, <2>1, <2>2, <2>3, <2>4, <2>5 DEF Receive
<1>5. ASSUME NEW n \in Node, NEW m \in Node, NEW b \in mined, ReceiveFullBlock(n, m, b)
      PROVE  UNCHANGED again
  BY <1>5 DEF ReceiveFullBlock
<1>6. ASSUME NEW n \in Node, NEW m \in Node, Lose(m, n)
      PROVE  UNCHANGED again
  BY <1>6 DEF Lose
<1>7. CASE UNCHANGED vars
  BY <1>7 DEF vars
<1> QED BY <1>1, <1>2, <1>3, <1>4, <1>5, <1>6, <1>7 DEF Next

LEMMA AgainStep == Again /\ [Next]_vars => Again'
<1> SUFFICES ASSUME Again, [Next]_vars
             PROVE  Again'
  OBVIOUS
<1>1. CASE UNCHANGED again
  BY <1>1 DEF Again
<1>2. ASSUME NEW n \in Node, NEW m \in Node, Repeat(m, n)
      PROVE  Again'
  <2>1. /\ again[m][n] < MaxRepeats /\ again[m][n] \in 0 .. MaxRepeats
        /\ again' = [again EXCEPT ![m][n] = again[m][n] + 1]
    BY <1>2 DEF Repeat, Again
  <2>2. again[m][n] + 1 \in 0 .. MaxRepeats
    BY <2>1, RoundAssumption
  <2> QED BY <2>1, <2>2 DEF Again
<1> QED BY <1>1, <1>2, AgainKept

LEMMA AgainAlways == Spec => []Again
<1>1. Init => Again
  BY RoundAssumption DEF Init, Again
<1> QED BY <1>1, AgainStep, PTL DEF Spec

\* All variables keep their types, for any number of nodes and rounds: what is read
\* from the history in #verified_1 is a list, every slot has an owner, and counters
\* do not fall below zero.
THEOREM RoundTypes == Spec => []TypeOK
<1>1. Typed /\ Again => TypeOK
  <2> SUFFICES ASSUME Typed, Again
               PROVE  TypeOK
    OBVIOUS
  <2>1. ASSUME NEW n \in Node
        PROVE  /\ g[n].round \in Round /\ g[n].started \in BOOLEAN
               /\ g[n].list \in List /\ g[n].count \in Nat
               /\ \A r \in DOMAIN g[n].history : r \in Round /\ g[n].history[r] \in List
               /\ \A r \in DOMAIN g[n].future : r \in Round /\ g[n].future[r] \in List
    BY GroupFields, GroupMapType DEF MemberLists, List, Round
  <2>2. ASSUME NEW n \in Node, NEW o \in DOMAIN pre[n]
        PROVE  /\ o \in Nat \ {0}
               /\ pre[n][o] \in [owner : Node, round : Round, sent : Nat]
    BY QueueType DEF Typed, Order
  <2>3. ASSUME NEW n \in Node
        PROVE  /\ DOMAIN votes[n] \subseteq mined /\ full[n] \subseteq mined
               /\ \A b \in DOMAIN votes[n] : votes[n][b] \in Nat
               /\ \A m \in Node : chan[m][n] \in Seq(Message)
    BY CounterType DEF Typed
  <2>4. /\ mines \in [Node -> 0 .. MaxMines] /\ mined \subseteq Blocks
        /\ voted \subseteq mined \X Node /\ crashed \subseteq Node
    BY DEF Typed
  <2> QED BY <2>1, <2>2, <2>3, <2>4 DEF TypeOK, Again
<1> QED BY <1>1, Inductive, AgainAlways, PTL DEF IInv

\* The history of a node has an entry for every round it has left: the entry that
\* #verified_1 reads without a test is there.
THEOREM HistoryIsComplete == Spec => []HistoryComplete
<1>1. Typed => HistoryComplete
  BY DEF Typed, SoundGroup, HistoryComplete
<1> QED BY <1>1, Inductive, PTL DEF IInv

\* concurrency_block_numbers, which starts the round, is the number of blocks that
\* mine_Consensus_blocks hands out.
THEOREM CountIsNumberOfBlocks ==
  Spec => [](\A n \in Node : g[n].count = TotalShare(g[n].list))
<1>1. Typed => \A n \in Node : g[n].count = TotalShare(g[n].list)
  BY DEF Typed, SoundGroup
<1> QED BY <1>1, Inductive, PTL DEF IInv

\* No block waits for votes once it is full: neither the answers that come late nor
\* the full block that comes back from a peer can keep a round open.
THEOREM NoFullBlockWaits == Spec => []WaitingNotFull
BY Inductive, PTL DEF IInv

\* What any node holds as full its owner holds as full: it has won the vote.
THEOREM FullBlocksHaveWon == Spec => []FullImpliesWon
BY Inductive, PTL DEF IInv

-----------------------------------------------------------------------------
(***************************************************************************)
(* The first round.  Two more invariants, on what is on its way: the       *)
(* announcements a node has yet to count, and the slots between the leader *)
(* and the owners of the blocks.                                           *)
(***************************************************************************)

\* The messages in a channel, and how many of them announce the first round.
In(s) == {s[i] : i \in 1 .. Len(s)}
Announcements(s) == {i \in 1 .. Len(s) : s[i] = Announce(1)}
Unread(s) == Cardinality(Announcements(s))

\* What n has counted of m and what it has yet to read is what m announced and the
\* connection from m has sent twice, at most; and m announced at least one of them.
Within(k, m, n) == k <= mines[m] + again[m][n] /\ (k > 0 => mines[m] > 0)
Counted ==
    \A n, m \in Node :
       g[n].round = 1 => Within(Share(g[n].list, m) + Unread(chan[m][n]), m, n)

\* A block for slot o of the leader's first round has been mined by its owner.
MinedFor(o, m) == \E b \in mined : b.owner = m /\ b.round = 1 /\ b.order = o

\* Slot o of the round that the leader has started belongs to m.
Slot(o, m) ==
    LET slots == Slots(g[Leader].list)
    IN  g[Leader].started /\ o \in DOMAIN slots /\ slots[o] = m

\* While the leader is in its first round, what waits to be requested, what is
\* requested and what is acknowledged are slots of the group that started it, each
\* with its owner, and an acknowledged slot has its block.
Queued ==
    \A o \in DOMAIN pre[Leader] :
       Slot(o, pre[Leader][o].owner) /\ pre[Leader][o].round = 1
Requested ==
    \A m \in Node, o \in Order, r \in Round :
       Request(o, r) \in In(chan[Leader][m]) => Slot(o, m) /\ r = 1
Acknowledged ==
    \A m \in Node, o \in Order :
       Received(o) \in In(chan[m][Leader]) => Slot(o, m) /\ MinedFor(o, m)
FirstSlots == g[Leader].round = 1 => Queued /\ Requested /\ Acknowledged

LEMMA InChannel ==
  ASSUME NEW s \in Seq(Message)
  PROVE  /\ \A e \in Message : In(Append(s, e)) = In(s) \cup {e}
         /\ s # <<>> => In(Tail(s)) \subseteq In(s) /\ Head(s) \in In(s)
<1>1. Len(s) \in Nat
  BY LenProperties
<1>2. ASSUME NEW e \in Message
      PROVE  In(Append(s, e)) = In(s) \cup {e}
  <2>1. /\ Len(Append(s, e)) = Len(s) + 1 /\ Append(s, e)[Len(s) + 1] = e
        /\ \A i \in 1 .. Len(s) : Append(s, e)[i] = s[i]
    BY AppendProperties
  <2> DEFINE t == Append(s, e)
  <2> HIDE DEF t
  <2>2. 1 .. Len(t) = (1 .. Len(s)) \cup {Len(s) + 1}
    BY <1>1, <2>1 DEF t
  <2>3. \A x : x \in In(t) <=> x \in In(s) \cup {e}
    BY <2>1, <2>2 DEF In, t
  <2> QED BY <2>3 DEF t
<1>3. ASSUME s # <<>>
      PROVE  In(Tail(s)) \subseteq In(s) /\ Head(s) \in In(s)
  <2>1. /\ Len(Tail(s)) = Len(s) - 1
        /\ \A i \in 1 .. Len(Tail(s)) : Tail(s)[i] = s[i + 1]
    BY <1>3, HeadTailProperties
  <2>2. Len(s) # 0 /\ Head(s) = s[1]
    BY <1>3, EmptySeq
  <2>3. In(Tail(s)) \subseteq In(s)
    BY <1>1, <2>1 DEF In
  <2> QED BY <1>1, <2>2, <2>3 DEF In
<1> QED BY <1>2, <1>3

LEMMA UnreadType ==
  ASSUME NEW s \in Seq(Message)
  PROVE  IsFiniteSet(Announcements(s)) /\ Unread(s) \in Nat
<1>1. Announcements(s) \in SUBSET (1 .. Len(s)) /\ Len(s) \in Nat
  BY LenProperties DEF Announcements
<1>2. IsFiniteSet(Announcements(s))
  BY <1>1, UpToFinite, FS_Subset
<1> QED BY <1>2, FS_CardinalityType DEF Unread

\* Sending and reading an announcement of the first round, and any other message.
LEMMA UnreadAppend ==
  ASSUME NEW s \in Seq(Message), NEW e \in Message
  PROVE  Unread(Append(s, e)) = Unread(s) + (IF e = Announce(1) THEN 1 ELSE 0)
<1> DEFINE t == Append(s, e)
           new == Len(s) + 1
<1>1. /\ Len(s) \in Nat /\ Len(t) = new /\ t[new] = e
      /\ \A i \in 1 .. Len(s) : t[i] = s[i]
  BY LenProperties, AppendProperties
<1> HIDE DEF t
<1>2. 1 .. new = (1 .. Len(s)) \cup {new}
  BY <1>1
<1>3. Announcements(t) = Announcements(s) \cup (IF e = Announce(1) THEN {new} ELSE {})
  BY <1>1, <1>2 DEF Announcements
<1>4. new \notin Announcements(s)
  BY <1>1 DEF Announcements
<1>5. IsFiniteSet(Announcements(s)) /\ Unread(s) \in Nat
  BY UnreadType
<1>6. CASE e = Announce(1)
  BY <1>3, <1>4, <1>5, <1>6, FS_AddElement DEF Unread, t
<1>7. CASE e # Announce(1)
  <2>1. Announcements(t) = Announcements(s)
    BY <1>3, <1>7
  <2> QED BY <1>5, <1>7, <2>1 DEF Unread, t
<1> QED BY <1>6, <1>7

LEMMA UnreadTail ==
  ASSUME NEW s \in Seq(Message), s # <<>>
  PROVE  Unread(Tail(s)) = Unread(s) - (IF Head(s) = Announce(1) THEN 1 ELSE 0)
<1> DEFINE t == Tail(s)
           A == Announcements(s)
           B == Announcements(t)
           shift == [i \in B |-> i + 1]
<1>1. /\ Len(s) \in Nat \ {0} /\ Head(s) = s[1] /\ t \in Seq(Message)
      /\ Len(t) = Len(s) - 1 /\ \A i \in 1 .. Len(t) : t[i] = s[i + 1]
  BY EmptySeq, HeadTailProperties
<1> HIDE DEF t
<1>2. \A j \in A \ {1} : j - 1 \in B /\ shift[j - 1] = j
  BY <1>1 DEF Announcements
<1>3. \A i \in B : i \in Nat /\ i + 1 \in A \ {1}
  BY <1>1 DEF Announcements
<1>4. shift \in Bijection(B, A \ {1})
  <2>1. shift \in [B -> A \ {1}]
    BY <1>3
  <2>2. \A i, j \in B : shift[i] = shift[j] => i = j
    BY <1>3
  <2>3. \A j \in A \ {1} : \E i \in B : shift[i] = j
    BY <1>2
  <2> QED BY <2>1, <2>2, <2>3 DEF Bijection, Injection, Surjection, IsInjective
<1>5. IsFiniteSet(B) /\ IsFiniteSet(A) /\ Cardinality(A) \in Nat
  BY <1>1, UnreadType, FS_CardinalityType
<1>6. Cardinality(A \ {1}) = Cardinality(B)
  <2>1. ExistsBijection(B, A \ {1})
    BY <1>4 DEF ExistsBijection
  <2> QED BY <1>5, <2>1, FS_Bijection
<1>7. 1 \in A <=> Head(s) = Announce(1)
  BY <1>1 DEF Announcements
<1>8. Cardinality(A \ {1}) = IF 1 \in A THEN Cardinality(A) - 1 ELSE Cardinality(A)
  BY <1>5, FS_RemoveElement
<1> QED BY <1>5, <1>6, <1>7, <1>8 DEF Unread, t

\* Reading a message leaves no more announcements unread; sending any message but
\* such an announcement leaves them as they are.
LEMMA TakenUnread ==
  ASSUME Typed, NEW n \in Node, NEW m \in Node, chan[m][n] # <<>>
  PROVE  /\ \A a, b \in Node : Unread(Taken(n, m)[a][b]) <= Unread(chan[a][b])
         /\ Head(chan[m][n]) = Announce(1) =>
              Unread(Taken(n, m)[m][n]) = Unread(chan[m][n]) - 1
<1>1. \A a, b \in Node : chan[a][b] \in Seq(Message)
  BY DEF Typed
<1>2. \A a, b \in Node : Unread(chan[a][b]) \in Nat
  BY <1>1, UnreadType
<1>3. Unread(Tail(chan[m][n])) =
        Unread(chan[m][n]) - (IF Head(chan[m][n]) = Announce(1) THEN 1 ELSE 0)
  BY <1>1, UnreadTail
<1>4. \A a, b \in Node : Taken(n, m)[a][b] = IF a = m /\ b = n THEN Tail(chan[m][n])
                                              ELSE chan[a][b]
  BY TakenType
<1>5. Unread(chan[m][n]) \in Nat
  BY <1>2
<1>6. Unread(Taken(n, m)[m][n]) <= Unread(chan[m][n])
  BY <1>3, <1>4, <1>5
<1>7. ASSUME NEW a \in Node, NEW b \in Node
      PROVE  Unread(Taken(n, m)[a][b]) <= Unread(chan[a][b])
  <2>1. CASE a = m /\ b = n
    BY <1>6, <2>1
  <2>2. CASE ~ (a = m /\ b = n)
    <3>1. Taken(n, m)[a][b] = chan[a][b]
      BY <1>4, <2>2
    <3>2. Unread(chan[a][b]) \in Nat
      BY <1>2
    <3> QED BY <3>1, <3>2
  <2> QED BY <2>1, <2>2
<1> QED BY <1>3, <1>4, <1>7

\* Between ch and new, n has sent at most msg to every other node.
OneMore(ch, new, n, msg) ==
    \A a, b \in Node :
       \/ Unread(new[a][b]) = Unread(ch[a][b])
       \/ /\ a = n /\ b # n /\ msg = Announce(1)
          /\ Unread(new[a][b]) = Unread(ch[a][b]) + 1

LEMMA SendUnread ==
  ASSUME NEW ch \in [Node -> [Node -> Seq(Message)]], NEW n \in Node, NEW to,
         NEW msg \in Message
  PROVE  OneMore(ch, Send(ch, n, to, msg), n, msg)
<1>1. \A a, b \in Node : ch[a][b] \in Seq(Message)
  OBVIOUS
<1>2. \A a, b \in Node : Unread(ch[a][b]) \in Nat
  BY <1>1, UnreadType
<1>5. \A x, y \in Node : Send(ch, n, to, msg)[x][y] =
         IF x = n /\ y \in to \ {n} THEN Append(ch[x][y], msg) ELSE ch[x][y]
  <2> DEFINE row == [y \in Node |-> IF y \in to \ {n} THEN Append(ch[n][y], msg)
                                    ELSE ch[n][y]]
  <2>1. Send(ch, n, to, msg) = [ch EXCEPT ![n] = row]
    BY DEF Send
  <2> QED BY <2>1
<1> SUFFICES ASSUME NEW a \in Node, NEW b \in Node
             PROVE  \/ Unread(Send(ch, n, to, msg)[a][b]) = Unread(ch[a][b])
                    \/ /\ a = n /\ b # n /\ msg = Announce(1)
                       /\ Unread(Send(ch, n, to, msg)[a][b]) = Unread(ch[a][b]) + 1
  BY DEF OneMore
<1>3. CASE a = n /\ b \in to \ {n}
  <2>1. Send(ch, n, to, msg)[a][b] = Append(ch[a][b], msg)
    BY <1>3, <1>5
  <2>2. Unread(Append(ch[a][b], msg)) =
          Unread(ch[a][b]) + (IF msg = Announce(1) THEN 1 ELSE 0)
    BY <1>1, UnreadAppend
  <2>3. Unread(ch[a][b]) \in Nat
    BY <1>2
  <2> QED BY <1>3, <2>1, <2>2, <2>3
<1>4. CASE ~ (a = n /\ b \in to \ {n})
  <2>1. Send(ch, n, to, msg)[a][b] = ch[a][b]
    BY <1>4, <1>5
  <2>2. Unread(ch[a][b]) \in Nat
    BY <1>2
  <2> QED BY <1>4, <2>1, <2>2
<1> QED BY <1>3, <1>4

\* The other messages are no announcements.
LEMMA OtherMessages ==
  /\ \A o, r : Request(o, r) # Announce(1)
  /\ \A o : Received(o) # Announce(1)
  /\ \A b : Ask(b) # Announce(1)
  /\ \A b, v : Answer(b, v) # Announce(1)
  /\ \A r : r # 1 => Announce(r) # Announce(1)
BY DEF Announce, Request, Received, Ask, Answer

\* A step that announces nothing and counts nothing.
LEMMA QuietStep ==
  ASSUME Typed, Again, Counted, UNCHANGED <<mines, again>>,
         \A n \in Node : g'[n].round = 1 => g[n].round = 1 /\ g'[n].list = g[n].list,
         \A n, m \in Node : Unread(chan'[m][n]) <= Unread(chan[m][n])
                              /\ Unread(chan'[m][n]) \in Nat
  PROVE  Counted'
<1> SUFFICES ASSUME NEW n \in Node, NEW m \in Node, g'[n].round = 1
             PROVE  Within(Share(g'[n].list, m) + Unread(chan'[m][n]), m, n)
  BY DEF Counted, Within
<1>1. g[n].round = 1 /\ g'[n].list = g[n].list
  OBVIOUS
<1>2. Within(Share(g[n].list, m) + Unread(chan[m][n]), m, n)
  BY <1>1 DEF Counted
<1>3. Unread(chan'[m][n]) <= Unread(chan[m][n])
  OBVIOUS
<1>4. Share(g[n].list, m) \in Nat
  BY GroupFields, ShareType
<1>5. mines[m] \in Nat /\ again[m][n] \in Nat
  BY RoundAssumption DEF Typed, Again
<1>6. Unread(chan[m][n]) \in Nat /\ Unread(chan'[m][n]) \in Nat
  <2>1. chan[m][n] \in Seq(Message)
    BY DEF Typed
  <2> QED BY <2>1, UnreadType
<1> QED BY <1>1, <1>2, <1>3, <1>4, <1>5, <1>6 DEF Within

\* A round that starts keeps its number and its group.
LEMMA StartGroup ==
  ASSUME Typed, NEW n \in Node, NEW gn \in Groups(Node), StartIfReady(n, gn)
  PROVE  /\ g'[n].round = gn.round /\ g'[n].list = gn.list
         /\ g'[n].started = (gn.started \/ gn.count >= CONCURRENCY_BLOCKS)
         /\ \A k \in Node : k # n => g'[k] = g[k]
<1> DEFINE ready == gn.count >= CONCURRENCY_BLOCKS
           new == [gn EXCEPT !.started = TRUE]
<1>1. g' = [g EXCEPT ![n] = IF ready THEN new ELSE gn]
  BY DEF StartIfReady
<1>2. new.round = gn.round /\ new.list = gn.list /\ new.started = TRUE
      /\ gn.started \in BOOLEAN
  BY DEF Groups
<1> HIDE DEF new
<1>3. g'[n] = IF ready THEN new ELSE gn
  BY <1>1 DEF Typed
<1>4. \A k \in Node : k # n => g'[k] = g[k]
  BY <1>1 DEF Typed
<1> QED BY <1>2, <1>3, <1>4

\* The nodes' announcements, counted and unread, after the miner has made one.
LEMMA MineCounts ==
  ASSUME IInv, Again, Counted, NEW n \in Node, Mine(n)
  PROVE  Counted'
<1> DEFINE r == g[n].round
           gn == Join(g[n], n, r)
<1>0. Typed /\ r \in Round
  BY GroupFields DEF IInv
<1>1. /\ StartIfReady(n, gn) /\ mines' = [mines EXCEPT ![n] = mines[n] + 1]
      /\ chan' = Send(chan, n, Node, Announce(r)) /\ again' = again
  BY DEF Mine
<1>2. /\ gn \in Groups(Node) /\ gn.round = r
      /\ gn.list = g[n].list \/ gn.list = AddMember(g[n].list, n)
  BY <1>0, GroupFields, JoinType DEF Round
<1> HIDE DEF gn
<1>3. /\ g'[n].round = r /\ g'[n].list = gn.list
      /\ \A k \in Node : k # n => g'[k] = g[k]
  BY <1>0, <1>1, <1>2, StartGroup
<1>4. Announce(r) \in Message /\ (r # 1 => Announce(r) # Announce(1))
  BY <1>0, MessageTypes, OtherMessages
<1>5. chan \in [Node -> [Node -> Seq(Message)]]
  BY <1>0 DEF Typed
<1>6. \A a, b \in Node :
         \/ Unread(chan'[a][b]) = Unread(chan[a][b])
         \/ /\ a = n /\ b # n /\ Announce(r) = Announce(1)
            /\ Unread(chan'[a][b]) = Unread(chan[a][b]) + 1
  <2> DEFINE msg == Announce(r)
  <2>1. msg \in Message
    BY <1>4
  <2> HIDE DEF msg
  <2>2. OneMore(chan, Send(chan, n, Node, msg), n, msg)
    BY <1>5, <2>1, SendUnread
  <2> QED BY <1>1, <2>2 DEF msg, OneMore
<1> SUFFICES ASSUME NEW k \in Node, NEW m \in Node, g'[k].round = 1
             PROVE  LET more == Share(g'[k].list, m) + Unread(chan'[m][k])
                    IN  /\ more <= mines'[m] + again[m][k]
                        /\ more > 0 => mines'[m] > 0
  BY <1>1 DEF Counted, Within
<1>7. /\ mines[m] \in Nat /\ mines[n] \in Nat /\ again[m][k] \in Nat
      /\ mines'[m] = IF m = n THEN mines[m] + 1 ELSE mines[m]
  BY <1>0, <1>1, RoundAssumption DEF Typed, Again
<1>8. /\ Unread(chan[m][k]) \in Nat
      /\ \/ Unread(chan'[m][k]) = Unread(chan[m][k])
         \/ m = n /\ k # n /\ Unread(chan'[m][k]) = Unread(chan[m][k]) + 1
  <2>1. chan[m][k] \in Seq(Message)
    BY <1>5
  <2> QED BY <1>6, <2>1, UnreadType
<1>9. g[k].round = 1
  BY <1>3
<1>10. /\ Share(g[k].list, m) + Unread(chan[m][k]) <= mines[m] + again[m][k]
       /\ Share(g[k].list, m) + Unread(chan[m][k]) > 0 => mines[m] > 0
       /\ Share(g[k].list, m) \in Nat
  BY <1>0, <1>9, GroupFields, ShareType DEF Counted, Within
<1>11. CASE k # n
  <2>1. Share(g'[k].list, m) = Share(g[k].list, m)
    BY <1>3, <1>11
  <2> QED BY <1>7, <1>8, <1>10, <2>1
<1>12. CASE k = n
  <2>1. Share(AddMember(g[n].list, n), m) = IF m = n THEN Share(g[n].list, m) + 1
                                            ELSE Share(g[n].list, m)
    BY <1>0, GroupFields, AddMemberShare
  <2>2. Share(g'[k].list, m) <= IF m = n THEN Share(g[k].list, m) + 1
                                ELSE Share(g[k].list, m)
    BY <1>2, <1>3, <1>10, <1>12, <2>1
  <2>3. Share(g'[k].list, m) \in Nat
    BY <1>2, <1>3, <1>10, <1>12, <2>1
  <2> QED BY <1>7, <1>8, <1>10, <1>12, <2>2, <2>3
<1> QED BY <1>11, <1>12

\* An announcement that is read is counted once, or not at all.
LEMMA ReceiveAnnounceCounts ==
  ASSUME IInv, Again, Counted, NEW n \in Node, NEW m \in Node, ReceiveAnnounce(n, m)
  PROVE  Counted'
<1> DEFINE r == Head(chan[m][n]).round
           gn == Join(g[n], m, r)
<1>0. /\ Typed /\ chan[m][n] # <<>> /\ Head(chan[m][n]).type = "mining_succeed"
      /\ chan' = Taken(n, m) /\ UNCHANGED <<mines, again>>
  BY DEF ReceiveAnnounce, Handles, IInv
<1>1. chan' \in [Node -> [Node -> Seq(Message)]]
  BY <1>0, TakenType
<1>2. \A a, b \in Node : /\ Unread(chan'[a][b]) <= Unread(chan[a][b])
                         /\ Unread(chan'[a][b]) \in Nat
  <2>1. \A a, b \in Node : chan'[a][b] \in Seq(Message)
    BY <1>1
  <2>2. \A a, b \in Node : Unread(chan'[a][b]) \in Nat
    BY <2>1, UnreadType
  <2>3. \A a, b \in Node : Unread(Taken(n, m)[a][b]) <= Unread(chan[a][b])
    BY <1>0, TakenUnread
  <2> QED BY <1>0, <2>2, <2>3
<1>3. CASE UNCHANGED g
  BY <1>0, <1>2, <1>3, QuietStep
<1>4. CASE StartIfReady(n, gn)
  <2>1. r \in Nat \ {0} /\ Head(chan[m][n]) = Announce(r)
    <3>1. Head(chan[m][n]) \in Message /\ r \in Nat \ {0}
      BY <1>0, HeadType DEF Round
    <3> QED BY <1>0, <3>1 DEF Message, Announce
  <2>2. /\ gn \in Groups(Node) /\ gn.round = g[n].round
        /\ \/ gn.list = g[n].list
           \/ gn.list = AddMember(g[n].list, m) /\ r <= g[n].round
    <3> HIDE DEF r
    <3>1. g[n] \in Groups(Node)
      BY <1>0, GroupFields
    <3> QED BY <2>1, <3>1, JoinType
  <2> HIDE DEF gn, r
  <2>3. /\ g'[n].round = g[n].round /\ g'[n].list = gn.list
        /\ \A k \in Node : k # n => g'[k] = g[k]
    BY <1>0, <1>4, <2>2, StartGroup
  <2>4. CASE gn.list = g[n].list \/ g[n].round # 1
    <3>1. \A k \in Node : g'[k].round = 1 => g[k].round = 1 /\ g'[k].list = g[k].list
      BY <2>3, <2>4
    <3> QED BY <1>0, <1>2, <3>1, QuietStep
  <2>5. CASE gn.list = AddMember(g[n].list, m) /\ r <= 1 /\ g[n].round = 1
    <3>1. r = 1
      BY <2>1, <2>5
    <3>2. Unread(chan'[m][n]) = Unread(chan[m][n]) - 1
      BY <1>0, <2>1, <3>1, TakenUnread
    <3> SUFFICES ASSUME NEW k \in Node, NEW p \in Node, g'[k].round = 1
                 PROVE  Within(Share(g'[k].list, p) + Unread(chan'[p][k]), p, k)
      BY <1>0 DEF Counted, Within
    <3>3. g[k].round = 1
      BY <2>3
    <3>4. /\ Share(g[k].list, p) + Unread(chan[p][k]) <= mines[p] + again[p][k]
          /\ Share(g[k].list, p) + Unread(chan[p][k]) > 0 => mines[p] > 0
          /\ Share(g[k].list, p) \in Nat
      BY <1>0, <3>3, GroupFields, ShareType DEF Counted, Within
    <3>5. /\ mines[p] \in Nat /\ again[p][k] \in Nat
          /\ Unread(chan[p][k]) \in Nat /\ Unread(chan'[p][k]) \in Nat
          /\ Unread(chan'[p][k]) <= Unread(chan[p][k])
      <4>1. mines[p] \in Nat /\ again[p][k] \in Nat
        BY <1>0, RoundAssumption DEF Typed, Again
      <4>2. chan[p][k] \in Seq(Message)
        BY <1>0 DEF Typed
      <4> QED BY <1>2, <4>1, <4>2, UnreadType
    <3>6. CASE k # n
      <4>1. g'[k].list = g[k].list
        BY <2>3, <3>6
      <4> QED BY <3>4, <3>5, <4>1 DEF Within
    <3>7. CASE k = n
      <4>1. Share(g'[k].list, p) = IF p = m THEN Share(g[k].list, p) + 1
                                   ELSE Share(g[k].list, p)
        BY <1>0, <2>3, <2>5, <3>7, GroupFields, AddMemberShare
      <4>2. CASE p = m
        BY <3>2, <3>4, <3>5, <3>7, <4>1, <4>2 DEF Within
      <4>3. CASE p # m
        BY <3>4, <3>5, <4>1, <4>3 DEF Within
      <4> QED BY <4>2, <4>3
    <3> QED BY <3>6, <3>7
  <2>6. g[n].round \in Nat
    BY <1>0, GroupFields DEF Round
  <2> QED BY <2>2, <2>4, <2>5, <2>6
<1> QED BY <1>3, <1>4 DEF ReceiveAnnounce

\* Nothing is sent but messages that are no announcements of the first round.
LEMMA QuietSend ==
  ASSUME Typed, Again, Counted, UNCHANGED <<g, mines, again>>,
         NEW ch \in [Node -> [Node -> Seq(Message)]],
         ch = chan \/ \E n, m \in Node : chan[m][n] # <<>> /\ ch = Taken(n, m),
         NEW n \in Node, NEW to, NEW msg \in Message, msg # Announce(1),
         chan' = Send(ch, n, to, msg) \/ chan' = ch
  PROVE  Counted'
<1>1. \A a, b \in Node : /\ Unread(ch[a][b]) <= Unread(chan[a][b])
                         /\ Unread(ch[a][b]) \in Nat
  <2>1. \A a, b \in Node : ch[a][b] \in Seq(Message) /\ chan[a][b] \in Seq(Message)
    BY DEF Typed
  <2>2. \A a, b \in Node : Unread(ch[a][b]) \in Nat /\ Unread(chan[a][b]) \in Nat
    BY <2>1, UnreadType
  <2>3. CASE ch = chan
    BY <2>2, <2>3
  <2>4. CASE \E p, q \in Node : chan[q][p] # <<>> /\ ch = Taken(p, q)
    BY <2>2, <2>4, TakenUnread
  <2> QED BY <2>2, <2>3, <2>4
<1>2. OneMore(ch, Send(ch, n, to, msg), n, msg)
  BY SendUnread
<1>3. \A a, b \in Node : Unread(chan'[a][b]) = Unread(ch[a][b])
  <2>1. CASE chan' = ch
    BY <2>1
  <2>2. CASE chan' = Send(ch, n, to, msg)
    BY <1>2, <2>2 DEF OneMore
  <2> QED BY <2>1, <2>2
<1>4. \A a, b \in Node : /\ Unread(chan'[a][b]) <= Unread(chan[a][b])
                         /\ Unread(chan'[a][b]) \in Nat
  BY <1>1, <1>3
<1> QED BY <1>4, QuietStep

\* A message that is sent again is one more to count only if it is there already.
LEMMA RepeatCounts ==
  ASSUME IInv, Again, Counted, NEW n \in Node, NEW m \in Node, Repeat(m, n)
  PROVE  Counted'
<1>0. Typed
  BY DEF IInv
<1>1. PICK e \in Message : e = Last(chan[m][n])
  BY <1>0, RepeatType
<1>2. /\ chan[m][n] \in Seq(Message) /\ chan[m][n] # <<>>
      /\ \A a, b \in Node : chan'[a][b] = IF a = m /\ b = n
                                           THEN Append(chan[m][n], e) ELSE chan[a][b]
  BY <1>0, <1>1, RepeatType
<1>3. /\ UNCHANGED <<g, mines>> /\ again[m][n] \in Nat
      /\ again' = [again EXCEPT ![m][n] = again[m][n] + 1]
  BY RoundAssumption DEF Repeat, Again
<1>4. \A a, b \in Node : again'[a][b] = IF a = m /\ b = n THEN again[m][n] + 1
                                         ELSE again[a][b]
  BY <1>3 DEF Again
<1>5. Unread(chan[m][n]) \in Nat
  BY <1>2, UnreadType
<1>6. e = Announce(1) => Unread(chan[m][n]) > 0
  <2> SUFFICES ASSUME e = Announce(1)
               PROVE  Unread(chan[m][n]) > 0
    OBVIOUS
  <2>1. Len(chan[m][n]) \in Nat /\ Len(chan[m][n]) # 0
    BY <1>2, EmptySeq, LenProperties
  <2>2. Len(chan[m][n]) \in Announcements(chan[m][n])
    BY <1>1, <2>1 DEF Announcements, Last
  <2>3. IsFiniteSet(Announcements(chan[m][n])) /\ Announcements(chan[m][n]) # {}
    BY <1>2, <2>2, UnreadType
  <2> QED BY <1>5, <2>3, FS_EmptySet DEF Unread
<1>7. Unread(chan'[m][n]) = Unread(chan[m][n]) + (IF e = Announce(1) THEN 1 ELSE 0)
  BY <1>2, UnreadAppend
<1> SUFFICES ASSUME NEW k \in Node, NEW p \in Node, g[k].round = 1
             PROVE  LET more == Share(g[k].list, p) + Unread(chan'[p][k])
                    IN  more <= mines[p] + again'[p][k] /\ (more > 0 => mines[p] > 0)
  BY <1>3 DEF Counted, Within
<1>8. /\ Share(g[k].list, p) + Unread(chan[p][k]) <= mines[p] + again[p][k]
      /\ Share(g[k].list, p) + Unread(chan[p][k]) > 0 => mines[p] > 0
      /\ Share(g[k].list, p) \in Nat
  BY <1>0, GroupFields, ShareType DEF Counted, Within
<1>9. mines[p] \in Nat
  BY <1>0, RoundAssumption DEF Typed
<1>10. CASE p = m /\ k = n
  <2>1. again'[p][k] = again[m][n] + 1
    BY <1>4, <1>10
  <2> QED BY <1>3, <1>5, <1>6, <1>7, <1>8, <1>9, <1>10, <2>1
<1>11. CASE ~ (p = m /\ k = n)
  <2>1. again'[p][k] = again[p][k] /\ chan'[p][k] = chan[p][k]
    BY <1>2, <1>4, <1>11
  <2> QED BY <1>8, <2>1
<1> QED BY <1>10, <1>11

LEMMA CountedStep == IInv /\ Again /\ Counted /\ [Next]_vars => Counted'
<1> SUFFICES ASSUME IInv, Again, Counted, [Next]_vars
             PROVE  Counted'
  OBVIOUS
<1>0. Typed /\ chan \in [Node -> [Node -> Seq(Message)]]
  BY DEF IInv, Typed
<1>1. ASSUME NEW n \in Node, Mine(n)
      PROVE  Counted'
  BY <1>1, MineCounts
<1>2. ASSUME NEW n \in Node, NEW o \in DOMAIN pre[n], PollRequest(n, o)
      PROVE  Counted'
  <2> DEFINE msg == Request(o, pre[n][o].round)
  <2>1. chan' = Send(chan, n, {pre[n][o].owner}, msg) /\ UNCHANGED <<g, mines, again>>
    BY <1>2 DEF PollRequest
  <2>2. msg \in Message /\ msg # Announce(1)
    BY <1>0, QueueType, MessageTypes, OtherMessages DEF Typed
  <2> HIDE DEF msg
  <2> QED BY <1>0, <2>1, <2>2, QuietSend
<1>3. ASSUME NEW n \in Node, NEW b \in DOMAIN votes[n], PollValidate(n, b)
      PROVE  Counted'
  <2> DEFINE msg == Ask(b)
             members == {m \in Node \ {n} : IsIn(g[n].list, m)}
  <2>1. chan' = Send(chan, n, members, msg) /\ UNCHANGED <<g, mines, again>>
    BY <1>3 DEF PollValidate
  <2>2. msg \in Message /\ msg # Announce(1)
    BY <1>0, CounterType, MessageTypes, OtherMessages DEF Typed
  <2> HIDE DEF msg, members
  <2> QED BY <1>0, <2>1, <2>2, QuietSend
<1>4. ASSUME NEW n \in Node, NEW m \in Node, ReceiveAnnounce(n, m)
      PROVE  Counted'
  BY <1>4, ReceiveAnnounceCounts
<1>5. ASSUME NEW n \in Node, NEW m \in Node, ReceiveRequest(n, m)
      PROVE  Counted'
  <2> DEFINE msg == Received(Head(chan[m][n]).order)
             ch == Taken(n, m)
  <2>1. /\ chan[m][n] # <<>> /\ Head(chan[m][n]).type = "consensus_block"
        /\ chan' = ch \/ chan' = Send(ch, n, {m}, msg)
        /\ UNCHANGED <<g, mines, again>>
    BY <1>5 DEF ReceiveRequest, Handles
  <2>2. msg \in Message /\ msg # Announce(1)
    BY <1>0, <2>1, HeadType, MessageTypes, OtherMessages
  <2>3. ch \in [Node -> [Node -> Seq(Message)]]
    BY <1>0, <2>1, TakenType
  <2>4. \E p, q \in Node : chan[q][p] # <<>> /\ ch = Taken(p, q)
    BY <2>1
  <2> HIDE DEF msg, ch
  <2> QED BY <1>0, <2>1, <2>2, <2>3, <2>4, QuietSend
<1>6. ASSUME NEW n \in Node, NEW m \in Node, ReceiveAsk(n, m)
      PROVE  Counted'
  <2> DEFINE blk == Head(chan[m][n]).block
             ch == Taken(n, m)
             list == IF blk.round < g[n].round THEN g[n].history[blk.round] ELSE g[n].list
             msg == Answer(blk, Share(list, n))
  <2>1. /\ chan[m][n] # <<>> /\ Head(chan[m][n]).type = "verified_1"
        /\ chan' = ch \/ (IsIn(list, n) /\ chan' = Send(ch, n, {m}, msg))
        /\ UNCHANGED <<g, mines, again>>
    BY <1>6 DEF ReceiveAsk, Handles
  <2>2. blk \in Blocks /\ blk.round \in Round
    BY <1>0, <2>1, HeadType DEF Blocks
  <2>3. list \in MemberLists(Node)
    <3>1. blk.round < g[n].round => blk.round \in DOMAIN g[n].history
      BY <1>0, <2>2, GroupFields DEF SoundGroup, Round
    <3> QED BY <1>0, <3>1, GroupFields, GroupMapType
  <2>4. ch \in [Node -> [Node -> Seq(Message)]]
    BY <1>0, <2>1, TakenType
  <2>5. \E p, q \in Node : chan[q][p] # <<>> /\ ch = Taken(p, q)
    BY <2>1
  <2> HIDE DEF list, blk, ch
  <2>6. IsIn(list, n) => msg \in Message /\ msg # Announce(1)
    <3>1. IsIn(list, n) => Share(list, n) \in Nat \ {0}
      BY <2>3, ShareType
    <3> QED BY <2>2, <3>1, MessageTypes, OtherMessages
  <2> HIDE DEF msg
  <2>7. Received(1) \in Message /\ Received(1) # Announce(1)
    BY MessageTypes, OtherMessages DEF Order
  <2>8. CASE chan' = ch
    BY <1>0, <2>1, <2>4, <2>5, <2>7, <2>8, QuietSend
  <2>9. CASE IsIn(list, n) /\ chan' = Send(ch, n, {m}, msg)
    BY <1>0, <2>1, <2>4, <2>5, <2>6, <2>9, QuietSend
  <2> QED BY <2>1, <2>8, <2>9
<1>7. ASSUME UNCHANGED <<mines, again>>, UNCHANGED chan \/ \E n, m \in Node :
               chan[m][n] # <<>> /\ chan' = Taken(n, m),
             \A n \in Node : g'[n].round = 1 => g[n].round = 1 /\ g'[n].list = g[n].list
      PROVE  Counted'
  <2>1. \A a, b \in Node : chan[a][b] \in Seq(Message)
    BY <1>0
  <2>2. \A a, b \in Node : Unread(chan[a][b]) \in Nat
    BY <2>1, UnreadType
  <2>3. \A a, b \in Node : Unread(chan'[a][b]) <= Unread(chan[a][b])
                           /\ Unread(chan'[a][b]) \in Nat
    <3>1. CASE UNCHANGED chan
      BY <2>2, <3>1
    <3>2. ASSUME NEW n \in Node, NEW m \in Node, chan[m][n] # <<>>, chan' = Taken(n, m)
          PROVE  \A a, b \in Node : Unread(chan'[a][b]) <= Unread(chan[a][b])
                                    /\ Unread(chan'[a][b]) \in Nat
      <4>1. \A a, b \in Node : Taken(n, m)[a][b] \in Seq(Message)
        BY <1>0, <3>2, TakenType
      <4>2. \A a, b \in Node : Unread(Taken(n, m)[a][b]) \in Nat
        BY <4>1, UnreadType
      <4> QED BY <1>0, <3>2, <4>2, TakenUnread
    <3> QED BY <1>7, <3>1, <3>2
  <2> QED BY <1>0, <1>7, <2>3, QuietStep
<1>8. ASSUME NEW n \in Node, g' = [g EXCEPT ![n] = Advance(g[n])] \/ UNCHANGED g
      PROVE  \A k \in Node : g'[k].round = 1 => g[k].round = 1 /\ g'[k].list = g[k].list
  <2>1. Advance(g[n]).round = g[n].round + 1 /\ g[n].round \in Nat \ {0}
    BY <1>0, GroupFields, AdvanceType DEF Round
  <2>2. Advance(g[n]).round # 1
    BY <2>1
  <2>3. CASE UNCHANGED g
    BY <2>3
  <2>4. CASE g' = [g EXCEPT ![n] = Advance(g[n])]
    <3>1. \A k \in Node : g'[k] = IF k = n THEN Advance(g[n]) ELSE g[k]
      BY <1>0, <2>4 DEF Typed
    <3> QED BY <2>2, <3>1
  <2> QED BY <1>8, <2>3, <2>4
<1>9. ASSUME NEW n \in Node, NEW m \in Node, ReceiveAnswer(n, m)
      PROVE  Counted'
  <2>1. chan[m][n] # <<>> /\ chan' = Taken(n, m) /\ UNCHANGED <<mines, again>>
    BY <1>9 DEF ReceiveAnswer, Handles
  <2>2. g' = [g EXCEPT ![n] = Advance(g[n])] \/ UNCHANGED g
    BY <1>9 DEF ReceiveAnswer, Win
  <2> QED BY <1>7, <1>8, <2>1, <2>2
<1>10. ASSUME NEW n \in Node, NEW m \in Node, NEW b \in mined, ReceiveFullBlock(n, m, b)
       PROVE  Counted'
  <2>1. UNCHANGED <<mines, again, chan>>
        /\ (g' = [g EXCEPT ![n] = Advance(g[n])] \/ UNCHANGED g)
    BY <1>10 DEF ReceiveFullBlock
  <2> QED BY <1>7, <1>8, <2>1
<1>11. ASSUME NEW n \in Node, NEW m \in Node, ReceiveReceived(n, m) \/ Lose(m, n)
       PROVE  Counted'
  <2>1. chan[m][n] # <<>> /\ chan' = Taken(n, m) /\ UNCHANGED <<g, mines, again>>
    BY <1>11 DEF ReceiveReceived, Lose, Handles
  <2> QED BY <1>7, <2>1
<1>12. CASE UNCHANGED vars
  BY <1>7, <1>12 DEF vars
<1>13. ASSUME NEW n \in Node, NEW m \in Node, Receive(n, m)
       PROVE  Counted'
  BY <1>4, <1>5, <1>6, <1>9, <1>11, <1>13 DEF Receive
<1>14. ASSUME NEW n \in Node, NEW m \in Node, Repeat(m, n)
       PROVE  Counted'
  BY <1>14, RepeatCounts
<1> QED BY <1>1, <1>2, <1>3, <1>10, <1>11, <1>12, <1>13, <1>14 DEF Next

\* At the start nothing is on its way, and mines is what the group has counted.
LEMMA CountedInit == Init => Counted
<1> SUFFICES ASSUME Init, NEW n \in Node, NEW m \in Node
             PROVE  Within(Share(g[n].list, m) + Unread(chan[m][n]), m, n)
  BY DEF Counted
<1>0. again[m][n] = 0
  BY DEF Init
<1>1. g[n] = InitialGroup /\ mines[m] = Share(InitialList, m) /\ chan[m][n] = <<>>
  BY DEF Init
<1>2. InitialGroup.list = InitialList
  BY DEF InitialGroup, NewGroup
<1>3. Unread(<<>>) = 0
  <2>1. Announcements(<<>>) = {}
    BY DEF Announcements
  <2> QED BY <2>1, FS_EmptySet DEF Unread
<1>4. Share(InitialList, m) \in Nat
  BY InitialListType, RoundAssumption
<1> QED BY <1>0, <1>1, <1>2, <1>3, <1>4 DEF Within

\* While a node is in its first round, the share of a miner in miner_list is at most
\* the number of #mining_succeed the miner has announced and its connection has sent
\* twice, however late they arrive: a handler counts nothing twice by itself, and what
\* the connection repeats is the only excess.
THEOREM AnnouncementsCounted == Spec => []NotOvercounted
<1>1. IInv /\ Again /\ Counted => NotOvercounted
  <2> SUFFICES ASSUME IInv, Again, Counted,
                      NEW n \in Node, NEW m \in Node, g[n].round = 1
               PROVE  Share(g[n].list, m) <= mines[m] + again[m][n]
    BY DEF NotOvercounted
  <2>1. Share(g[n].list, m) + Unread(chan[m][n]) <= mines[m] + again[m][n]
    BY DEF Counted, Within
  <2>2. Typed /\ chan[m][n] \in Seq(Message)
    BY DEF IInv, Typed
  <2>3. mines[m] \in Nat /\ again[m][n] \in Nat
    BY <2>2, RoundAssumption DEF Typed, Again
  <2>4. Share(g[n].list, m) \in Nat /\ Unread(chan[m][n]) \in Nat
    BY <2>2, GroupFields, ShareType, UnreadType
  <2> QED BY <2>1, <2>3, <2>4
<1> QED BY <1>1, CountedInit, CountedStep, AgainAlways, Inductive, PTL DEF Spec

-----------------------------------------------------------------------------
(***************************************************************************)
(* The slots of the first round.                                           *)
(***************************************************************************)

\* new has the messages about slots that ch has, or fewer.
NoMoreSlots(ch, new) ==
    /\ \A m \in Node, o \in Order, r \in Round :
         Request(o, r) \in In(new[Leader][m]) => Request(o, r) \in In(ch[Leader][m])
    /\ \A m \in Node, o \in Order :
         Received(o) \in In(new[m][Leader]) => Received(o) \in In(ch[m][Leader])

\* Between ch and new, n has sent msg to some nodes in to.
OneMoreIn(ch, new, n, to, msg) ==
    \A a, b \in Node :
       \/ In(new[a][b]) = In(ch[a][b])
       \/ a = n /\ b \in to /\ In(new[a][b]) = In(ch[a][b]) \cup {msg}

LEMMA SendIn ==
  ASSUME NEW ch \in [Node -> [Node -> Seq(Message)]], NEW n \in Node, NEW to,
         NEW msg \in Message
  PROVE  OneMoreIn(ch, Send(ch, n, to, msg), n, to, msg)
<1> DEFINE row == [y \in Node |-> IF y \in to \ {n} THEN Append(ch[n][y], msg)
                                  ELSE ch[n][y]]
<1>1. Send(ch, n, to, msg) = [ch EXCEPT ![n] = row]
  BY DEF Send
<1>2. \A a, b \in Node : Send(ch, n, to, msg)[a][b] =
         IF a = n /\ b \in to \ {n} THEN Append(ch[a][b], msg) ELSE ch[a][b]
  BY <1>1
<1> SUFFICES ASSUME NEW a \in Node, NEW b \in Node
             PROVE  LET new == Send(ch, n, to, msg)
                    IN  \/ In(new[a][b]) = In(ch[a][b])
                        \/ /\ a = n /\ b \in to
                           /\ In(new[a][b]) = In(ch[a][b]) \cup {msg}
  BY DEF OneMoreIn
<1>3. CASE a = n /\ b \in to \ {n}
  <2>1. Send(ch, n, to, msg)[a][b] = Append(ch[a][b], msg)
    BY <1>2, <1>3
  <2>2. ch[a][b] \in Seq(Message)
    OBVIOUS
  <2>3. In(Append(ch[a][b], msg)) = In(ch[a][b]) \cup {msg}
    BY <2>2, InChannel
  <2> QED BY <1>3, <2>1, <2>3
<1>4. CASE ~ (a = n /\ b \in to \ {n})
  <2>1. Send(ch, n, to, msg)[a][b] = ch[a][b]
    BY <1>2, <1>4
  <2> QED BY <2>1
<1> QED BY <1>3, <1>4

\* Where a message comes from that is on its way after n has sent msg.
LEMMA OneMoreFrom ==
  ASSUME NEW ch, NEW new, NEW n, NEW to, NEW msg, OneMoreIn(ch, new, n, to, msg),
         NEW a \in Node, NEW b \in Node, NEW x \in In(new[a][b])
  PROVE  x \in In(ch[a][b]) \/ (a = n /\ b \in to /\ x = msg)
BY DEF OneMoreIn

\* The messages that are not about slots.
LEMMA NotAboutSlots ==
  /\ \A o, x, r : Request(o, r) # Announce(x) /\ Received(o) # Announce(x)
  /\ \A o, x, r : Request(o, r) # Ask(x) /\ Received(o) # Ask(x)
  /\ \A o, x, y, r : Request(o, r) # Answer(x, y) /\ Received(o) # Answer(x, y)
  /\ \A o, p, r : Request(o, r) # Received(p)
  /\ \A o, p, r, s : Request(o, r) = Request(p, s) => o = p /\ r = s
  /\ \A o, p : Received(o) = Received(p) => o = p
BY DEF Announce, Request, Received, Ask, Answer

LEMMA SendNoSlots ==
  ASSUME NEW ch \in [Node -> [Node -> Seq(Message)]], NEW n \in Node, NEW to,
         NEW msg \in Message,
         \A o, r : msg # Request(o, r) /\ msg # Received(o)
  PROVE  NoMoreSlots(ch, Send(ch, n, to, msg))
<1> DEFINE new == Send(ch, n, to, msg)
<1>1. OneMoreIn(ch, new, n, to, msg)
  BY SendIn
<1> HIDE DEF new
<1>2. \A a, b \in Node : In(new[a][b]) \subseteq In(ch[a][b]) \cup {msg}
  BY <1>1 DEF OneMoreIn
<1>3. NoMoreSlots(ch, new)
  BY <1>2, RoundAssumption DEF NoMoreSlots
<1> QED BY <1>3 DEF new

LEMMA TakenNoSlots ==
  ASSUME Typed, NEW n \in Node, NEW m \in Node, chan[m][n] # <<>>
  PROVE  NoMoreSlots(chan, Taken(n, m)) /\ Head(chan[m][n]) \in In(chan[m][n])
<1> DEFINE new == Taken(n, m)
<1>1. \A a, b \in Node : new[a][b] = IF a = m /\ b = n THEN Tail(chan[m][n])
                                     ELSE chan[a][b]
  BY TakenType
<1>2. chan[m][n] \in Seq(Message)
  BY DEF Typed
<1>3. In(Tail(chan[m][n])) \subseteq In(chan[m][n]) /\ Head(chan[m][n]) \in In(chan[m][n])
  BY <1>2, InChannel
<1> HIDE DEF new
<1>4. \A a, b \in Node : In(new[a][b]) \subseteq In(chan[a][b])
  BY <1>1, <1>3
<1>5. NoMoreSlots(chan, new)
  BY <1>4, RoundAssumption DEF NoMoreSlots
<1> QED BY <1>3, <1>5 DEF new

\* A message that is sent again adds none that is not on its way already.
LEMMA RepeatIn ==
  ASSUME Typed, NEW n \in Node, NEW m \in Node, Repeat(m, n)
  PROVE  /\ \A a, b \in Node : In(chan'[a][b]) = In(chan[a][b])
         /\ NoMoreSlots(chan, chan')
<1>1. PICK e \in Message : e = Last(chan[m][n])
  BY RepeatType
<1>2. /\ chan[m][n] \in Seq(Message) /\ chan[m][n] # <<>>
      /\ \A a, b \in Node : chan'[a][b] = IF a = m /\ b = n
                                           THEN Append(chan[m][n], e) ELSE chan[a][b]
  BY <1>1, RepeatType
<1>3. e \in In(chan[m][n])
  <2>1. Len(chan[m][n]) \in Nat /\ Len(chan[m][n]) # 0
    BY <1>2, EmptySeq, LenProperties
  <2> QED BY <1>1, <2>1 DEF In, Last
<1>4. In(Append(chan[m][n], e)) = In(chan[m][n])
  <2>1. In(Append(chan[m][n], e)) = In(chan[m][n]) \cup {e}
    BY <1>2, InChannel
  <2> QED BY <1>3, <2>1
<1>5. \A a, b \in Node : In(chan'[a][b]) = In(chan[a][b])
  BY <1>2, <1>4
<1>6. PICK new : new = chan'
  OBVIOUS
<1>7. \A a, b \in Node : In(new[a][b]) \subseteq In(chan[a][b])
  BY <1>5, <1>6
<1>8. NoMoreSlots(chan, new)
  BY <1>7, RoundAssumption DEF NoMoreSlots
<1> QED BY <1>5, <1>6, <1>8

\* A step that leaves the leader's group and queue alone, or ends its first round.
LEMMA SlotFrame ==
  ASSUME FirstSlots, SlotsKept, mined \subseteq mined', NoMoreSlots(chan, chan'),
         g'[Leader].round = 1 => g'[Leader] = g[Leader], pre'[Leader] = pre[Leader]
  PROVE  FirstSlots' /\ SlotsKept'
<1>1. SUFFICES ASSUME g'[Leader].round = 1
               PROVE  (Queued /\ Requested /\ Acknowledged)' /\ SlotsKept'
  BY DEF FirstSlots, SlotsKept
<1>2. g'[Leader] = g[Leader] /\ g[Leader].round = 1 /\ Queued /\ Requested /\ Acknowledged
  BY <1>1 DEF FirstSlots
<1>3. \A o, m : Slot(o, m)' = Slot(o, m)
  BY <1>2 DEF Slot
<1>4. \A o, m : MinedFor(o, m) => MinedFor(o, m)'
  BY DEF MinedFor
<1>5. Queued'
  BY <1>2, <1>3 DEF Queued
<1>6. Requested'
  BY <1>2, <1>3 DEF Requested, NoMoreSlots
<1>7. Acknowledged'
  BY <1>2, <1>3, <1>4 DEF Acknowledged, NoMoreSlots
<1>8. SlotsKept'
  BY <1>2 DEF SlotsKept
<1> QED BY <1>5, <1>6, <1>7, <1>8

\* What the leader has in its queue after it has handed out a round.
LEMMA HandOutEntries ==
  ASSUME Typed, NEW n \in Node, NEW gn \in Groups(Node)
  PROVE  LET q == HandOut(n, gn)
             slots == Slots(gn.list)
         IN  /\ DOMAIN q = DOMAIN pre[n] \cup {o \in DOMAIN slots : slots[o] # n}
             /\ \A o \in DOMAIN pre[n] : q[o] = pre[n][o]
             /\ \A o \in DOMAIN q \ DOMAIN pre[n] :
                  q[o].owner = slots[o] /\ q[o].round = gn.round
<1> DEFINE slots == Slots(gn.list)
           D == {o \in DOMAIN slots : slots[o] # n}
           more == [o \in D |-> [owner |-> slots[o], round |-> gn.round, sent |-> 0]]
<1> HIDE DEF slots
<1>1. HandOut(n, gn) = Extend(pre[n], more)
  BY DEF HandOut, slots
<1>2. DOMAIN more = D /\ \A o \in D : more[o].owner = slots[o] /\ more[o].round = gn.round
  OBVIOUS
<1> HIDE DEF more, D
<1> DEFINE q == Extend(pre[n], more)
<1>3. /\ DOMAIN q = DOMAIN pre[n] \cup D
      /\ \A o \in DOMAIN q : q[o] = IF o \in DOMAIN pre[n] THEN pre[n][o] ELSE more[o]
  BY <1>2 DEF Extend
<1> HIDE DEF q
<1>4. \A o \in DOMAIN q \ DOMAIN pre[n] : q[o].owner = slots[o] /\ q[o].round = gn.round
  BY <1>2, <1>3
<1> QED BY <1>1, <1>3, <1>4 DEF q, D, slots

\* The leader starts its first round, or joins somebody to it: every slot is mined or
\* in the queue, and the slots that were on their way are slots of the same group.
LEMMA StartSlots ==
  ASSUME IInv, FirstSlots, SlotsKept, NoMoreSlots(chan, chan'), NEW gn \in Groups(Node),
         StartIfReady(Leader, gn), gn.round = g[Leader].round,
         gn.started = g[Leader].started,
         g[Leader].round = 1 /\ g[Leader].started => gn.list = g[Leader].list
  PROVE  FirstSlots' /\ SlotsKept'
<1> DEFINE ready == gn.count >= CONCURRENCY_BLOCKS
           slots == Slots(gn.list)
<1>0. Typed /\ Numbered /\ Leader \in Node
  BY RoundAssumption DEF IInv
<1>1. /\ g'[Leader].round = gn.round /\ g'[Leader].list = gn.list
      /\ g'[Leader].started = (gn.started \/ ready)
  BY <1>0, StartGroup
<1>2. SUFFICES ASSUME g'[Leader].round = 1
               PROVE  (Queued /\ Requested /\ Acknowledged)' /\ SlotsKept'
  BY DEF FirstSlots, SlotsKept
<1>3. gn.round = 1 /\ g[Leader].round = 1 /\ Queued /\ Requested /\ Acknowledged
  BY <1>1, <1>2 DEF FirstSlots
<1>4. \A o, m : Slot(o, m) => Slot(o, m)'
  BY <1>1, <1>3 DEF Slot
<1>5. mined \subseteq mined'
  BY DEF StartIfReady
<1>6. \A o, m : MinedFor(o, m) => MinedFor(o, m)'
  BY <1>5 DEF MinedFor
<1>7. Requested'
  BY <1>3, <1>4 DEF Requested, NoMoreSlots
<1>8. Acknowledged'
  BY <1>3, <1>4, <1>6 DEF Acknowledged, NoMoreSlots
<1>9. CASE ~ ready
  <2>1. pre' = pre
    BY <1>9 DEF StartIfReady
  <2>2. Queued'
    BY <1>3, <1>4, <2>1 DEF Queued
  <2>3. SlotsKept'
    <3>1. CASE ~ g[Leader].started
      BY <1>1, <1>9, <3>1 DEF SlotsKept
    <3>2. CASE g[Leader].started
      <4>1. g'[Leader].list = g[Leader].list
        BY <1>1, <1>3, <3>2
      <4> QED BY <1>3, <1>5, <2>1, <3>2, <4>1 DEF SlotsKept
    <3> QED BY <3>1, <3>2
  <2> QED BY <1>7, <1>8, <2>2, <2>3
<1>10. CASE ready
  <2>0. PICK q : q = HandOut(Leader, gn)
    OBVIOUS
  <2>1. pre'[Leader] = q
    BY <1>0, <1>10, <2>0 DEF StartIfReady, Typed
  <2>2. /\ DOMAIN q = DOMAIN pre[Leader] \cup {o \in DOMAIN slots : slots[o] # Leader}
        /\ \A o \in DOMAIN pre[Leader] : q[o] = pre[Leader][o]
        /\ \A o \in DOMAIN q \ DOMAIN pre[Leader] :
             q[o].owner = slots[o] /\ q[o].round = gn.round
    BY <1>0, <2>0, HandOutEntries
  <2>3. g'[Leader].started /\ Slots(g'[Leader].list) = slots
    BY <1>1, <1>10
  <2> HIDE DEF slots
  <2>4. \A o \in DOMAIN q : Slot(o, q[o].owner)' /\ q[o].round = 1
    <3> TAKE o \in DOMAIN q
    <3>1. CASE o \in DOMAIN pre[Leader]
      <4>1. Slot(o, pre[Leader][o].owner) /\ pre[Leader][o].round = 1
        BY <1>3, <3>1 DEF Queued
      <4>2. q[o] = pre[Leader][o]
        BY <2>2, <3>1
      <4>3. Slot(o, q[o].owner)
        BY <4>1, <4>2
      <4> QED BY <1>4, <4>1, <4>2, <4>3
    <3>2. CASE o \notin DOMAIN pre[Leader]
      <4>1. o \in DOMAIN slots /\ q[o].owner = slots[o] /\ q[o].round = 1
        BY <1>3, <2>2, <3>2
      <4> QED BY <2>3, <4>1 DEF Slot
    <3> QED BY <3>1, <3>2
  <2>5. Queued'
    BY <2>1, <2>4 DEF Queued, Slot
  <2>6. \A o \in DOMAIN slots : slots[o] = Leader => MinedFor(o, Leader)'
    <3> TAKE o \in DOMAIN slots
    <3> HAVE slots[o] = Leader
    <3> DEFINE b == NewBlock(Leader, 1, o)
    <3>1. b \in mined'
      <4>1. mined' = mined \cup OwnBlocks(Leader, gn)
        BY <1>10 DEF StartIfReady
      <4>2. b \in OwnBlocks(Leader, gn)
        BY <1>3 DEF OwnBlocks, slots
      <4> QED BY <4>1, <4>2
    <3>2. b.owner = Leader /\ b.round = 1 /\ b.order = o
      BY DEF NewBlock
    <3> QED BY <3>1, <3>2 DEF MinedFor
  <2>7. SlotsKept'
    <3> SUFFICES ASSUME NEW o \in DOMAIN slots
                 PROVE  \/ o \in DOMAIN q /\ q[o].round = 1
                        \/ \E b \in mined' : /\ b.owner = slots[o]
                                             /\ b.round = 1 /\ b.order = o
      BY <2>1, <2>3 DEF SlotsKept
    <3>1. CASE slots[o] = Leader
      BY <2>6, <3>1 DEF MinedFor
    <3>2. CASE slots[o] # Leader
      BY <2>2, <2>4, <3>2
    <3> QED BY <3>1, <3>2
  <2> QED BY <1>7, <1>8, <2>5, <2>7
<1> QED BY <1>9, <1>10

\* The poll of phase REQUEST asks for slots that are in the queue.
LEMMA PollRequestSlots ==
  ASSUME IInv, FirstSlots, SlotsKept, NEW n \in Node, NEW o \in DOMAIN pre[n],
         PollRequest(n, o)
  PROVE  FirstSlots' /\ SlotsKept'
<1> DEFINE e == pre[n][o]
           new == [e EXCEPT !.sent = e.sent + 1]
           q == [pre[n] EXCEPT ![o] = new]
           msg == Request(o, e.round)
<1>0. Typed /\ pre[n] \in Queues /\ Leader \in Node
      /\ chan \in [Node -> [Node -> Seq(Message)]]
  BY RoundAssumption DEF IInv, Typed
<1>1. o \in Order /\ e.round \in Round /\ msg \in Message
      /\ e \in [owner : Node, round : Round, sent : Nat]
  BY <1>0, QueueType, MessageTypes
<1>2. /\ pre' = [pre EXCEPT ![n] = q]
      /\ chan' = Send(chan, n, {e.owner}, msg)
      /\ UNCHANGED <<g, mined>>
  BY DEF PollRequest
<1>3. new.owner = e.owner /\ new.round = e.round
  BY <1>1
<1> HIDE DEF new
<1>4. /\ DOMAIN q = DOMAIN pre[n]
      /\ \A x \in DOMAIN q : q[x].owner = pre[n][x].owner /\ q[x].round = pre[n][x].round
  BY <1>0, <1>3
<1> HIDE DEF q
<1>5. /\ DOMAIN pre'[Leader] = DOMAIN pre[Leader]
      /\ \A x \in DOMAIN pre[Leader] : /\ pre'[Leader][x].owner = pre[Leader][x].owner
                                       /\ pre'[Leader][x].round = pre[Leader][x].round
  <2>1. \A k \in Node : pre'[k] = IF k = n THEN q ELSE pre[k]
    BY <1>0, <1>2 DEF Typed
  <2> QED BY <1>0, <1>4, <2>1
<1>6. OneMoreIn(chan, chan', n, {e.owner}, msg)
  <2> HIDE DEF msg
  <2>1. OneMoreIn(chan, Send(chan, n, {e.owner}, msg), n, {e.owner}, msg)
    BY <1>0, <1>1, SendIn
  <2> QED BY <1>2, <2>1
<1>7. SUFFICES ASSUME g[Leader].round = 1
               PROVE  (Queued /\ Requested /\ Acknowledged)' /\ SlotsKept'
  BY <1>2 DEF FirstSlots, SlotsKept
<1>8. Queued /\ Requested /\ Acknowledged
  BY <1>7 DEF FirstSlots
<1>9. /\ \A p, m : Slot(p, m)' = Slot(p, m)
      /\ \A p, m : MinedFor(p, m)' = MinedFor(p, m)
  BY <1>2 DEF Slot, MinedFor
<1>10. Queued'
  BY <1>2, <1>5, <1>8 DEF Queued, Slot
<1>11. Requested'
  <2> SUFFICES ASSUME NEW m \in Node, NEW p \in Order, NEW r \in Round,
                      Request(p, r) \in In(chan'[Leader][m])
               PROVE  Slot(p, m) /\ r = 1
    BY <1>9 DEF Requested
  <2>1. \/ Request(p, r) \in In(chan[Leader][m])
        \/ n = Leader /\ m = e.owner /\ Request(p, r) = msg
    <3> HIDE DEF e, msg
    <3>1. Leader \in Node
      BY <1>0
    <3> QED BY <1>6, <3>1, OneMoreFrom
  <2>2. CASE Request(p, r) \in In(chan[Leader][m])
    BY <1>8, <2>2 DEF Requested
  <2>3. CASE n = Leader /\ m = e.owner /\ Request(p, r) = msg
    <3>1. p = o /\ r = e.round
      BY <2>3, NotAboutSlots
    <3> QED BY <1>8, <2>3, <3>1 DEF Queued
  <2> QED BY <2>1, <2>2, <2>3
<1>12. Acknowledged'
  <2> SUFFICES ASSUME NEW m \in Node, NEW p \in Order,
                      Received(p) \in In(chan'[m][Leader])
               PROVE  Slot(p, m) /\ MinedFor(p, m)
    BY <1>9 DEF Acknowledged
  <2>1. Received(p) \in In(chan[m][Leader]) \/ Received(p) = msg
    <3> HIDE DEF e, msg
    <3>1. Leader \in Node
      BY <1>0
    <3> QED BY <1>6, <3>1, OneMoreFrom
  <2>2. Received(p) \in In(chan[m][Leader])
    BY <2>1, NotAboutSlots
  <2> QED BY <1>8, <2>2 DEF Acknowledged
<1>13. SlotsKept'
  BY <1>2, <1>5 DEF SlotsKept
<1> QED BY <1>10, <1>11, <1>12, <1>13

\* #consensus_block: a slot is acknowledged with its block mined.
LEMMA ReceiveRequestSlots ==
  ASSUME IInv, FirstSlots, SlotsKept, NEW n \in Node, NEW m \in Node, ReceiveRequest(n, m)
  PROVE  FirstSlots' /\ SlotsKept'
<1> DEFINE msg == Head(chan[m][n])
           b == NewBlock(n, msg.round, msg.order)
           refused == (msg.round = g[n].round /\ ~g[n].started) \/ m # Leader
           ack == Received(msg.order)
           ch == Taken(n, m)
<1>0. /\ Typed /\ Leader \in Node /\ chan[m][n] # <<>> /\ msg.type = "consensus_block"
      /\ UNCHANGED <<g, pre>>
  BY RoundAssumption DEF ReceiveRequest, Handles, IInv
<1>1. msg.round \in Round /\ msg.order \in Order /\ msg = Request(msg.order, msg.round)
  <2>1. msg \in Message /\ msg.round \in Round /\ msg.order \in Order
    BY <1>0, HeadType
  <2> QED BY <1>0, <2>1 DEF Message, Request
<1>2. /\ ch \in [Node -> [Node -> Seq(Message)]] /\ NoMoreSlots(chan, ch)
      /\ msg \in In(chan[m][n])
  BY <1>0, TakenType, TakenNoSlots
<1>3. CASE refused
  <2>1. chan' = ch /\ mined' = mined
    BY <1>3 DEF ReceiveRequest
  <2> HIDE DEF ch
  <2> QED BY <1>0, <1>2, <2>1, SlotFrame
<1>4. CASE ~ refused
  <2>1. /\ chan' = Send(ch, n, {m}, ack) /\ mined' = mined \cup {b} /\ m = Leader
    BY <1>4 DEF ReceiveRequest
  <2>2. b.owner = n /\ b.round = msg.round /\ b.order = msg.order
    BY DEF NewBlock
  <2> HIDE DEF b, ch, msg
  <2>3. ack \in Message
    BY <1>1, MessageTypes
  <2> HIDE DEF ack
  <2>4. OneMoreIn(ch, chan', n, {m}, ack)
    BY <1>2, <2>1, <2>3, SendIn
  <2>5. SUFFICES ASSUME g[Leader].round = 1
                 PROVE  (Queued /\ Requested /\ Acknowledged)' /\ SlotsKept'
    BY <1>0 DEF FirstSlots, SlotsKept
  <2>6. Queued /\ Requested /\ Acknowledged
    BY <2>5 DEF FirstSlots
  <2>7. \A p, q : Slot(p, q)' = Slot(p, q)
    BY <1>0 DEF Slot
  <2>8. \A p, q : MinedFor(p, q) => MinedFor(p, q)'
    BY <2>1 DEF MinedFor
  <2>9. Queued'
    BY <1>0, <2>6 DEF Queued, Slot
  <2>10. Requested'
    <3> SUFFICES ASSUME NEW q \in Node, NEW p \in Order, NEW r \in Round,
                        Request(p, r) \in In(chan'[Leader][q])
                 PROVE  Slot(p, q) /\ r = 1
      BY <2>7 DEF Requested
    <3>1. Request(p, r) \in In(ch[Leader][q]) \/ Request(p, r) = ack
      BY <1>0, <2>4 DEF OneMoreIn
    <3>2. Request(p, r) # ack
      BY NotAboutSlots DEF ack
    <3>3. Request(p, r) \in In(chan[Leader][q])
      BY <1>2, <3>1, <3>2 DEF NoMoreSlots
    <3> QED BY <2>6, <3>3 DEF Requested
  <2>11. Acknowledged'
    <3> SUFFICES ASSUME NEW q \in Node, NEW p \in Order,
                        Received(p) \in In(chan'[q][Leader])
                 PROVE  Slot(p, q) /\ MinedFor(p, q)'
      BY <2>7 DEF Acknowledged
    <3>1. Received(p) \in In(ch[q][Leader]) \/ (q = n /\ Received(p) = ack)
      BY <1>0, <2>4 DEF OneMoreIn
    <3>2. CASE Received(p) \in In(ch[q][Leader])
      <4>1. Received(p) \in In(chan[q][Leader])
        BY <1>2, <3>2 DEF NoMoreSlots
      <4> QED BY <2>6, <2>8, <4>1 DEF Acknowledged
    <3>3. CASE q = n /\ Received(p) = ack
      <4>1. p = msg.order
        BY <3>3, NotAboutSlots DEF ack
      <4>2. Request(msg.order, msg.round) \in In(chan[Leader][n])
        BY <1>1, <1>2, <2>1
      <4>3. Slot(msg.order, n) /\ msg.round = 1
        BY <1>1, <2>6, <4>2 DEF Requested
      <4>4. MinedFor(p, q)'
        BY <2>1, <2>2, <3>3, <4>1, <4>3 DEF MinedFor
      <4> QED BY <3>3, <4>1, <4>3, <4>4
    <3> QED BY <3>1, <3>2, <3>3
  <2>12. SlotsKept'
    BY <1>0, <2>1 DEF SlotsKept
  <2> QED BY <2>9, <2>10, <2>11, <2>12
<1> QED BY <1>3, <1>4

\* #have_consensus_block: what leaves the queue has been mined.
LEMMA ReceiveReceivedSlots ==
  ASSUME IInv, FirstSlots, SlotsKept, NEW n \in Node, NEW m \in Node, ReceiveReceived(n, m)
  PROVE  FirstSlots' /\ SlotsKept'
<1> DEFINE msg == Head(chan[m][n])
           D == DOMAIN pre[n] \ {msg.order}
<1>0. /\ Typed /\ Leader \in Node /\ chan[m][n] # <<>> /\ msg.type = "have_consensus_block"
      /\ UNCHANGED <<g, mined>> /\ chan' = Taken(n, m)
      /\ pre' = [pre EXCEPT ![n] = Restrict(pre[n], D)]
  BY RoundAssumption DEF ReceiveReceived, Handles, IInv
<1>1. msg.order \in Order /\ msg = Received(msg.order)
  <2>1. msg \in Message /\ msg.order \in Order
    BY <1>0, HeadType
  <2> QED BY <1>0, <2>1 DEF Message, Received
<1>2. NoMoreSlots(chan, chan') /\ msg \in In(chan[m][n])
  BY <1>0, TakenNoSlots
<1> HIDE DEF msg
<1>3. CASE n # Leader
  <2>1. pre'[Leader] = pre[Leader]
    BY <1>0, <1>3 DEF Typed
  <2> QED BY <1>0, <1>2, <2>1, SlotFrame
<1>4. CASE n = Leader
  <2>1. /\ DOMAIN pre'[Leader] = D
        /\ \A x \in D : pre'[Leader][x] = pre[Leader][x]
    <3>1. pre'[Leader] = Restrict(pre[Leader], D)
      BY <1>0, <1>4 DEF Typed
    <3> QED BY <1>4, <3>1 DEF Restrict
  <2>2. SUFFICES ASSUME g[Leader].round = 1
                 PROVE  (Queued /\ Requested /\ Acknowledged)' /\ SlotsKept'
    BY <1>0 DEF FirstSlots, SlotsKept
  <2>3. Queued /\ Requested /\ Acknowledged
    BY <2>2 DEF FirstSlots
  <2>4. /\ \A p, q : Slot(p, q)' = Slot(p, q)
        /\ \A p, q : MinedFor(p, q)' = MinedFor(p, q)
    BY <1>0 DEF Slot, MinedFor
  <2>5. Queued'
    <3> SUFFICES ASSUME NEW x \in D
                 PROVE  Slot(x, pre[Leader][x].owner)' /\ pre[Leader][x].round = 1
      BY <2>1 DEF Queued, Slot
    <3> QED BY <1>0, <1>4, <2>1, <2>3 DEF Queued, Slot
  <2>6. Requested'
    BY <1>2, <2>3, <2>4 DEF Requested, NoMoreSlots
  <2>7. Acknowledged'
    BY <1>2, <2>3, <2>4 DEF Acknowledged, NoMoreSlots
  <2>8. Slot(msg.order, m) /\ MinedFor(msg.order, m)
    BY <1>1, <1>2, <1>4, <2>3 DEF Acknowledged
  <2>9. SlotsKept'
    <3> DEFINE slots == Slots(g[Leader].list)
    <3> DEFINE Kept(o) == \/ o \in D /\ pre[Leader][o].round = 1
                          \/ \E b \in mined : /\ b.owner = slots[o]
                                              /\ b.round = 1 /\ b.order = o
    <3>1. ASSUME g[Leader].started, NEW o \in DOMAIN slots
          PROVE  Kept(o)
      <4>1. CASE o = msg.order
        BY <2>8, <4>1 DEF Slot, MinedFor
      <4>2. CASE o # msg.order
        BY <1>4, <2>2, <3>1, <4>2 DEF SlotsKept
      <4> QED BY <4>1, <4>2
    <3>2. g' = g /\ mined' = mined
      BY <1>0
    <3> HIDE DEF D
    <3> QED BY <2>1, <3>1, <3>2 DEF SlotsKept
  <2> QED BY <2>5, <2>6, <2>7, <2>9
<1> QED BY <1>3, <1>4

\* Mine and #mining_succeed: the leader may start, any other node leaves it alone.
LEMMA JoinSlots ==
  ASSUME IInv, FirstSlots, SlotsKept, NEW n \in Node, NEW m \in Node, NEW r \in Nat \ {0},
         StartIfReady(n, Join(g[n], m, r)), NoMoreSlots(chan, chan')
  PROVE  FirstSlots' /\ SlotsKept'
<1> DEFINE gn == Join(g[n], m, r)
<1>0. Typed /\ Leader \in Node /\ g[n] \in Groups(Node)
  BY RoundAssumption, GroupFields DEF IInv
<1>1. /\ gn \in Groups(Node) /\ gn.round = g[n].round /\ gn.started = g[n].started
      /\ \/ gn.list = g[n].list
         \/ ~(r = g[n].round /\ g[n].started) /\ r <= g[n].round
  BY <1>0, JoinType
<1> HIDE DEF gn
<1>2. StartIfReady(n, gn)
  BY DEF gn
<1>3. CASE n = Leader
  <2>1. g[n].round = 1 /\ g[n].started => gn.list = g[n].list
    BY <1>1
  <2> QED BY <1>1, <1>2, <1>3, <2>1, StartSlots
<1>4. CASE n # Leader
  <2>1. g'[Leader] = g[Leader]
    BY <1>0, <1>1, <1>2, <1>4, StartGroup
  <2>2. mined \subseteq mined' /\ pre' = pre
    BY <1>2, <1>4 DEF StartIfReady
  <2> QED BY <2>1, <2>2, SlotFrame
<1> QED BY <1>3, <1>4

\* The first slots are kept by every step.
LEMMA SlotsStep == IInv /\ FirstSlots /\ SlotsKept /\ [Next]_vars => FirstSlots' /\ SlotsKept'
<1> SUFFICES ASSUME IInv, FirstSlots, SlotsKept, [Next]_vars
             PROVE  FirstSlots' /\ SlotsKept'
  OBVIOUS
<1>0. Typed /\ chan \in [Node -> [Node -> Seq(Message)]] /\ Leader \in Node
  BY RoundAssumption DEF IInv, Typed
<1>1. ASSUME NEW n \in Node, Mine(n)
      PROVE  FirstSlots' /\ SlotsKept'
  <2> DEFINE r == g[n].round
  <2>1. r \in Nat \ {0} /\ Announce(r) \in Message
    BY <1>0, GroupFields, MessageTypes DEF Round
  <2>2. chan' = Send(chan, n, Node, Announce(r)) /\ StartIfReady(n, Join(g[n], n, r))
    BY <1>1 DEF Mine
  <2>3. NoMoreSlots(chan, chan')
    <3> DEFINE msg == Announce(r)
    <3>1. \A o, x : msg # Request(o, x) /\ msg # Received(o)
      BY NotAboutSlots
    <3>2. msg \in Message /\ chan' = Send(chan, n, Node, msg)
      BY <2>1, <2>2
    <3> HIDE DEF msg
    <3>3. NoMoreSlots(chan, Send(chan, n, Node, msg))
      BY <1>0, <3>1, <3>2, SendNoSlots
    <3> QED BY <3>2, <3>3
  <2> HIDE DEF r
  <2> QED BY <2>1, <2>2, <2>3, JoinSlots
<1>2. ASSUME NEW n \in Node, NEW o \in DOMAIN pre[n], PollRequest(n, o)
      PROVE  FirstSlots' /\ SlotsKept'
  BY <1>2, PollRequestSlots
<1>3. ASSUME NEW n \in Node, NEW b \in DOMAIN votes[n], PollValidate(n, b)
      PROVE  FirstSlots' /\ SlotsKept'
  <2> DEFINE msg == Ask(b)
             members == {m \in Node \ {n} : IsIn(g[n].list, m)}
  <2>1. chan' = Send(chan, n, members, msg) /\ UNCHANGED <<g, pre, mined>>
    BY <1>3 DEF PollValidate
  <2>2. msg \in Message /\ \A o, x : msg # Request(o, x) /\ msg # Received(o)
    BY <1>0, CounterType, MessageTypes, NotAboutSlots DEF Typed
  <2> HIDE DEF msg, members
  <2>3. NoMoreSlots(chan, Send(chan, n, members, msg))
    BY <1>0, <2>2, SendNoSlots
  <2> QED BY <2>1, <2>3, SlotFrame
<1>4. ASSUME NEW n \in Node, NEW m \in Node, ReceiveAnnounce(n, m)
      PROVE  FirstSlots' /\ SlotsKept'
  <2> DEFINE r == Head(chan[m][n]).round
  <2>1. chan[m][n] # <<>> /\ Head(chan[m][n]).type = "mining_succeed"
        /\ chan' = Taken(n, m)
    BY <1>4 DEF ReceiveAnnounce, Handles
  <2>2. r \in Nat \ {0} /\ NoMoreSlots(chan, chan')
    BY <1>0, <2>1, HeadType, TakenNoSlots DEF Round
  <2>3. CASE UNCHANGED <<g, mined, votes, pre>>
    BY <2>2, <2>3, SlotFrame
  <2>4. CASE StartIfReady(n, Join(g[n], m, r))
    <3> HIDE DEF r
    <3> QED BY <2>2, <2>4, JoinSlots
  <2> QED BY <1>4, <2>3, <2>4 DEF ReceiveAnnounce
<1>5. ASSUME NEW n \in Node, NEW m \in Node, ReceiveRequest(n, m) \/ ReceiveReceived(n, m)
      PROVE  FirstSlots' /\ SlotsKept'
  BY <1>5, ReceiveRequestSlots, ReceiveReceivedSlots
<1>6. ASSUME NEW n \in Node, NEW m \in Node, ReceiveAsk(n, m)
      PROVE  FirstSlots' /\ SlotsKept'
  <2> DEFINE blk == Head(chan[m][n]).block
             ch == Taken(n, m)
             list == IF blk.round < g[n].round THEN g[n].history[blk.round] ELSE g[n].list
             msg == Answer(blk, Share(list, n))
  <2>1. /\ chan[m][n] # <<>> /\ Head(chan[m][n]).type = "verified_1"
        /\ chan' = ch \/ (IsIn(list, n) /\ chan' = Send(ch, n, {m}, msg))
        /\ UNCHANGED <<g, pre, mined>>
    BY <1>6 DEF ReceiveAsk, Handles
  <2>2. blk \in Blocks /\ blk.round \in Round
    BY <1>0, <2>1, HeadType DEF Blocks
  <2>3. list \in MemberLists(Node)
    <3>1. blk.round < g[n].round => blk.round \in DOMAIN g[n].history
      <4>1. SoundGroup(g[n]) /\ g[n].round \in Round
        BY <1>0, GroupFields
      <4> HIDE DEF blk
      <4> QED BY <2>2, <4>1 DEF SoundGroup, Round
    <3>2. g[n].list \in MemberLists(Node) /\ g[n].history \in GroupMaps(Node)
      BY <1>0, GroupFields
    <3>3. \A r \in DOMAIN g[n].history : g[n].history[r] \in MemberLists(Node)
      BY <3>2, GroupMapType
    <3> HIDE DEF blk
    <3> QED BY <3>1, <3>2, <3>3
  <2>4. ch \in [Node -> [Node -> Seq(Message)]] /\ NoMoreSlots(chan, ch)
    BY <1>0, <2>1, TakenType, TakenNoSlots
  <2> HIDE DEF list, blk, ch
  <2>5. IsIn(list, n) => msg \in Message
    <3>1. IsIn(list, n) => Share(list, n) \in Nat \ {0}
      BY <2>3, ShareType
    <3> QED BY <2>2, <3>1, MessageTypes
  <2>6. \A o, x : msg # Request(o, x) /\ msg # Received(o)
    BY NotAboutSlots
  <2> HIDE DEF msg
  <2>7. NoMoreSlots(chan, chan')
    <3>1. CASE chan' = ch
      BY <2>4, <3>1
    <3>2. CASE IsIn(list, n) /\ chan' = Send(ch, n, {m}, msg)
      <4>1. NoMoreSlots(ch, Send(ch, n, {m}, msg))
        BY <2>4, <2>5, <2>6, <3>2, SendNoSlots
      <4> QED BY <2>4, <3>2, <4>1 DEF NoMoreSlots
    <3> QED BY <2>1, <3>1, <3>2
  <2> QED BY <2>1, <2>7, SlotFrame
<1>7. ASSUME NEW n \in Node, g' = [g EXCEPT ![n] = Advance(g[n])] \/ UNCHANGED g
      PROVE  g'[Leader].round = 1 => g'[Leader] = g[Leader]
  <2>1. Advance(g[n]).round = g[n].round + 1 /\ g[n].round \in Nat \ {0}
    BY <1>0, GroupFields, AdvanceType DEF Round
  <2>2. Advance(g[n]).round # 1
    BY <2>1
  <2>3. CASE UNCHANGED g
    BY <2>3
  <2>4. CASE g' = [g EXCEPT ![n] = Advance(g[n])]
    <3>1. g'[Leader] = IF Leader = n THEN Advance(g[n]) ELSE g[Leader]
      BY <1>0, <2>4 DEF Typed
    <3> QED BY <2>2, <3>1
  <2> QED BY <1>7, <2>3, <2>4
<1>8. NoMoreSlots(chan, chan)
  BY DEF NoMoreSlots
<1>9. ASSUME NEW n \in Node, NEW m \in Node, ReceiveAnswer(n, m)
      PROVE  FirstSlots' /\ SlotsKept'
  <2>1. chan[m][n] # <<>> /\ chan' = Taken(n, m) /\ UNCHANGED <<pre, mined>>
    BY <1>9 DEF ReceiveAnswer, Handles
  <2>2. g' = [g EXCEPT ![n] = Advance(g[n])] \/ UNCHANGED g
    BY <1>9 DEF ReceiveAnswer, Win
  <2>3. NoMoreSlots(chan, chan')
    BY <1>0, <2>1, TakenNoSlots
  <2>4. g'[Leader].round = 1 => g'[Leader] = g[Leader]
    BY <1>7, <2>2
  <2> QED BY <2>1, <2>3, <2>4, SlotFrame
<1>10. ASSUME NEW n \in Node, NEW m \in Node, NEW b \in mined, ReceiveFullBlock(n, m, b)
       PROVE  FirstSlots' /\ SlotsKept'
  <2>1. UNCHANGED <<pre, mined, chan>>
        /\ (g' = [g EXCEPT ![n] = Advance(g[n])] \/ UNCHANGED g)
    BY <1>10 DEF ReceiveFullBlock
  <2>2. g'[Leader].round = 1 => g'[Leader] = g[Leader]
    BY <1>7, <2>1
  <2> QED BY <1>8, <2>1, <2>2, SlotFrame
<1>11. ASSUME NEW n \in Node, NEW m \in Node, Lose(m, n)
       PROVE  FirstSlots' /\ SlotsKept'
  <2>1. chan[m][n] # <<>> /\ chan' = Taken(n, m) /\ UNCHANGED <<g, pre, mined>>
    BY <1>11 DEF Lose
  <2>2. NoMoreSlots(chan, chan')
    BY <1>0, <2>1, TakenNoSlots
  <2> QED BY <2>1, <2>2, SlotFrame
<1>12. CASE UNCHANGED vars
  BY <1>8, <1>12, SlotFrame DEF vars
<1>13. ASSUME NEW n \in Node, NEW m \in Node, Receive(n, m)
       PROVE  FirstSlots' /\ SlotsKept'
  BY <1>4, <1>5, <1>6, <1>9, <1>13 DEF Receive
<1>14. ASSUME NEW n \in Node, NEW m \in Node, Repeat(m, n)
       PROVE  FirstSlots' /\ SlotsKept'
  <2>1. UNCHANGED <<g, pre, mined>>
    BY <1>14 DEF Repeat
  <2>2. NoMoreSlots(chan, chan')
    BY <1>0, <1>14, RepeatIn
  <2> QED BY <2>1, <2>2, SlotFrame
<1> QED BY <1>1, <1>2, <1>3, <1>10, <1>11, <1>12, <1>13, <1>14 DEF Next

\* At the start the leader's own blocks are mined and the other slots are queued.
LEMMA SlotsInit == Init => FirstSlots /\ SlotsKept
<1> SUFFICES ASSUME Init
             PROVE  FirstSlots /\ SlotsKept
  OBVIOUS
<1> DEFINE slots == IF InitialGroup.started THEN Slots(InitialList) ELSE <<>>
           blk(o) == [owner |-> Leader, round |-> 1, order |-> o, copy |-> 1]
           rest == {i \in DOMAIN slots : slots[i] # Leader}
<1>0. Leader \in Node
  BY RoundAssumption
<1>1. /\ g[Leader] = InitialGroup /\ g[Leader].list = InitialList
      /\ \A m, n \in Node : chan[m][n] = <<>>
      /\ mined = {blk(o) : o \in {i \in DOMAIN slots : slots[i] = Leader}}
      /\ pre[Leader] = [o \in rest |-> [owner |-> slots[o], round |-> 1, sent |-> 0]]
  BY <1>0 DEF Init, InitialGroup, NewGroup
<1>2. In(<<>>) = {}
  BY DEF In
<1>3. /\ DOMAIN pre[Leader] = rest
      /\ \A o \in rest : pre[Leader][o].owner = slots[o] /\ pre[Leader][o].round = 1
  BY <1>1
<1>4. DOMAIN slots # {} => InitialGroup.started /\ slots = Slots(InitialList)
  BY EmptySeq
<1> HIDE DEF slots
<1>5. Queued
  <2> SUFFICES ASSUME NEW o \in rest
               PROVE  Slot(o, slots[o])
    BY <1>3 DEF Queued
  <2> QED BY <1>1, <1>4 DEF Slot
<1>6. Requested /\ Acknowledged
  BY <1>0, <1>1, <1>2 DEF Requested, Acknowledged
<1>7. SlotsKept
  <2> SUFFICES ASSUME g[Leader].started, NEW o \in DOMAIN Slots(InitialList)
               PROVE  \/ o \in DOMAIN pre[Leader] /\ pre[Leader][o].round = 1
                      \/ \E b \in mined : /\ b.owner = Slots(InitialList)[o]
                                          /\ b.round = 1 /\ b.order = o
    BY <1>1 DEF SlotsKept
  <2>1. slots = Slots(InitialList)
    BY <1>1 DEF slots
  <2>2. CASE slots[o] # Leader
    BY <1>3, <2>1, <2>2
  <2>3. CASE slots[o] = Leader
    <3>1. blk(o) \in mined
      BY <1>1, <2>1, <2>3
    <3>2. blk(o).owner = Leader /\ blk(o).round = 1 /\ blk(o).order = o
      OBVIOUS
    <3> QED BY <2>1, <2>3, <3>1, <3>2
  <2> QED BY <2>2, <2>3
<1> QED BY <1>5, <1>6, <1>7 DEF FirstSlots

\* While the leader is in its first round no slot it has handed out gets lost: a slot
\* stays in pre_blocks until its owner has mined a block for it, whatever messages are
\* lost and however often announcements, requests or acknowledgements come.
THEOREM NoSlotIsLost == Spec => []SlotsKept
<1>1. Spec => [](FirstSlots /\ SlotsKept)
  BY SlotsInit, SlotsStep, Inductive, PTL DEF Spec
<1> QED BY <1>1, PTL

-----------------------------------------------------------------------------
(***************************************************************************)
(* The rounds go on, and null pointers.                                    *)
(***************************************************************************)

\* A group goes on in its round, and stays started, or begins the next one.
GoesOn(gn, new) ==
    \/ new.round = gn.round /\ (gn.started => new.started)
    \/ new.round = gn.round + 1

LEMMA GroupsGoOn ==
  ASSUME IInv, [Next]_vars, NEW n \in Node
  PROVE  GoesOn(g[n], g'[n])
<1>0. Typed
  BY DEF IInv
<1>1. ASSUME NEW k \in Node, NEW m \in Node, NEW r \in Round,
             StartIfReady(k, Join(g[k], m, r))
      PROVE  GoesOn(g[n], g'[n])
  <2> DEFINE gn == Join(g[k], m, r)
  <2>1. gn \in Groups(Node) /\ gn.round = g[k].round /\ gn.started = g[k].started
    <3>1. g[k] \in Groups(Node) /\ r \in Nat \ {0}
      BY <1>0, GroupFields DEF Round
    <3> QED BY <3>1, JoinType
  <2> HIDE DEF gn
  <2>2. /\ g'[k].round = gn.round
        /\ g'[k].started = (gn.started \/ gn.count >= CONCURRENCY_BLOCKS)
        /\ \A x \in Node : x # k => g'[x] = g[x]
    BY <1>0, <1>1, <2>1, StartGroup DEF gn
  <2>3. CASE n = k
    BY <2>1, <2>2, <2>3 DEF GoesOn
  <2>4. CASE n # k
    BY <2>2, <2>4 DEF GoesOn
  <2> QED BY <2>3, <2>4
<1>2. ASSUME NEW k \in Node, g' = [g EXCEPT ![k] = Advance(g[k])] \/ UNCHANGED g
      PROVE  GoesOn(g[n], g'[n])
  <2>1. Advance(g[k]).round = g[k].round + 1
    BY <1>0, GroupFields, AdvanceType
  <2> QED BY <1>0, <1>2, <2>1 DEF GoesOn, Typed
<1>3. ASSUME NEW k \in Node, Mine(k) PROVE GoesOn(g[n], g'[n])
  BY <1>0, <1>1, <1>3, GroupFields DEF Mine
<1>4. ASSUME NEW k \in Node, NEW m \in Node, ReceiveAnnounce(k, m)
      PROVE  GoesOn(g[n], g'[n])
  <2>1. Head(chan[m][k]).round \in Round
    BY <1>0, <1>4, HeadType DEF ReceiveAnnounce, Handles
  <2>2. UNCHANGED g \/ StartIfReady(k, Join(g[k], m, Head(chan[m][k]).round))
    BY <1>4 DEF ReceiveAnnounce
  <2> QED BY <1>1, <1>2, <2>1, <2>2
<1>5. ASSUME NEW k \in Node, NEW m \in Node, ReceiveAnswer(k, m)
      PROVE  GoesOn(g[n], g'[n])
  <2>1. g' = [g EXCEPT ![k] = Advance(g[k])] \/ UNCHANGED g
    BY <1>5 DEF ReceiveAnswer, Win
  <2> QED BY <1>2, <2>1
<1>6. ASSUME NEW k \in Node, NEW m \in Node, NEW b \in mined, ReceiveFullBlock(k, m, b)
      PROVE  GoesOn(g[n], g'[n])
  <2>1. g' = [g EXCEPT ![k] = Advance(g[k])] \/ UNCHANGED g
    BY <1>6 DEF ReceiveFullBlock
  <2> QED BY <1>2, <2>1
<1>7. ASSUME UNCHANGED g PROVE GoesOn(g[n], g'[n])
  BY <1>7 DEF GoesOn
<1>8. ASSUME NEW k \in Node, NEW m \in Node, Receive(k, m)
      PROVE  GoesOn(g[n], g'[n])
  <2>1. CASE ReceiveAnnounce(k, m)
    BY <1>4, <2>1
  <2>2. CASE ReceiveAnswer(k, m)
    BY <1>5, <2>2
  <2>3. CASE ReceiveRequest(k, m) \/ ReceiveReceived(k, m) \/ ReceiveAsk(k, m)
    BY <1>7, <2>3 DEF ReceiveRequest, ReceiveReceived, ReceiveAsk
  <2> QED BY <1>8, <2>1, <2>2, <2>3 DEF Receive
<1>9. CASE Next
  <2>1. CASE \E k \in Node : Mine(k)
    BY <1>3, <2>1
  <2>2. CASE \E k \in Node : \E o \in DOMAIN pre[k] : PollRequest(k, o)
    BY <1>7, <2>2 DEF PollRequest
  <2>3. CASE \E k \in Node : \E b \in DOMAIN votes[k] : PollValidate(k, b)
    BY <1>7, <2>3 DEF PollValidate
  <2>4. CASE \E k, m \in Node : Receive(k, m)
    BY <1>8, <2>4
  <2>5. CASE \E k, m \in Node : \E b \in mined : ReceiveFullBlock(k, m, b)
    BY <1>6, <2>5
  <2>6. CASE \E k, m \in Node : Lose(m, k) \/ Repeat(m, k)
    BY <1>7, <2>6 DEF Lose, Repeat
  <2> QED BY <1>9, <2>1, <2>2, <2>3, <2>4, <2>5, <2>6 DEF Next
<1>10. CASE UNCHANGED vars
  BY <1>7, <1>10 DEF vars
<1> QED BY <1>9, <1>10

\* A second round that has started is not forgotten.
LEMMA SecondStays == ASSUME IInv, [Next]_vars, SecondRound PROVE SecondRound'
<1>1. PICK n \in Node : g[n].round > 2 \/ (g[n].round = 2 /\ g[n].started)
  BY DEF SecondRound
<1>2. GoesOn(g[n], g'[n]) /\ g[n].round \in Nat
  BY GroupsGoOn, GroupFields DEF IInv, Round
<1> QED BY <1>1, <1>2 DEF SecondRound, GoesOn

\* x is on its way from m to n: it is about the first round, and n, and m if it is a
\* question, have announced themselves.
Due(x, m, n) ==
    /\ x.type = "consensus_block" => x.round = 1 /\ mines[n] > 0
    /\ x.type = "verified_1" => x.block.round = 1 /\ mines[m] > 0 /\ mines[n] > 0
    /\ x.type = "answer_verified_1" => mines[n] > 0

\* Before the second round, who has announced itself is in its own group, and who has
\* not is not asked for anything.
KnowsItself == \A n \in Node : g[n].round = 1 /\ mines[n] > 0 => IsIn(g[n].list, n)
OwnedFirst == \A b \in mined : b.round = 1 /\ mines[b.owner] > 0
QueuedFirst ==
    \A n \in Node : \A o \in DOMAIN pre[n] :
       pre[n][o].round = 1 /\ mines[pre[n][o].owner] > 0
AllDue == \A m, n \in Node : \A x \in In(chan[m][n]) : Due(x, m, n)

Early == crashed = {} /\ KnowsItself /\ OwnedFirst /\ QueuedFirst /\ AllDue
\* Announcing oneself is not undone.
LEMMA DueStays ==
  ASSUME Typed, NEW x, NEW m \in Node, NEW n \in Node, Due(x, m, n),
         \A k \in Node : mines[k] > 0 => mines'[k] > 0
  PROVE  Due(x, m, n)'
BY DEF Due

\* The channels after a message is taken, and after one more is sent.
LEMMA AllDueTaken ==
  ASSUME Typed, AllDue, NEW n \in Node, NEW m \in Node, chan[m][n] # <<>>
  PROVE  /\ \A a, b \in Node : \A x \in In(Taken(n, m)[a][b]) : Due(x, a, b)
         /\ Due(Head(chan[m][n]), m, n)
<1>1. \A a, b \in Node : Taken(n, m)[a][b] = IF a = m /\ b = n THEN Tail(chan[m][n])
                                              ELSE chan[a][b]
  BY TakenType
<1>2. chan[m][n] \in Seq(Message)
  BY DEF Typed
<1>3. In(Tail(chan[m][n])) \subseteq In(chan[m][n]) /\ Head(chan[m][n]) \in In(chan[m][n])
  BY <1>2, InChannel
<1>4. \A a, b \in Node : In(Taken(n, m)[a][b]) \subseteq In(chan[a][b])
  BY <1>1, <1>3
<1> QED BY <1>3, <1>4 DEF AllDue

LEMMA AllDueSent ==
  ASSUME NEW ch \in [Node -> [Node -> Seq(Message)]],
         \A a, b \in Node : \A x \in In(ch[a][b]) : Due(x, a, b),
         NEW n \in Node, NEW to, NEW msg \in Message, \A b \in Node : b \in to => Due(msg, n, b)
  PROVE  \A a, b \in Node : \A x \in In(Send(ch, n, to, msg)[a][b]) : Due(x, a, b)
<1> DEFINE new == Send(ch, n, to, msg)
<1>1. OneMoreIn(ch, new, n, to, msg)
  BY SendIn
<1> HIDE DEF new
<1>2. ASSUME NEW a \in Node, NEW b \in Node, NEW x \in In(new[a][b])
      PROVE  Due(x, a, b)
  <2>1. x \in In(ch[a][b]) \/ (a = n /\ b \in to /\ x = msg)
    BY <1>1, OneMoreFrom
  <2> QED BY <2>1
<1> QED BY <1>2 DEF new

\* A group that starts its round, or not: the blocks and the queue are of members.
LEMMA StartEarly ==
  ASSUME IInv, Early, NEW n \in Node, NEW gn \in Groups(Node), StartIfReady(n, gn),
         ~ SecondRound', gn.round \in {1, 2}, Counted',
         \A k \in Node : mines[k] > 0 => mines'[k] > 0,
         mines' \in [Node -> Nat], chan' \in [Node -> [Node -> Seq(Message)]]
  PROVE  OwnedFirst' /\ QueuedFirst'
<1> DEFINE ready == gn.count >= CONCURRENCY_BLOCKS
           own == IF ready /\ n = Leader THEN OwnBlocks(n, gn) ELSE {}
<1>0. Typed /\ Numbered /\ OwnedFirst /\ QueuedFirst
  BY DEF IInv, Early
<1>1. /\ mined' = mined \cup own
      /\ pre' = IF ready /\ n = Leader THEN [pre EXCEPT ![n] = HandOut(n, gn)] ELSE pre
  BY DEF StartIfReady
<1>2. g'[n].round = gn.round /\ g'[n].list = gn.list /\ (ready => g'[n].started)
  BY <1>0, StartGroup
<1>3. ready => gn.round = 1
  BY <1>2 DEF SecondRound
<1>4. gn.list \in MemberLists(Node)
  BY DEF Groups
<1>5. ASSUME gn.round = 1, NEW o \in DOMAIN Slots(gn.list)
      PROVE  Slots(gn.list)[o] \in Node /\ mines'[Slots(gn.list)[o]] > 0
  <2> DEFINE s == Slots(gn.list)[o]
  <2>1. s \in Node /\ IsIn(gn.list, s)
    <3>1. PICK l : l = gn.list
      OBVIOUS
    <3>2. /\ Slots(l) \in [1 .. TotalShare(l) -> Node]
          /\ \A i \in 1 .. TotalShare(l) : IsIn(l, Slots(l)[i])
      BY <1>4, <3>1, SlotsType
    <3> QED BY <1>5, <3>1, <3>2
  <2> HIDE DEF s
  <2>2. Share(gn.list, s) # 0 /\ Share(gn.list, s) \in Nat
    BY <1>4, <2>1, ShareType
  <2>3. Share(gn.list, s) + Unread(chan'[s][n]) > 0 => mines'[s] > 0
    BY <1>2, <1>5, <2>1 DEF Counted, Within
  <2>4. Unread(chan'[s][n]) \in Nat /\ mines'[s] \in Nat
    <3>1. chan'[s][n] \in Seq(Message)
      BY <2>1
    <3> QED BY <2>1, <3>1, UnreadType
  <2> QED BY <2>1, <2>2, <2>3, <2>4 DEF s
<1>6. \A b \in own : b.round = 1 /\ mines'[b.owner] > 0
  <2> SUFFICES ASSUME NEW b \in own PROVE b.round = 1 /\ mines'[b.owner] > 0
    OBVIOUS
  <2>1. ready /\ n = Leader /\ b \in OwnBlocks(n, gn)
    OBVIOUS
  <2>2. b.owner = n /\ b.round = gn.round
    BY <1>0, <2>1, OwnBlocksType
  <2>3. PICK o \in DOMAIN Slots(gn.list) : Slots(gn.list)[o] = n
    BY <2>1 DEF OwnBlocks
  <2> QED BY <1>3, <1>5, <2>1, <2>2, <2>3
<1>7. OwnedFirst'
  <2> HIDE DEF own
  <2>1. \A b \in mined : b.round = 1 /\ mines'[b.owner] > 0
    BY <1>0 DEF OwnedFirst, Typed, Blocks
  <2> QED BY <1>1, <1>6, <2>1 DEF OwnedFirst
<1>8. \A k \in Node : \A o \in DOMAIN pre[k] : pre[k][o].round = 1 /\ mines'[pre[k][o].owner] > 0
  <2> SUFFICES ASSUME NEW k \in Node, NEW o \in DOMAIN pre[k]
               PROVE  pre[k][o].round = 1 /\ mines'[pre[k][o].owner] > 0
    OBVIOUS
  <2>1. pre[k] \in Queues
    BY <1>0 DEF Typed
  <2>2. pre[k][o].owner \in Node
    BY <2>1, QueueType
  <2> QED BY <1>0, <2>2 DEF QueuedFirst
<1>9. QueuedFirst'
  <2>1. CASE ready /\ n = Leader
    <3>1. pre' = [pre EXCEPT ![n] = HandOut(n, gn)]
      BY <1>1, <2>1
    <3> DEFINE q == HandOut(n, gn)
               slots == Slots(gn.list)
    <3>2. /\ DOMAIN q = DOMAIN pre[n] \cup {o \in DOMAIN slots : slots[o] # n}
          /\ \A o \in DOMAIN pre[n] : q[o] = pre[n][o]
          /\ \A o \in DOMAIN q \ DOMAIN pre[n] :
               q[o].owner = slots[o] /\ q[o].round = gn.round
      BY <1>0, HandOutEntries
    <3>3. \A o \in DOMAIN slots : mines'[slots[o]] > 0
      BY <1>3, <1>5, <2>1
    <3> HIDE DEF q, slots
    <3>4. \A o \in DOMAIN q : q[o].round = 1 /\ mines'[q[o].owner] > 0
      <4> TAKE o \in DOMAIN q
      <4>1. CASE o \in DOMAIN pre[n]
        BY <1>8, <3>2, <4>1
      <4>2. CASE o \notin DOMAIN pre[n]
        <5>1. o \in DOMAIN slots /\ q[o].owner = slots[o] /\ q[o].round = gn.round
          BY <3>2, <4>2
        <5> QED BY <1>3, <2>1, <3>3, <5>1
      <4> QED BY <4>1, <4>2
    <3>5. \A k \in Node : pre'[k] = IF k = n THEN q ELSE pre[k]
      <4>1. pre \in [Node -> Queues]
        BY <1>0 DEF Typed
      <4> QED BY <3>1, <4>1 DEF q
    <3>6. ASSUME NEW k \in Node, NEW o \in DOMAIN pre'[k]
          PROVE  pre'[k][o].round = 1 /\ mines'[pre'[k][o].owner] > 0
      <4>1. CASE k = n
        BY <3>4, <3>5, <4>1
      <4>2. CASE k # n
        BY <1>8, <3>5, <4>2
      <4> QED BY <4>1, <4>2
    <3> QED BY <3>6 DEF QueuedFirst
  <2>2. CASE ~ (ready /\ n = Leader)
    BY <1>1, <1>8, <2>2 DEF QueuedFirst
  <2> QED BY <2>1, <2>2
<1> QED BY <1>7, <1>9

LEMMA MineEarly ==
  ASSUME IInv, Early, NEW n \in Node, Mine(n), Counted', Typed', ~SecondRound, ~SecondRound'
  PROVE  Early'
<1> DEFINE r == g[n].round
           gn == Join(g[n], n, r)
           msg == Announce(r)
<1>0. /\ Typed /\ r \in Round /\ r \in {1, 2} /\ crashed = {} /\ KnowsItself
      /\ \A m, k \in Node : \A x \in In(chan[m][k]) : Due(x, m, k)
  <2>1. Typed /\ crashed = {} /\ KnowsItself /\ AllDue
    BY DEF IInv, Early
  <2>2. r \in Round /\ ~ (r > 2)
    BY <2>1, GroupFields DEF SecondRound
  <2> QED BY <2>1, <2>2 DEF Round, AllDue
<1>1. /\ StartIfReady(n, gn) /\ mines' = [mines EXCEPT ![n] = mines[n] + 1]
      /\ chan' = Send(chan, n, Node, msg) /\ ~g[n].started /\ UNCHANGED <<voted, full, crashed>>
  BY DEF Mine
<1>2. gn \in Groups(Node) /\ gn.round = r /\ gn.list = AddMember(g[n].list, n)
  <2>1. g[n] \in Groups(Node) /\ r \in Nat \ {0}
    BY <1>0, GroupFields DEF Round
  <2> QED BY <1>1, <2>1, JoinType
<1>3. msg \in Message /\ \A m, k : Due(msg, m, k)
  BY <1>0, MessageTypes DEF Due, Announce
<1> HIDE DEF gn, r, msg
<1>4. /\ g'[n].round = r /\ g'[n].list = gn.list
      /\ \A k \in Node : k # n => g'[k] = g[k]
  BY <1>0, <1>1, <1>2, StartGroup
<1>5. /\ mines \in [Node -> Nat] /\ mines' \in [Node -> Nat]
      /\ \A k \in Node : mines'[k] = IF k = n THEN mines[k] + 1 ELSE mines[k]
  BY <1>0, <1>1, RoundAssumption DEF Typed
<1>6. \A k \in Node : mines[k] > 0 => mines'[k] > 0
  BY <1>5
<1>7. chan \in [Node -> [Node -> Seq(Message)]] /\ chan' \in [Node -> [Node -> Seq(Message)]]
  BY <1>0 DEF Typed
<1>8. AllDue'
  <2>1. \A a, b \in Node : \A x \in In(chan'[a][b]) : Due(x, a, b)
    BY <1>0, <1>1, <1>3, <1>7, AllDueSent
  <2> QED BY <1>0, <1>6, <2>1, DueStays DEF AllDue
<1>9. OwnedFirst' /\ QueuedFirst'
  BY <1>0, <1>1, <1>2, <1>5, <1>6, <1>7, StartEarly
<1>10. KnowsItself'
  <2> SUFFICES ASSUME NEW k \in Node, g'[k].round = 1, mines'[k] > 0
               PROVE  IsIn(g'[k].list, k)
    BY DEF KnowsItself, IsIn
  <2>1. CASE k = n
    <3>1. g[n].list \in MemberLists(Node) /\ gn.list \in MemberLists(Node)
      BY <1>0, <1>2, GroupFields DEF Groups
    <3>2. Share(gn.list, n) = Share(g[n].list, n) + 1 /\ Share(g[n].list, n) \in Nat
      BY <1>2, <3>1, AddMemberShare, ShareType
    <3>3. IsIn(gn.list, n)
      BY <3>1, <3>2, ShareType
    <3> QED BY <1>4, <2>1, <3>3
  <2>2. CASE k # n
    BY <1>0, <1>4, <1>5, <2>2 DEF KnowsItself
  <2> QED BY <2>1, <2>2
<1> QED BY <1>0, <1>1, <1>8, <1>9, <1>10 DEF Early

LEMMA ReceiveAnnounceEarly ==
  ASSUME IInv, Early, NEW n \in Node, NEW m \in Node, ReceiveAnnounce(n, m), Counted', Typed',
         ~SecondRound, ~SecondRound'
  PROVE  Early'
<1> DEFINE r == Head(chan[m][n]).round
           gn == Join(g[n], m, r)
<1>0. /\ Typed /\ r \in Round /\ crashed = {} /\ KnowsItself /\ OwnedFirst /\ QueuedFirst
      /\ AllDue /\ g[n].round \in {1, 2} /\ chan[m][n] # <<>> /\ chan' = Taken(n, m)
      /\ UNCHANGED <<mines, voted, full, crashed>>
      /\ UNCHANGED <<g, mined, votes, pre>> \/ StartIfReady(n, gn)
  <2>1. Typed /\ crashed = {} /\ KnowsItself /\ OwnedFirst /\ QueuedFirst /\ AllDue
    BY DEF IInv, Early
  <2>2. g[n].round \in Round /\ ~ (g[n].round > 2)
    BY <2>1, GroupFields DEF SecondRound
  <2>3. /\ chan[m][n] # <<>> /\ Head(chan[m][n]).type = "mining_succeed"
        /\ chan' = Taken(n, m) /\ UNCHANGED <<mines, voted, full, crashed>>
        /\ UNCHANGED <<g, mined, votes, pre>> \/ StartIfReady(n, gn)
    BY DEF ReceiveAnnounce, Handles
  <2>4. r \in Round
    BY <2>1, <2>3, HeadType
  <2> QED BY <2>1, <2>2, <2>3, <2>4 DEF Round
<1>1. mines \in [Node -> Nat] /\ mines' = mines /\ chan' \in [Node -> [Node -> Seq(Message)]]
  <2>1. mines \in [Node -> Nat] /\ mines' = mines
    BY <1>0, RoundAssumption DEF Typed
  <2>2. Taken(n, m) \in [Node -> [Node -> Seq(Message)]]
    BY <1>0, TakenType
  <2> QED BY <1>0, <2>1, <2>2
<1>2. AllDue'
  <2>1. \A a, b \in Node : \A x \in In(chan'[a][b]) : Due(x, a, b)
    BY <1>0, AllDueTaken
  <2> QED BY <1>0, <1>1, <2>1, DueStays DEF AllDue
<1>3. CASE UNCHANGED <<g, mined, votes, pre>>
  BY <1>0, <1>1, <1>2, <1>3 DEF Early, KnowsItself, OwnedFirst, QueuedFirst
<1>4. CASE StartIfReady(n, gn)
  <2>1. /\ gn \in Groups(Node) /\ gn.round = g[n].round
        /\ gn.list = g[n].list \/ gn.list = AddMember(g[n].list, m)
    <3>1. g[n] \in Groups(Node) /\ r \in Nat \ {0}
      BY <1>0, GroupFields DEF Round
    <3> QED BY <3>1, JoinType
  <2> HIDE DEF gn, r
  <2>2. /\ g'[n].round = g[n].round /\ g'[n].list = gn.list
        /\ \A k \in Node : k # n => g'[k] = g[k]
    BY <1>0, <1>4, <2>1, StartGroup
  <2>3. OwnedFirst' /\ QueuedFirst'
    BY <1>0, <1>1, <1>4, <2>1, StartEarly
  <2>4. KnowsItself'
    <3> SUFFICES ASSUME NEW k \in Node, g'[k].round = 1, mines[k] > 0
                 PROVE  IsIn(g'[k].list, k)
      BY <1>1 DEF KnowsItself, IsIn
    <3>1. CASE k = n
      <4>1. IsIn(g[n].list, n)
        BY <1>0, <2>2, <3>1 DEF KnowsItself
      <4>2. g[n].list \in MemberLists(Node) /\ gn.list \in MemberLists(Node)
        BY <1>0, <2>1, GroupFields DEF Groups
      <4>3. Share(g[n].list, n) # 0 /\ Share(g[n].list, n) \in Nat
        BY <4>1, <4>2, ShareType
      <4>4. Share(AddMember(g[n].list, m), n) = IF n = m THEN Share(g[n].list, m) + 1
                                                ELSE Share(g[n].list, n)
        BY <4>2, AddMemberShare
      <4>5. Share(gn.list, n) # 0
        BY <2>1, <4>3, <4>4
      <4> QED BY <2>2, <3>1, <4>2, <4>5, ShareType
    <3>2. CASE k # n
      BY <1>0, <2>2, <3>2 DEF KnowsItself
    <3> QED BY <3>1, <3>2
  <2> QED BY <1>0, <1>2, <2>3, <2>4 DEF Early
<1> QED BY <1>0, <1>3, <1>4

\* A step that mines nothing and adds no member: groups go on with the next round or stay.
LEMMA EarlyFrame ==
  ASSUME Typed, Early, UNCHANGED <<mines, mined, crashed>>, QueuedFirst',
         \A n \in Node : g'[n] = g[n] \/ g'[n].round # 1,
         \A a, b \in Node : \A x \in In(chan'[a][b]) : Due(x, a, b)
  PROVE  Early'
<1>1. crashed = {} /\ KnowsItself /\ OwnedFirst
  BY DEF Early
<1>2. KnowsItself'
  BY <1>1 DEF KnowsItself, IsIn
<1>3. OwnedFirst'
  BY <1>1 DEF OwnedFirst
<1>4. AllDue'
  BY DueStays DEF AllDue
<1> QED BY <1>1, <1>2, <1>3, <1>4 DEF Early

LEMMA QueuedStays ==
  ASSUME Early, UNCHANGED <<mines, pre>> PROVE QueuedFirst'
BY DEF Early, QueuedFirst

LEMMA PollRequestEarly ==
  ASSUME IInv, Early, NEW n \in Node, NEW o \in DOMAIN pre[n], PollRequest(n, o)
  PROVE  Early'
<1> DEFINE e == pre[n][o]
           msg == Request(o, e.round)
<1>0. /\ Typed /\ QueuedFirst /\ AllDue /\ chan \in [Node -> [Node -> Seq(Message)]]
      /\ pre[n] \in Queues
  BY DEF IInv, Early, Typed
<1>1. /\ chan' = Send(chan, n, {e.owner}, msg) /\ pre' = [pre EXCEPT ![n][o].sent = @ + 1]
      /\ UNCHANGED <<g, mines, mined, votes, voted, full, crashed>>
  BY DEF PollRequest
<1>2. /\ e.owner \in Node /\ e.round = 1 /\ mines[e.owner] > 0 /\ o \in Order /\ e.round \in Round
      /\ e = [owner |-> e.owner, round |-> e.round, sent |-> e.sent]
  BY <1>0, QueueType DEF QueuedFirst
<1>3. msg \in Message /\ Due(msg, n, e.owner)
  BY <1>2, MessageTypes DEF Due, Request
<1> HIDE DEF msg
<1>4. \A a, b \in Node : \A x \in In(chan'[a][b]) : Due(x, a, b)
  <2>1. \A b \in Node : b \in {e.owner} => Due(msg, n, b)
    BY <1>3
  <2> QED BY <1>0, <1>1, <1>3, <2>1, AllDueSent DEF AllDue
<1>5. QueuedFirst'
  <2> SUFFICES ASSUME NEW k \in Node, NEW q \in DOMAIN pre'[k]
               PROVE  pre'[k][q].round = 1 /\ mines[pre'[k][q].owner] > 0
    BY <1>1 DEF QueuedFirst
  <2>1. /\ q \in DOMAIN pre[k] /\ pre'[k][q].round = pre[k][q].round
        /\ pre'[k][q].owner = pre[k][q].owner
    <3>1. pre[k] \in Queues /\ pre'[k] = IF k = n THEN [pre[n] EXCEPT ![o].sent = @ + 1] ELSE pre[k]
      BY <1>0, <1>1 DEF Typed
    <3>2. \A i \in DOMAIN pre[k] : pre[k][i] = [owner |-> pre[k][i].owner,
                                               round |-> pre[k][i].round, sent |-> pre[k][i].sent]
      BY <3>1, QueueType
    <3>3. CASE k = n
      <4>1. pre'[k] = [pre[k] EXCEPT ![o] = [pre[k][o] EXCEPT !.sent = @ + 1]]
        BY <3>1, <3>3
      <4>2. q \in DOMAIN pre[k]
        BY <4>1
      <4> QED BY <3>2, <4>1, <4>2
    <3>4. CASE k # n
      BY <3>1, <3>4
    <3> QED BY <3>3, <3>4
  <2> QED BY <1>0, <2>1 DEF QueuedFirst
<1> QED BY <1>0, <1>1, <1>4, <1>5, EarlyFrame

LEMMA ReceiveReceivedEarly ==
  ASSUME IInv, Early, NEW n \in Node, NEW m \in Node, ReceiveReceived(n, m)
  PROVE  Early'
<1>0. Typed /\ QueuedFirst /\ AllDue
  BY DEF IInv, Early
<1> DEFINE rest == DOMAIN pre[n] \ {Head(chan[m][n]).order}
<1>1. /\ chan[m][n] # <<>> /\ chan' = Taken(n, m)
      /\ pre' = [pre EXCEPT ![n] = Restrict(pre[n], rest)]
      /\ UNCHANGED <<g, mines, mined, votes, voted, full, crashed>>
  BY DEF ReceiveReceived, Handles
<1>2. \A a, b \in Node : \A x \in In(chan'[a][b]) : Due(x, a, b)
  BY <1>0, <1>1, AllDueTaken
<1> HIDE DEF rest
<1>3. QueuedFirst'
  <2>1. rest \in SUBSET DOMAIN pre[n]
    BY DEF rest
  <2>2. \A k \in Node : pre'[k] = IF k = n THEN [o \in rest |-> pre[n][o]] ELSE pre[k]
    BY <1>0, <1>1 DEF Typed, Restrict
  <2> SUFFICES ASSUME NEW k \in Node, NEW o \in DOMAIN pre'[k]
               PROVE  pre'[k][o].round = 1 /\ mines[pre'[k][o].owner] > 0
    BY <1>1 DEF QueuedFirst
  <2>3. o \in DOMAIN pre[k] /\ pre'[k][o] = pre[k][o]
    <3>1. CASE k = n
      BY <2>1, <2>2, <3>1
    <3>2. CASE k # n
      BY <2>2, <3>2
    <3> QED BY <3>1, <3>2
  <2> QED BY <1>0, <2>3 DEF QueuedFirst
<1> QED BY <1>0, <1>1, <1>2, <1>3, EarlyFrame

LEMMA ReceiveRequestEarly ==
  ASSUME IInv, Early, NEW n \in Node, NEW m \in Node, ReceiveRequest(n, m)
  PROVE  Early'
<1> DEFINE msg == Head(chan[m][n])
           b == NewBlock(n, msg.round, msg.order)
           ack == Received(msg.order)
           ch == Taken(n, m)
<1>0. /\ Typed /\ KnowsItself /\ OwnedFirst /\ AllDue /\ crashed = {}
      /\ chan[m][n] # <<>> /\ msg.type = "consensus_block"
      /\ UNCHANGED <<g, mines, pre, voted, full, crashed>>
  BY DEF ReceiveRequest, Handles, IInv, Early
<1>1. /\ ch \in [Node -> [Node -> Seq(Message)]]
      /\ \A x, y \in Node : \A z \in In(ch[x][y]) : Due(z, x, y)
      /\ msg.round = 1 /\ mines[n] > 0
  <2>1. Due(msg, m, n) /\ \A x, y \in Node : \A z \in In(ch[x][y]) : Due(z, x, y)
    BY <1>0, AllDueTaken
  <2>2. ch \in [Node -> [Node -> Seq(Message)]]
    BY <1>0, TakenType
  <2> QED BY <1>0, <2>1, <2>2 DEF Due
<1>2. /\ chan' = ch \/ chan' = Send(ch, n, {m}, ack)
      /\ mined' = mined \/ mined' = mined \cup {b}
  BY DEF ReceiveRequest
<1>3. ack \in Message /\ Due(ack, n, m)
  BY <1>0, HeadType, MessageTypes DEF Due, Received
<1>4. b.owner = n /\ b.round = 1
  BY <1>1 DEF NewBlock
<1> HIDE DEF msg, b, ack, ch
<1>5. AllDue'
  <2>1. \A x, y \in Node : \A z \in In(chan'[x][y]) : Due(z, x, y)
    BY <1>1, <1>2, <1>3, AllDueSent
  <2> QED BY <1>0, <2>1, DueStays DEF AllDue
<1>6. OwnedFirst'
  BY <1>0, <1>1, <1>2, <1>4 DEF OwnedFirst
<1>7. KnowsItself' /\ QueuedFirst'
  BY <1>0, QueuedStays DEF KnowsItself, IsIn
<1> QED BY <1>0, <1>5, <1>6, <1>7 DEF Early

\* Before the second round starts, a round that runs is the first.
LEMMA FirstRound ==
  ASSUME ~SecondRound, NEW n \in Node, g[n].started, g[n].round \in Round
  PROVE  g[n].round = 1
<1>1. ~(g[n].round > 2 \/ (g[n].round = 2 /\ g[n].started))
  BY DEF SecondRound
<1>2. g[n].round # 2 /\ ~(g[n].round > 2)
  BY <1>1
<1> QED BY <1>2 DEF Round

\* A question goes to members only, and they have announced themselves.
LEMMA PollValidateEarly ==
  ASSUME IInv, Early, Counted, ~SecondRound, NEW n \in Node, NEW b \in DOMAIN votes[n],
         PollValidate(n, b)
  PROVE  Early'
<1> DEFINE members == {m \in Node \ {n} : IsIn(g[n].list, m)}
<1>0. /\ Typed /\ Owners /\ OwnedFirst /\ AllDue /\ QueuedFirst
      /\ g[n].started /\ g[n].round \in Round /\ g[n].list \in MemberLists(Node)
      /\ chan \in [Node -> [Node -> Seq(Message)]] /\ mines \in [Node -> Nat]
      /\ b \in mined /\ b \in Blocks
  <2>1. /\ Typed /\ Owners /\ OwnedFirst /\ AllDue /\ QueuedFirst /\ g[n].started
    BY DEF IInv, Early, PollValidate
  <2>2. g[n].round \in Round /\ g[n].list \in MemberLists(Node)
    BY <2>1, GroupFields
  <2>3. chan \in [Node -> [Node -> Seq(Message)]] /\ mines \in [Node -> Nat]
    BY <2>1, RoundAssumption DEF Typed
  <2>4. votes[n] \in Counters(mined) /\ mined \in SUBSET Blocks
    BY <2>1 DEF Typed
  <2>5. b \in mined /\ b \in Blocks
    BY <2>4, CounterType
  <2> QED BY <2>1, <2>2, <2>3, <2>5
<1>1. /\ chan' = Send(chan, n, members, Ask(b))
      /\ UNCHANGED <<g, mines, pre, mined, votes, voted, full, crashed>>
  BY DEF PollValidate
<1>2. g[n].round = 1
  BY <1>0, FirstRound
<1>3. b.round = 1 /\ mines[n] > 0
  BY <1>0 DEF Owners, OwnedFirst
<1>4. \A m \in Node : m \in members => mines[m] > 0
  <2> SUFFICES ASSUME NEW m \in Node, IsIn(g[n].list, m) PROVE mines[m] > 0
    OBVIOUS
  <2>1. Share(g[n].list, m) \in Nat /\ Share(g[n].list, m) # 0
    BY <1>0, ShareType
  <2>2. Unread(chan[m][n]) \in Nat
    BY <1>0, UnreadType
  <2>3. Share(g[n].list, m) + Unread(chan[m][n]) > 0 => mines[m] > 0
    BY <1>2 DEF Counted, Within
  <2> QED BY <1>0, <2>1, <2>2, <2>3
<1> HIDE DEF members
<1>5. Ask(b) \in Message /\ \A m \in Node : m \in members => Due(Ask(b), n, m)
  BY <1>0, <1>3, <1>4, MessageTypes DEF Due, Ask
<1>6. \A x, y \in Node : \A z \in In(chan'[x][y]) : Due(z, x, y)
  BY <1>0, <1>1, <1>5, AllDueSent DEF AllDue
<1>7. QueuedFirst'
  BY <1>1, QueuedStays
<1> QED BY <1>0, <1>1, <1>6, <1>7, EarlyFrame

\* Who is asked while the first round runs has announced itself and finds itself in its
\* group; who is asked afterwards and was not a member refuses.
LEMMA ReceiveAskEarly ==
  ASSUME IInv, Early, NEW n \in Node, NEW m \in Node, ReceiveAsk(n, m)
  PROVE  Early'
<1> DEFINE b == Head(chan[m][n]).block
           old == b.round < g[n].round
           list == IF old THEN g[n].history[b.round] ELSE g[n].list
           ch == Taken(n, m)
           answer == Answer(b, Share(list, n))
<1>0. /\ Typed /\ KnowsItself /\ AllDue /\ crashed = {}
      /\ chan[m][n] # <<>> /\ Head(chan[m][n]).type = "verified_1"
      /\ g[n].round \in Round
      /\ UNCHANGED <<g, mines, pre, mined, votes, voted, full>>
  BY GroupFields DEF ReceiveAsk, Handles, IInv, Early
<1>1. b \in Blocks /\ b.round \in Round
  BY <1>0, HeadType DEF Blocks
<1>2. list \in MemberLists(Node) /\ \A k : IsIn(list, k) => Share(list, k) \in Nat \ {0}
  <2>1. old => b.round \in DOMAIN g[n].history
    BY <1>0, <1>1, GroupFields DEF SoundGroup, Round
  <2>2. list \in MemberLists(Node)
    BY <1>0, <2>1, GroupFields, GroupMapType
  <2> HIDE DEF list
  <2> QED BY <2>2, ShareType
<1>3. /\ ch \in [Node -> [Node -> Seq(Message)]]
      /\ \A x, y \in Node : \A z \in In(ch[x][y]) : Due(z, x, y)
      /\ b.round = 1 /\ mines[m] > 0 /\ mines[n] > 0
  <2>1. Due(Head(chan[m][n]), m, n) /\ \A x, y \in Node : \A z \in In(ch[x][y]) : Due(z, x, y)
    BY <1>0, AllDueTaken
  <2>2. ch \in [Node -> [Node -> Seq(Message)]]
    BY <1>0, TakenType
  <2> QED BY <1>0, <2>1, <2>2 DEF Due
<1>4. old \/ IsIn(list, n)
  <2>1. old \/ g[n].round = 1
    BY <1>0, <1>3 DEF Round
  <2>2. g[n].round = 1 => IsIn(g[n].list, n)
    BY <1>0, <1>3 DEF KnowsItself
  <2>3. ~old => list = g[n].list
    OBVIOUS
  <2>4. CASE old
    BY <2>4
  <2>5. CASE ~old
    <3>1. IsIn(g[n].list, n)
      BY <2>1, <2>2, <2>5
    <3> QED BY <2>3, <2>5, <3>1
  <2> QED BY <2>4, <2>5
<1>5. \/ chan' = ch /\ UNCHANGED crashed
      \/ IsIn(list, n) /\ chan' = Send(ch, n, {m}, answer) /\ UNCHANGED crashed
  BY <1>4 DEF ReceiveAsk
<1>6. IsIn(list, n) => answer \in Message /\ Due(answer, n, m)
  <2> HIDE DEF list, b
  <2> SUFFICES ASSUME IsIn(list, n) PROVE answer \in Message /\ Due(answer, n, m)
    OBVIOUS
  <2>1. PICK v \in Nat \ {0} : v = Share(list, n)
    BY <1>2
  <2>2. answer = Answer(b, v)
    BY <2>1
  <2>3. answer \in Message
    BY <1>1, <2>1, <2>2, MessageTypes
  <2>4. answer.type = "answer_verified_1"
    BY <2>2 DEF Answer
  <2> QED BY <1>3, <2>3, <2>4 DEF Due
<1> HIDE DEF list, b, ch, answer
<1>7. \A x, y \in Node : \A z \in In(chan'[x][y]) : Due(z, x, y)
  <2>1. CASE chan' = ch
    BY <1>3, <2>1
  <2>2. CASE IsIn(list, n) /\ chan' = Send(ch, n, {m}, answer)
    BY <1>3, <1>6, <2>2, AllDueSent
  <2> QED BY <1>5, <2>1, <2>2
<1>8. UNCHANGED crashed /\ QueuedFirst'
  BY <1>0, <1>5, QueuedStays
<1> QED BY <1>0, <1>7, <1>8, EarlyFrame

\* A node whose group ends the round: nothing to show of the members of the next.
LEMMA EndsOrStays ==
  ASSUME Typed, NEW n \in Node, g' = [g EXCEPT ![n] = Advance(g[n])] \/ UNCHANGED g
  PROVE  \A k \in Node : g'[k] = g[k] \/ g'[k].round # 1
<1>1. Advance(g[n]).round = g[n].round + 1 /\ g[n].round \in Round
  BY GroupFields, AdvanceType
<1> QED BY <1>1 DEF Typed, Round

LEMMA ReceiveAnswerEarly ==
  ASSUME IInv, Early, ~SecondRound, NEW n \in Node, NEW m \in Node, ReceiveAnswer(n, m)
  PROVE  Early'
<1>0. /\ Typed /\ KnowsItself /\ AllDue /\ crashed = {} /\ g[n].round \in Round
      /\ chan[m][n] # <<>> /\ Head(chan[m][n]).type = "answer_verified_1"
      /\ chan' = Taken(n, m) /\ UNCHANGED <<mines, pre, mined>>
  BY GroupFields DEF ReceiveAnswer, Handles, IInv, Early
<1>1. /\ \A x, y \in Node : \A z \in In(chan'[x][y]) : Due(z, x, y)
      /\ mines[n] > 0
  <2>1. Due(Head(chan[m][n]), m, n) /\ \A x, y \in Node : \A z \in In(chan'[x][y]) : Due(z, x, y)
    BY <1>0, AllDueTaken
  <2> QED BY <1>0, <2>1 DEF Due
<1>2. g[n].started => IsIn(g[n].list, n)
  BY <1>0, <1>1, FirstRound DEF KnowsItself
<1>3. UNCHANGED crashed
  BY <1>2 DEF ReceiveAnswer
<1>4. g' = [g EXCEPT ![n] = Advance(g[n])] \/ UNCHANGED g
  BY DEF ReceiveAnswer, Win
<1>5. QueuedFirst'
  BY <1>0, QueuedStays
<1> QED BY <1>0, <1>1, <1>3, <1>4, <1>5, EndsOrStays, EarlyFrame

LEMMA TakeFullEarly ==
  ASSUME IInv, Early, NEW n \in Node, NEW m \in Node, NEW b, ReceiveFullBlock(n, m, b)
  PROVE  Early'
<1>0. /\ Typed /\ AllDue
      /\ UNCHANGED <<mines, pre, mined, votes, voted, chan, crashed>>
  BY DEF ReceiveFullBlock, IInv, Early
<1>1. g' = [g EXCEPT ![n] = Advance(g[n])] \/ UNCHANGED g
  BY DEF ReceiveFullBlock
<1>2. \A x, y \in Node : \A z \in In(chan'[x][y]) : Due(z, x, y)
  BY <1>0 DEF AllDue
<1>3. QueuedFirst'
  BY <1>0, QueuedStays
<1> QED BY <1>0, <1>1, <1>2, <1>3, EndsOrStays, EarlyFrame

LEMMA LoseEarly ==
  ASSUME IInv, Early, NEW n \in Node, NEW m \in Node, Lose(m, n)
  PROVE  Early'
<1>0. /\ Typed /\ AllDue /\ chan[m][n] # <<>> /\ chan' = Taken(n, m)
      /\ UNCHANGED <<g, mines, pre, mined, votes, voted, full, crashed>>
  BY DEF Lose, IInv, Early
<1>1. \A x, y \in Node : \A z \in In(chan'[x][y]) : Due(z, x, y)
  BY <1>0, AllDueTaken
<1>2. QueuedFirst'
  BY <1>0, QueuedStays
<1> QED BY <1>0, <1>1, <1>2, EarlyFrame

LEMMA RepeatEarly ==
  ASSUME IInv, Early, NEW n \in Node, NEW m \in Node, Repeat(m, n)
  PROVE  Early'
<1>0. /\ Typed /\ AllDue /\ UNCHANGED <<g, mines, pre, mined, crashed>>
  BY DEF Repeat, IInv, Early
<1>1. \A x, y \in Node : \A z \in In(chan'[x][y]) : Due(z, x, y)
  BY <1>0, RepeatIn DEF AllDue
<1>2. QueuedFirst'
  BY <1>0, QueuedStays
<1> QED BY <1>0, <1>1, <1>2, EarlyFrame

LEMMA EarlyStep ==
  ASSUME IInv, Counted, Early, [Next]_vars, IInv', Counted', ~SecondRound, ~SecondRound'
  PROVE  Early'
<1>0. Typed'
  BY DEF IInv
<1>1. ASSUME NEW n \in Node, Mine(n) PROVE Early'
  BY <1>0, <1>1, MineEarly
<1>2. ASSUME NEW n \in Node, NEW o \in DOMAIN pre[n], PollRequest(n, o) PROVE Early'
  BY <1>2, PollRequestEarly
<1>3. ASSUME NEW n \in Node, NEW b \in DOMAIN votes[n], PollValidate(n, b) PROVE Early'
  BY <1>3, PollValidateEarly
<1>4. ASSUME NEW n \in Node, NEW m \in Node, Receive(n, m) PROVE Early'
  BY <1>0, <1>4, ReceiveAnnounceEarly, ReceiveRequestEarly, ReceiveReceivedEarly,
     ReceiveAskEarly, ReceiveAnswerEarly DEF Receive
<1>5. ASSUME NEW n \in Node, NEW m \in Node, NEW b \in mined, ReceiveFullBlock(n, m, b)
      PROVE  Early'
  BY <1>5, TakeFullEarly
<1>6. ASSUME NEW n \in Node, NEW m \in Node, Lose(m, n) \/ Repeat(m, n)
      PROVE  Early'
  BY <1>6, LoseEarly, RepeatEarly
<1>7. CASE UNCHANGED vars
  BY <1>7 DEF vars, Early, KnowsItself, OwnedFirst, QueuedFirst, AllDue, Due, IsIn, In
<1> QED BY <1>1, <1>2, <1>3, <1>4, <1>5, <1>6, <1>7 DEF Next

\* The program starts in such a state: the group holds who has announced itself.
LEMMA EarlyInit == Init => Early
<1> SUFFICES ASSUME Init PROVE Early
  OBVIOUS
<1> DEFINE slots == IF InitialGroup.started THEN Slots(InitialList) ELSE <<>>
<1>0. /\ InitialList \in MemberLists(Node) /\ Leader \in Node
      /\ \A k : Share(InitialList, k) \in Nat /\ (IsIn(InitialList, k) <=> Share(InitialList, k) # 0)
  BY InitialListType, ShareType, RoundAssumption
<1>1. /\ g = [n \in Node |-> InitialGroup]
      /\ mines = [n \in Node |-> Share(InitialList, n)]
      /\ chan = [m \in Node |-> [n \in Node |-> <<>>]] /\ crashed = {}
      /\ mined = {[owner |-> Leader, round |-> 1, order |-> o, copy |-> 1] :
                     o \in {i \in DOMAIN slots : slots[i] = Leader}}
      /\ pre = [n \in Node |->
                  [o \in {i \in {j \in DOMAIN slots : slots[j] # Leader} : n = Leader} |->
                      [owner |-> slots[o], round |-> 1, sent |-> 0]]]
  BY DEF Init
<1>2. InitialGroup.list = InitialList
  BY DEF InitialGroup, NewGroup
<1>3. \A o \in DOMAIN slots : slots[o] \in Node /\ mines[slots[o]] > 0
  <2> TAKE o \in DOMAIN slots
  <2>1. slots = Slots(InitialList) /\ o \in DOMAIN Slots(InitialList)
    <3>1. CASE InitialGroup.started
      BY <3>1
    <3>2. CASE ~InitialGroup.started
      BY <3>2
    <3> QED BY <3>1, <3>2
  <2>2. slots[o] \in Node /\ IsIn(InitialList, slots[o])
    <3>1. /\ Slots(InitialList) \in [1 .. TotalShare(InitialList) -> Node]
          /\ \A i \in 1 .. TotalShare(InitialList) : IsIn(InitialList, Slots(InitialList)[i])
      BY <1>0, SlotsType
    <3> HIDE DEF slots
    <3> QED BY <2>1, <3>1
  <2> HIDE DEF slots
  <2> QED BY <1>0, <1>1, <2>2
<1> HIDE DEF slots
<1>4. KnowsItself
  BY <1>0, <1>1, <1>2 DEF KnowsItself
<1>5. OwnedFirst
  <2> SUFFICES ASSUME NEW b \in mined PROVE b.round = 1 /\ mines[b.owner] > 0
    BY DEF OwnedFirst
  <2>1. PICK o \in DOMAIN slots :
           /\ slots[o] = Leader
           /\ b = [owner |-> Leader, round |-> 1, order |-> o, copy |-> 1]
    BY <1>1
  <2>2. b.round = 1 /\ b.owner = Leader
    BY <2>1
  <2> QED BY <1>3, <2>1, <2>2
<1>6. QueuedFirst
  BY <1>1, <1>3 DEF QueuedFirst
<1>7. AllDue
  BY <1>1 DEF AllDue, In
<1> QED BY <1>1, <1>4, <1>5, <1>6, <1>7 DEF Early

\* Until a second round has started no node uses a member it has not got, whatever
\* messages are lost, late or sent twice, and whatever is read through the end of a map: who is asked
\* for a block, for votes or told of votes has announced itself, and in the first round
\* an announcement makes a node a member of its own group before anybody hears of it.
THEOREM NoNullPointer == Spec => []NoCrash
<1>1. Spec => [](IInv /\ Counted)
  BY CountedInit, CountedStep, AgainAlways, Inductive, PTL DEF Spec
<1>2. Init => SecondRound \/ Early
  BY EarlyInit
<1>3. (IInv /\ Counted) /\ (IInv /\ Counted)' /\ (SecondRound \/ Early) /\ [Next]_vars
        => (SecondRound \/ Early)'
  BY EarlyStep, SecondStays
<1>4. SecondRound \/ Early => NoCrash
  BY DEF NoCrash, Early
<1> QED BY <1>1, <1>2, <1>3, <1>4, PTL DEF Spec
=============================================================================
