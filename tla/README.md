# A TLA+ model of Snowball-DAG

Snowball is an experimental blockchain: a node keeps `CHAINS` trees of blocks,
miners form a consensus group in every round, and the group's blocks of the round
are handed out by a leader, voted on, and committed. The repository holds the
node (`Snowball_Main/code`, C++), the older fork it grew from
(`OHIE_with_TX_Pool/code`), two helper programs (`Client_Simulation`,
`Transaction_Pool`) and Python experiments (`DAG_Duplication`). There are no tests
and no design documents: the code and its comments are the reference. Paths below
are relative to `src/Snowball_Main/code` unless they say otherwise; `OHIE/` stands
for `src/OHIE_with_TX_Pool/code/`.

## Inventory

| Component | State it keeps | Operations | Module |
| --- | --- | --- | --- |
| Block tree of a chain, `Blockchain.cpp` | `chains`, `inchains`, `deepest`, `received_non_full_blocks`, `waiting_for_full_blocks`, `blocks_in_phase_validate` | `add_received_block`, `add_block_to_incomplete`, the polls `get_*`, `set_block_full` | `ChainTree` |
| Search tree of a chain, `Blockchain.cpp` | `left`, `right` | `insert_*`, `find_block_by_hash` | `HashTree` |
| Exchange of headers, `process_buffer.cpp` | none of its own | `#process_block`, `#ask_block`, poll of the incomplete trees | `HeaderSync` |
| Exchange of bodies | maps of the block tree | `#got_full_block`, `#have_full_block`, `#ask_full_block`, `#full_block`, polls | `BodySync` |
| Consensus group, `Consensus_Group.cpp` | `round`, `state`, `miner_list`, `concurrency_block_numbers`, `history_info`, `future_info` | `join_Consensus_group`, `add_in_future`, `add_in_history`, `start_consensus_of_blocks`; the end of a round is in `process_buffer.cpp` | `ConsensusGroup` |
| Rounds between nodes | `pre_blocks`, `blocks_in_phase_request`, `waiting_for_phase_1_block`, counters per round | the handlers of the consensus messages, `mine_Consensus_blocks`, polls | `SnowballRound` |
| Miner thread, `miner.cpp` | `mining`, `go_on_mining`, the thread itself | `miner`, the interrupt and the wake-up | `MinerWakeup` |
| Connections, framing and parsing, `MyServer.cpp`, `process_buffer.cpp`, `requests.cpp` | `peers` with their queues, the receive buffer, `passed` | `write_to_*`, `strand_*`, connect, close, `create__*`, `parse__*` | `Link` |
| OHIE: ranks and order, `OHIE/miner.cpp`, `OHIE/Blockchain.cpp` | `rank`, `next_rank`, pool block numbers, commit times | `mine_new_block`, `update_blocks_commited_time`, `get_number_of_pool_block` | `OhieNode` |
| Merkle trees, `verify.cpp` | none | root, proof, check | `Merkle` |
| Packaging experiment, `DAG_Duplication/concurrency_simulation.py` | a pool, blocks | three strategies, delivery | `Packaging` |
| Transactions, pings, start-up, configuration, keys, client, generator, plots | files, command line, counters | I/O | not modelled, see below |

**How they interact.** One network thread runs the socket callbacks (and with them
the handlers) and the timer `run_network`; the miner thread runs `miner`. Both
change `bc` and `cg`. In Snowball the locks around the handlers are commented out
(`MyServer.cpp:92`, `388`); only `join_Consensus_group` and `mine_new_block` take
one. In OHIE the handlers and the timer take the lock of the chains. Nodes talk over
TCP; what is sent to a peer that is not connected is dropped, and requests and vote
questions are repeated by the timer until answered.

**What is hard.** Headers in any order; two threads without a lock; lost
announcements; requests and votes that are repeated while the first answer is on
its way; nodes that are one round apart, answering from history or storing for the
future; maps read through `end()`; a wake-up that may get lost; a write queue that
outlives its connection; chains that each node learns at another speed.
`PROJECT.json` lists each at its line under `hazards`, with the properties that
watch it.

## Modules

| Module | What it is |
| --- | --- |
| `ChainTree` | one chain of one node (trees, incomplete trees, bodies) with its network thread, timer and miner |
| `ChainTreeProofs` | theorems about `ChainTree`, and about `HeaderSync` from these |
| `HeaderSync` | a chain of `ChainTree`, with the lock, and the messages that fetch missing ancestors |
| `Spread`, `BodySync` | what the exchange of bodies promises, and the exchange between nodes, which implements it |
| `Channel`, `Link` | what a connection promises, and the traffic to one peer, which implements it |
| `ConsensusGroup` | the consensus group as operators on a record |
| `SnowballRound` | the rounds between nodes, over FIFO connections; uses `ConsensusGroup` for each node's group |
| `MinerWakeup` | the two threads of one node around the group; uses `ConsensusGroup` |
| `OhieNode` | OHIE nodes that mine on several chains and commit in rank order |
| `ConsensusGroupProofs` | lemmas about the operators of `ConsensusGroup` |
| `SnowballRoundProofs`, `MinerWakeupProofs` | theorems about the rounds and the miner thread, over those lemmas |
| `BodySyncProofs`, `LinkProofs` | theorems about bodies and connections, with the refinements of `Spread` and `Channel` |
| `OhieNodeProofs` | theorems about `OhieNode` |
| `HashTree`, `Merkle`, `Packaging` | three algorithms; `Algorithms` lets a behaviour run one of them |
| `AlgorithmsProofs` | theorems about the three algorithms |
| `MC*` | instances for TLC |

Operators marked *Mutant* in a comment are variants of the definition that follows,
each with a plausible mistake. No action uses them; they show that a property can fail.

How the modules stand to each other: `SnowballRound` lets a node take a full block from
any node that has it, which `BodySync` shows to come about; `SnowballRound`, `BodySync` and
`HeaderSync` let messages arrive in order, lose a tail when a connection ends, and arrive a second time, which `Link` shows
(what `strand_proceed` has written again is handled twice if the copy comes with the next read);
`BodySync` and `OhieNode` let a header be linked when it arrives, which `HeaderSync` shows
to come about; `SnowballRound` takes the miner's announcement and the end of a round as
single steps, which `MinerWakeup` takes apart; `ChainTree` takes the search tree as a set, and where insertions of the two
threads meet it lets any of what was put in meanwhile disappear, which `HashTree` shows to be all that can (`LostExposed`).

### ChainTree

State: `main`, `forest` (records root, nodes, asks: `inchains`), `assigned` (nodes
whose `nb` is set), `deepest`, `full`, `nonFull` (`received_non_full_blocks`),
`validating` (`blocks_in_phase_validate`), `waiting` (`waiting_for_full_blocks`),
`mining` (a `mine_new_block` and the step it has done last), `lost` (blocks that are below their parent and are not
found by their hash any more), and `header`, all headers mined anywhere. `besideMiner` and `besideNetwork` are history: what one
thread has inserted while the other may be inserting. A tree is the set of its hashes: the parent of
a node is fixed by its header. Handlers: `add_received_block` is `ReceiveKnown` /
`Attach` / `StoreIncomplete`, one for each way it returns; polls are `AskIncomplete`, `AskFullBlocks`,
`AskVotes`, each with the set of entries that are due chosen freely; bodies are
`HaveFullBlock` and `SetBlockFull`; `mine_new_block` is cut at what the
network thread can see: `MineBegin` reads `deepest`, `MineLink` puts the node into the tree, `MineDeepest` sets `deepest`,
`MineAssign` sets `nb`, which `malloc` has left unset until then, `MineEnd` puts the block to the vote; `MineOrphan` is the return when the
parent is not found, `MineMissed` the case that the block just linked is not found.
`PeerMines` is the rest of the world. `Locked` selects OHIE (handlers and miner
exclude each other) or Snowball (they do not: an insertion may lose what the other thread has inserted meanwhile, and what a handler reads
of `deepest` during `mine_new_block` is a choice, since the depth behind an unset `nb` is).

### HeaderSync

Adds to a chain the messages with one peer: `news` (headers on the way), `asks`
(`#ask_block` with hash and number). A header whose parent is unknown is stored and the
parent asked for, with as many ancestors as the depths suggest (`AskFor`); the peer sends
at most `MAX_ASK_BLOCKS` of them, upwards from the one that was asked for (`PeerAnswers`); the poll asks for the
roots of incomplete trees (`PollIncomplete`) and waits for nothing: 60 ms after the last one (`OHIE/_configuration:14`) the answer may be on its way.
A connection that ends loses a tail (`LoseTail`), and the last message may be sent again (`Repeat`). `missing` and `dropped` are history:
the messages about a root that were lost, and the headers of trees that were given up. `Window` bounds what is on its way when a poll is made.

### BodySync

`known`, `full`, `nonFull` and `waiting` are the maps of each node, the last two with the
number of polls since an entry was asked for; `channel` holds the messages, each with a history flag: whether it exists only since
a connection has sent something twice (`Repeat`). The handlers
are one action each, with their early returns. `Poll` sends `#got_full_block` for due
entries, in the order of their hashes and at most `MAX_ASK_NON_FULL_IN_ONE_GO`, and
forgets requests that are too old.

### Link

One direction between two nodes. `posted` holds the functions posted to the strand, `queue`
is `_m`, `writing` the writes in progress, `wire` and `buffer` the bytes of each session,
as two tokens for each message so that a read can cut it. `passed` and `Key` are the
test for duplicates within one call of `process_buffer`; the keys are those that the parse
functions build.

### ConsensusGroup and SnowballRound

`g[n]` is the group of node `n`; `pre[n]` is `pre_blocks`; `votes[n]` is
`waiting_for_phase_1_block`; `full[n]` holds the full blocks from which the counters
per round follow; `chan[m][n]` is the connection from `m` to `n`. `mined` and `voted`
are history: the blocks that exist, and whose votes were counted; so is `again`, how often a connection has sent its last
message twice (`Repeat`). There is one action for each message
type, one for each poll, one for the miner's announcement. The mined block of a
slot has a `copy` number, since a request that is handled twice is mined twice.
Wherever the code reads through `end()` the model chooses: `StrayReads` lets such a
value be the one that matters. A null pointer that is followed ends the node
(`crashed`).

Abstractions: handlers and their replies are one step (one thread runs them);
`started` also stands for the flag `mining`; `verify_pre_block` and
`verify_validate_block` accept, as they do for well-formed blocks; the leader is fixed, as in
`choose_leader`.

### MinerWakeup

`pc` is the place of the miner in `miner()`, `net` that of the network thread in
`#mining_succeed`. The steps are the accesses to what both use: the round, read at the top
and used after the sleep; the group, under its lock in `JoinOwn` and without it
afterwards; `mining` with the condition variable (`Test`, `FallAsleep`, `Notify`, and
spurious wake-ups); the interrupt, which is pending until the miner sleeps or passes
its interruption point; the wait is none, since `go_on_mining` is a `std::condition_variable`. An interrupt in the first sleep leaves the thread dead, since that
sleep is outside the `try` block.

### OhieNode

`made` holds all blocks with parent, trailing block, rank and `next_rank`; each node has
its `known` and `full` blocks and the deepest of each chain. `Bar` is `confirm_bar`, `Confirmed`
what lies below it, `UpdateCommited` the step that sets commit times. `numbers` and `next`
choose the pool block of a new block. `reorged` marks nodes that have lost more than
`T_DISCARD` blocks of a deepest path: the code promises nothing for them.

### HashTree, Merkle, Packaging

`HashTree` takes the reads and writes of pointers by both threads as steps: down by reads,
back up by writes of all pointers that were followed. `clashed` says that a thread has written a pointer which had changed since it was read,
`exposed` holds what was inserted while the other thread was inserting: both are history. Each thread inserts any blocks of its own in any order;
`MinerInserts` and `NetworkInserts` bound their number. `Merkle` has one step per level of
`compute_merkle_proof` and `verify_merkle_proof`; a hash is the pair of what is hashed.
`Packaging` has one step per turn of the delivery loop and one per packed block. `Arranged` picks places of the
pool and puts them in an order: the order of the pool (`Upwards`) for what a delivery leaves and for the mapping
strategy, the order of the fees, equal ones as they stood (`FeeOrder`), for the stable sort of the fees strategy.

## Runs

| Run | What it asks | Bounds |
| --- | --- | --- |
| `chain` | no header or body forgotten, headers set, without the lock | 3 hashes, 1 poll before a tree is dropped |
| `header` | with the lock: shape of the trees, a deepest block is mined on, gaps are closed, trees given up only for lost or late messages | 4 hashes, 2 ancestors per request, 1 poll before a tree is dropped, 2 losses, 1 repetition |
| `body` | bodies arrive, in order, once; nothing is forgotten; implements `Spread` | 3 nodes in a row, the first mines 2 blocks, 1 lost connection, 1 repetition; a poll asks for one body, asks again after 2 polls, forgets after 2 |
| `link` | framing, progress of the queue, order; implements `Channel` | 3 messages, of which two share a key; 2 sessions |
| `round_one` | slots kept, announcements counted once, in the first round; no null pointer until a second one starts | 2 nodes, 3 blocks, 3 announcements each, a request sent 2 times, 1 message repeated by each connection, loss, stray reads |
| `round_two` | history, votes and full blocks agree over two rounds | 2 nodes, first group given, 3 announcements each, loss, stray reads |
| `round_live` | a round ends on every node, with all blocks full | 3 nodes, one slot each |
| `round_votes` | claim `process_buffer.cpp:835`: refuted | 3 nodes, 6 blocks |
| `miner_stops` | the miner stops for every round, after one announcement too many at most | 1 peer, 2 blocks a round, 3 rounds, 4 announcements heard |
| `miner_awake` | claim `process_buffer.cpp:917`: refuted | the same |
| `ohie` | same order on both nodes, committed blocks stay, bar grows, pool blocks not repeated | 2 nodes, 2 chains, `T_DISCARD` 1, three blocks at first, quotas of new blocks |
| `algorithms` | search tree, Merkle proof, packaging | 5 hashes, 2 insertions by each thread; 1 to 9 chains; 3 blocks, pool of 4, times up to 4 |

*Why the bounds are enough.* Four hashes make every case of the list surgery: two incomplete
trees, each with a child, one moved below the other, the result linked to main; three leave, beside the block being mined, two that meet it. With two
ancestors per request they also make a gap that one answer does not close.
Three blocks are the least that give a threshold above zero (`(3/3)*2 = 2`), six
the least that give a threshold two small shares do not reach. Two nodes are enough for a leader
and a member one round apart; three for a vote by one that has left the round.
`Window` bounds what a poll may add to a connection, `Resends` how often a request is
repeated, `MaxMines` and `LastRound` the announcements; replies are never blocked.
Three rounds and four announcements let the miner meet a round that starts, ends, and starts again while it
has read the first. Two chains and three blocks at first give both nodes a bar and a block of
which only one knows; the quotas let one chain run ahead of the other. Nine chains need four levels
and seven empty leaves. Two blocks from each thread, in every order, are enough to meet at a pointer and to insert below a pointer that the other thread is about to write.
Two sessions and two messages of one key make a repetition within and across connections; two blocks, a poll that asks for
one and a row of nodes make a body that comes before the block it points to, and one that must be asked for again.
Hashes are interchangeable, hence the symmetry in `chain`; no run with a liveness property uses one.
Deadlock is checked in `chain` only: in all others something is bounded, or the miner may be dead, and the
system really stops. Repetition by a connection is left out of `round_two`, `round_live` and `round_votes` (`MaxRepeats` 0), where it multiplies the
states; the theorems below hold for any `MaxRepeats`.

*Fairness.* `header`: the poll of each root goes on (`run_network` is restarted by
its own timer), messages are handled, and a started `mine_new_block` finishes; the polls are strongly fair since
only the lock, which is always given back, and the bound `Window` hold them back; losses and repetitions are bounded. `body`: messages are handled and polls go on; the polls are strongly
fair since the bound `Window` disables them, not the code, while much is on the way. `link`: posted functions run, writes complete,
and the peer reads and handles; nothing makes a connection come about or last. `round_live`:
connections deliver, each poll for a slot or a vote goes on, full blocks spread. That run starts with the same
group on all nodes and without loss: with different groups a round can stall, see below. `miner_stops`: both
threads run; nothing promises another announcement, the end of a round or a spurious wake-up.

*What the refuted claims mean.* A block can be full with the votes of two of three members
that hold half of the shares, where two thirds are asked for, because repeated answers add up. A miner that has tested
`mining` and does not wait yet misses the notification, which is given without `mining_lock`,
and waits through the next round although `mining` is true. Neither is caught by a check elsewhere.

*What holds only in part.* `SlotsKept` and `NotOvercounted` speak of the first round, and `NoCrash` of the time until a
second round starts anywhere. In the second, an announcement that arrives early is counted twice
(`add_in_future`), an entry of the last round that was never acknowledged hides a slot of the new
one (`Blockchain.cpp:998`), and a late answer read through
`end()` can make a node outside the group follow a null pointer. A round never ends, in
the code as in the model, when a node is missing from the leader's group but not from its own, or when one
member owns all slots; `round_live` does not cover these groups. A node with two slots leaves the
round with the first of its blocks when the second request is late, and a repeated request makes two blocks of
one slot with the same transactions. An announcement that a connection sends twice is counted twice: `NotOvercounted` bounds the
excess by what the connection has repeated. In Snowball, without the lock, a header linked during `mine_new_block`
makes the miner record a deepest block that is not, and a handler may find the deepest block before its header is set
(`Blockchain.cpp:730`), although the miner exits when it meets such a block (`miner.cpp:81`): `DeepestIsMax` fails when `Locked` is FALSE, so it is checked and proved with
the lock only, and `HeadersAssigned` says that no other block lacks its header. `Searchable` lets a block be lost when two insertions meet at one
pointer, and so does `KeptUntilGivenUp`: without the lock it only says which blocks (`Clashing`). `GapCloses` counts a header of a tree that was given up as settled. `OrderAgreed` compares nodes whose settled chains agree: OHIE discards `T_DISCARD` blocks for that, and
a longer fork reorders. `NoRepeat` speaks of blocks that the miner holds in full: nodes that mine at the same time do
take the same pool block. `Obtained` needs that all missing blocks can be asked for before the first is due again
(`AllCanBeAsked`); otherwise the poll, which starts from the lowest hash, never comes to the last ones. The header of
a block at the end of a chain that is lost on its way is not sent again: a node learns of it with the next block.

## Proofs

`ChainTreeProofs` proves, for every set of hashes, every `NO_ASKS_BEFORE_REMOVING`,
with and without the lock:

- `TreeInvariant`: `IInv` holds in every reachable state; `TypeCorrect`,
  `NoHeaderTwice`, `WalksStayInTree`, `UnsetOnlyWhileLinking`, `NoBlockForgotten` are its parts;
- `LostOnlyWhenGivenUp`: the action property `KeptUntilGivenUp`, up to the blocks of insertions that meet (`Clashing`, none with the lock);
- `LockedMinesOnDeepest`: `DeepestIsMax`, assuming `Locked`; with it, that the deepest block has its header.

*Argument.* `TreesDisjoint` and `TreesConnected` are not inductive: when a header is stored
below a tree one must know that the tree it is the root of is another one, and that
moving it creates no cycle. `Rooted` says so through depths: a header is one deeper than
its parent, and the root of an incomplete tree is its highest node, so a tree cannot be
moved below itself. `Steps` says for each place of `mine_new_block` where its block is, and that only this block may be a deepest
one without its header. Each
action has its lemma (`PeerMinesIInv`, `AttachIInv`, ...); `NewHeaderKeeps` says that
a new header changes no old depth. For `DeepestIsMax` the lock makes the block that was read the
deepest one until the mined block is linked (`MinerReadsStable`); from then until `MineDeepest` the maximum is the linked one (`Top`).

Each step of `HeaderSync` is one of `ChainTree` or leaves the chain alone (`StepImplements`), by its definition; hence the invariants of the chain
hold while its headers come from a peer (`SyncedTreesSound`, `SyncedMinesOnDeepest`). The proofs assume `ConstantsAssumption` only.

### Rounds

`SnowballRoundProofs` proves, for any nodes, `CONCURRENCY_BLOCKS`, first group and bounds, with loss, repeated messages and stray reads:
`RoundTypes`, `HistoryIsComplete`, `CountIsNumberOfBlocks`, `NoFullBlockWaits`, `FullBlocksHaveWon`,
`AnnouncementsCounted`, `NoSlotIsLost`, `NoNullPointer`.

*Argument.* The group is reasoned about once, in `ConsensusGroupProofs`: `Join` adds one block to the list and the
count, or to the list of a later round; `Advance` takes over a list whose blocks are its count; `Slots` has one entry
for each block. `TotalShare` counts a set of pairs (a place in the list and a number), so that the lemmas are about
cardinalities and need no induction over lists. `FullBlocksHaveWon` and `NoFullBlockWaits` need that a node's votes
are for blocks of its own (`Owners`), and that a newly mined block is none of those before (`Numbered`). `NotOvercounted` is not inductive: `Counted` adds the announcements still on their way, so
that what a node counts for a miner plus what it has yet to receive from it is at most what the miner has made and the connection has repeated, in
the first round; `Again` bounds the repetitions by those that were made. `SlotsKept` needs `FirstSlots`: the queue of the leader, the blocks mined, the requests and the
acknowledgements on their way belong together. An acknowledgement does not name its round, so `SlotsKept` speaks of the
first round only: in a later one the code does lose slots (see above).

`NoNullPointer` is about who may be asked. A handler follows a null pointer when it looks its own node up in a group
that does not hold it. `Early` says that until a second round starts this cannot be: who has announced itself is in its own group as
long as that is in round 1 (`KnowsItself`), and who has not is in no queue, owns no block and gets no request,
question or answer (`OwnedFirst`, `QueuedFirst`, `AllDue`). That a question only goes to nodes that have announced
themselves is `Counted` again: a member's share is at most what it has announced, with the copies; a copy is of a message that was sent, so who has announced nothing has no share (`Within`). A node that has left round 1 answers from its
history and refuses where it was no member. The invariant ends with the second round (`SecondStays`: it does not end again), where a node of round 2
may count a member that announced itself for round 1; TLC finds the crash there (two nodes, both in their second round), so a statement for
all rounds would be false.

### Miner thread

`MinerWakeupProofs`: `MinerIsStopped` and `OneAnnouncementIsLate`, for any peers and rounds. The invariant follows a
started round through the places of both threads: after the handler has cleared `mining` or posted the
interrupt, the miner has a test before it that it fails (`Halted`); the late announcement is the one
whose join was refused, and after it the count sends the miner to `start` (`LastWord`).

### Bodies

`BodySyncProofs`: `BodySyncTypes`, `NoBodyForgotten`, `BodyNotSentTwice`, and `ExchangeSpreads`, the refinement of `Spread`,
for any nodes, blocks, links and limits. `Told` says of each message what its sender holds: an offer and a body come from a node
that has the body. `Single` counts the requests and answers for one body over all channels, and ties them to the entry of
`waiting` that allows the request; messages that stem from a second copy are left out of the count, since the code
answers a request that comes twice twice. A step maps to the step of `Spread` of the same name, or to none.

### Connections

`LinkProofs`: `LinkTypes`, `BuffersBeginAtMessages`, `QueueNeverStops`, `AtMostTwoWrites`, and `LinkIsChannel`, for any
script of messages and number of sessions. `Framed` says that the tokens of a session alternate, with the tokens of one message next to each
other, up to a cut at the end of a broken session. `Few` says that `strand_proceed` waits at most once, and
counts as a write; `Ordered` that queue, posted functions and what was sent last are in order. The refinement
mapping `Complete` takes every second token: a read that cuts a message changes nothing, and `HandleNext` takes a message or
drops a repeated one, as `Channel` does.

### OHIE

`OhieNodeProofs`: `OhieTypes`, `PoolFilesNotReused`, `CommittedIsFinal`, `NodesAgree` and `BarNeverFalls`, for any number of
chains and nodes, any `T_DISCARD`, and any blocks to start from (`StartAssumption`: a block comes after its parent and
its trailing block, and there are no forks at first).

*Argument.* `Path` and `Settled` are recursive functions over block numbers. The prover has no induction, but it has
the least element of a set of naturals: that a path is in its chain, that depth and `next_rank` grow along it (`LineShape`), that it
contains the paths of its blocks (`LineInLine`) and has no forks (`LineIsLinear`), and where the block `T_DISCARD`
steps up is (`AboveShape`), each follow since the set of counterexamples has no least element (`NoLeast`). From these: when the deepest
block of a chain changes and the new path still holds the settled block, the new settled block is on the same path, not
higher (`SettledFollows`), so the bar and what is confirmed can only grow (`NodeKeeps`). That gives `BarNeverFalls`
and, with `Kept`, `CommittedIsFinal`: a block of the path behind an edge has a `next_rank` above that of the edge, hence above the bar. `NodesAgree` needs
no history: of two nested settled paths, a block of the longer one behind the end of the shorter one lies above the
lower bar. `PoolFilesNotReused` needs `Numbered`: the number of a block held in full is in `received_numbers_of_pool` or
below the counter; a free number exists since only finitely many are used.

### Algorithms

`AlgorithmsProofs`: `SearchableHolds`, `ProofBindsHolds`, `NotRepeatedHolds`, for any hashes and insertions, any number of chains,
any number of blocks, times, and pool sizes (`PackAssumption`: a block is no larger than the pool, else the script ends
with an index error).

*Search tree.* The invariant `TreeInv` gives every placed node (the set `P`) the turns that lead to it from the
root (`A`): a block hangs below a pointer only if its hash takes all of them (`Belongs`), and a thread on its way down
or up follows placed nodes only (`Way`). Writing a pointer again with what was read keeps this, whichever thread was
faster; without a clash the nodes on the way stay in the tree (`Along`), so that what is written there is in it. `Visits`
and `Reachable` are stated as membership in every set closed under the step, so no recursion is needed
(`PlacedFound`, `ReachedStay`).

*Merkle.* A hash is the pair of what is hashed, hence a node above a sibling determines the node below and its side
(`JoinedOnce`). `MerkleInv` follows the chain from its leaf to the root while the proof is made (`Trail`: each level's node, place
and sibling; `Single`: no other node of the level is equal), and compares this trail with that of the claim while it is
checked. The size of the tree is a recursive function; that it is defined and fits the chains follows from the least number
for which it would not (`SizeExists`, `SizeFits`).

*Packaging.* `RankTaken` says that the elements of a finite ordered set have the ranks 1 to its size, by counting, so that
`Arranged` takes from the pool only what is there (`ArrangedType`). `PackSteady`: nothing of a delivered block is in the pool, since what is new has a
new number (`Numbers`, `Delivered`); what the scan has passed without delivering is too close to the next block (`Passed`), and as times
do not fall, a block found to be old enough has none such before it. With the mapping strategy a block holds
only its miner's digit (`Mapped`).

### Only model-checked

- Liveness under fairness (`GapCloses`, `RoundEnds`, `StartStops`, `Obtained`, `Arrives`): out of reach of this prover.
- `PatientEnough` of `HeaderSync` and `LostExposed` of `HashTree`: they would need the places of all messages about a root, and of
  both threads in the tree at once, in an invariant that is not written yet.
- The refuted claims `EnoughVotes` and `AwakeMiner` are violated by the code.

Every other invariant and every action property that a passing run checks is stated by a theorem, and so are the refinements of `Spread` and `Channel`.

What the modules were changed for, to be reasoned about: `TotalShare`, `Slots` and `InOrder` are no folds; `Arranged` stands for
a filter and a sort of the pool, and `Visits` and `Reachable` of `HashTree` are closed sets;
`Extend` stands for the merge of two maps; `Complete` and `Underway` are names for what the properties of `Link` and
`BodySync` speak of; constants have their types as assumptions. The behaviours are the same.

## Not modelled

- `total_ordering` of Snowball: it sets two times of the full blocks on the deepest paths, which only the printed statistics read.
- `#ping` and the counters of the statistics: a ping is forwarded when it is new, or has come by a
  shorter way than before; it only measures the network.
- `#transaction` and the files of the pool: storing and reading of files; what the choice of
  transactions depends on is in `OhieNode` (pool numbers) and `Packaging` (strategies).
- The list of peers is fixed: the code adds the nodes it hears from and never removes one.
- Configuration, keys, addresses, machine identity, printing, the client, the generator and the
  other Python scripts (I/O and plots without protocol state).

## What is left

- Liveness is checked on the instances above only; `PatientEnough` and `LostExposed` could be proved.
- `SnowballRound` takes the miner's announcement as one step. `MinerWakeup` is no refinement of it: a miner announces the round it has read
  before its sleep, also when its own join was refused. `OneLateAnnouncement` bounds the difference, and
  `SnowballRound` allows announcements that come late.
- The rounds from the second on: what the code promises there needs a definition of the group that nodes agree on,
  which the code does not have (announcements are counted by each node for itself).
