------------------------------ MODULE ChainTree ------------------------------
(***************************************************************************)
(* One chain of one node: the main tree of block headers, the incomplete   *)
(* trees whose root is not linked to the main tree yet, the pointer to the *)
(* deepest block, and the bookkeeping of the blocks whose body is missing. *)
(*                                                                         *)
(* Source: class Blockchain (Snowball_Main/code/Blockchain.cpp) as it is   *)
(* driven by process_buffer.cpp (network thread), MyServer::run_network    *)
(* (timer) and mine_new_block (miner.cpp, miner or network thread).        *)
(*                                                                         *)
(* Abstractions.  A hash is an element of Hash; the binary search tree     *)
(* that indexes the nodes of a tree is the set of its hashes; a clock test *)
(* "older than the interval" is a choice, taken anew at every poll.  The   *)
(* other chains of the node do not share state with this one, except for   *)
(* maps keyed by hash, which are restricted here to the hashes of the chain*)
(*                                                                         *)
(* Threads.  A handler of the network thread is one step.  mine_new_block  *)
(* is cut where the network thread may see it: the parent is read, the     *)
(* block is linked, deepest is set, its header is set.  Without the lock   *)
(* the two insertions may meet in the search tree; what they may lose then *)
(* is what one thread has put in while the other was at it (module         *)
(* HashTree), and what a handler reads of deepest meanwhile is a choice.   *)
(***************************************************************************)
EXTENDS Integers, FiniteSets

CONSTANTS
    Hash,                       \* hashes of the blocks that may ever be mined
    Genesis,                    \* hash of the root of the main tree
    Idle,                       \* nobody is in mine_new_block
    NO_ASKS_BEFORE_REMOVING,    \* polls for a root before its tree is dropped
    Locked                      \* network handlers take bc->lock (OHIE: TRUE,
                                \* Snowball: FALSE, the locks are commented out)

Block == Hash \cup {Genesis}

\* A mine_new_block in progress: the hash drawn, the deepest block read, and what
\* has been done last.
Candidate == [hash : Hash, parent : Block,
              at : {"drawn", "linked", "deepest", "assigned"}]

ASSUME ConstantsAssumption ==
    /\ Genesis \notin Hash
    /\ Idle \notin Candidate
    /\ NO_ASKS_BEFORE_REMOVING \in Nat
    /\ Locked \in BOOLEAN

VARIABLES
    header,      \* headers mined anywhere so far: hash -> [parent, depth]
    main,        \* hashes that are found in the tree chains[chain_id]
    lost,        \* nodes of that tree which are below their parent, and are not
                 \* found by their hash any more
    forest,      \* list inchains[chain_id]: records [root, nodes, asks]
    assigned,    \* nodes of the trees whose nb points to a header
    deepest,     \* deepest[chain_id]
    full,        \* blocks of main with is_full_block set
    nonFull,     \* keys of received_non_full_blocks
    validating,  \* keys of blocks_in_phase_validate
    waiting,     \* keys of waiting_for_full_blocks
    mining,      \* the mine_new_block in progress, or Idle
    besideMiner,    \* history: nodes that were attached since MineBegin, while
                    \* the block is not linked yet
    besideNetwork   \* history: blocks mined here that were linked while the
                    \* network thread may have been in a handler

races == <<besideMiner, besideNetwork>>
vars == <<header, main, lost, forest, assigned, deepest, full, nonFull,
          validating, waiting, mining, races>>

Header == [parent : Block, depth : Nat \ {0}]
Tree == [root : Hash, nodes : SUBSET Hash, asks : 0 .. NO_ASKS_BEFORE_REMOVING]

Mined == DOMAIN header
Parent(h) == header[h].parent
Depth(h) == IF h = Genesis THEN 0 ELSE header[h].depth

InForest == UNION {t.nodes : t \in forest}

\* is_in_incomplete: h sits below its parent in one of the incomplete trees.
IsInIncomplete(h) == \E t \in forest : h \in t.nodes /\ h # t.root

\* add_received_block returns true, and the handler asks all peers for the
\* parent of h.
NeedParent(h) == h \notin main /\ Parent(h) \notin main /\ ~IsInIncomplete(h)

Init ==
    /\ header = [h \in {} |-> [parent |-> Genesis, depth |-> 1]]
    /\ main = {Genesis}
    /\ lost = {}
    /\ forest = {}
    /\ assigned = {Genesis}
    /\ deepest = Genesis
    /\ full = {Genesis}
    /\ nonFull = {}
    /\ validating = {}
    /\ waiting = {}
    /\ mining = Idle
    /\ besideMiner = {}
    /\ besideNetwork = {}

\* mine_new_block has done a given step last.
MiningAt(step) == mining # Idle /\ mining.at = step

\* The network thread may run: it waits for the miner only if it takes the lock.
NetworkRuns == Locked => mining = Idle

\* A handler of the network thread runs from its beginning to its end.  The next
\* one has begun after whatever the miner has done by now.
NetworkStep ==
    /\ NetworkRuns
    /\ besideNetwork' = IF mining = Idle \/ MiningAt("drawn") THEN {}
                        ELSE besideNetwork

NewHeader(h, p) ==
    header' = [x \in Mined \cup {h} |->
                 IF x = h THEN [parent |-> p, depth |-> Depth(p) + 1]
                          ELSE header[x]]

\* Headers that other nodes may know: the block being mined is sent to nobody.
Announced == {h \in Mined : mining # Idle => h # mining.hash}

\* h is a random number nobody has used: not the one being mined here either.
Fresh(h) == h \notin Mined /\ (mining # Idle => mining.hash # h)

\* Another node mines h on top of any block it may know.
PeerMines(h, p) ==
    /\ Fresh(h)
    /\ p \in Announced \cup {Genesis}
    /\ NewHeader(h, p)
    /\ UNCHANGED <<main, lost, forest, assigned, deepest, full, nonFull,
                   validating, waiting, mining, races>>

-----------------------------------------------------------------------------
(***************************************************************************)
(* add_received_block, called for #process_block and #verified_1.  Headers *)
(* arrive in any order, any number of times.                               *)
(***************************************************************************)

\* The two early returns: h is in the main tree, or below its parent in an
\* incomplete one.
ReceiveKnown(h) ==
    /\ NetworkStep
    /\ h \in Announced
    /\ h \in main \/ (Parent(h) \notin main /\ IsInIncomplete(h))
    /\ UNCHANGED <<header, main, lost, forest, assigned, deepest, full, nonFull,
                   validating, waiting, mining, besideMiner>>

\* find_max_depth: a deepest node of a set, ties broken by arrival order.
DeepestOf(nodes) == {d \in nodes : \A n \in nodes : Depth(n) <= Depth(d)}

\* Mutant: a header is linked whether its parent is in main or not.
AttachAnywhere(h) ==
    /\ NetworkStep
    /\ h \in Announced \ (main \cup InForest)
    /\ main' = main \cup {h}
    /\ lost' = lost \ {h}
    /\ assigned' = assigned \cup {h}
    /\ nonFull' = nonFull \cup {h}
    /\ UNCHANGED <<header, forest, deepest, full, validating, waiting, mining,
                   besideMiner>>

\* Mutant: of the tree that is linked only the root is examined.
AttachShallow(h) ==
    LET below == {t \in forest : t.root = h}
    IN  /\ NetworkStep
        /\ h \in Announced \ main
        /\ Parent(h) \in main
        /\ main' = main \cup {h} \cup UNION {t.nodes : t \in below}
        /\ forest' = forest \ below
        /\ assigned' = assigned \cup {h}
        /\ nonFull' = nonFull \cup {h}
        /\ deepest' = IF Depth(h) > Depth(deepest) THEN h ELSE deepest
        /\ UNCHANGED <<header, lost, full, validating, waiting, mining,
                       besideMiner>>

\* The nodes that may be lost when the network thread puts nodes into main.
MayMeet(nodes) == IF besideNetwork = {} THEN {}
                  ELSE (besideNetwork \cap main) \cup nodes

\* The outcomes of comparing deepest with a node d and replacing it.  If the miner
\* has linked a block meanwhile, the depth read may be an old one or, while the
\* header is not set, any number; and deepest may be overwritten.
Deeper(d) == IF besideNetwork = {}
             THEN {IF Depth(d) > Depth(deepest) THEN d ELSE deepest}
             ELSE {d, deepest}

\* The parent is in main: h is linked below it, with the whole incomplete tree
\* whose root it is, if there is one.  If h itself is not found after that, its
\* header is not set.
Attach(h) ==
    LET below == {t \in forest : t.root = h}
        nodes == {h} \cup UNION {t.nodes : t \in below}
    IN  /\ NetworkStep
        /\ h \in Announced \ main
        /\ Parent(h) \in main
        /\ forest' = forest \ below
        /\ nonFull' = nonFull \cup (nodes \ full)
        /\ besideMiner' = besideMiner \cup (IF MiningAt("drawn") THEN nodes ELSE {})
        /\ \E gone \in SUBSET MayMeet(nodes) :
             /\ main' = (main \cup nodes) \ gone
             /\ lost' = (lost \ nodes) \cup gone
             /\ full' = full \ gone
             /\ \/ /\ h \in gone
                   /\ UNCHANGED <<assigned, deepest>>
                \/ /\ h \notin gone
                   /\ assigned' = assigned \cup {h}
                   /\ \E d \in DeepestOf(nodes) : deepest' \in Deeper(d)
        /\ UNCHANGED <<header, validating, waiting, mining>>

\* Mutant: a tree that was moved below another stays in the list.
AddToIncompleteKeepsOld(p, h) ==
    LET ph == {t \in forest : p \in t.nodes}
        moved == UNION {t.nodes : t \in {s \in forest : h \in s.nodes}}
    IN  (forest \ ph) \cup
          IF ph = {} THEN {[root |-> p, nodes |-> {p, h} \cup moved, asks |-> 0]}
          ELSE {[t EXCEPT !.nodes = @ \cup {h} \cup moved] : t \in ph}

\* Mutant: a tree is moved below another without its nodes.
AddToIncompleteForgets(p, h) ==
    LET ch == {t \in forest : h \in t.nodes}
        ph == {t \in forest : p \in t.nodes}
    IN  IF ph = {}
        THEN (forest \ ch) \cup {[root |-> p, nodes |-> {p, h}, asks |-> 0]}
        ELSE (forest \ (ch \cup ph)) \cup
               {[t EXCEPT !.nodes = @ \cup {h}] : t \in ph}

\* Mutant: a root that is new keeps the count of the one below it.
AddToIncompleteKeepsCount(p, h) ==
    LET ch == {t \in forest : h \in t.nodes}
        ph == {t \in forest : p \in t.nodes}
        moved == UNION {t.nodes : t \in ch}
    IN  IF ph = {} /\ ch # {}
        THEN (forest \ ch) \cup {[t EXCEPT !.root = p, !.nodes = @ \cup {p}] : t \in ch}
        ELSE IF ph = {}
        THEN forest \cup {[root |-> p, nodes |-> {p, h}, asks |-> 0]}
        ELSE (forest \ (ch \cup ph)) \cup
               {[t EXCEPT !.nodes = @ \cup {h} \cup moved] : t \in ph}

\* add_block_to_incomplete(l, p, h): a new tree, a leaf of the tree of p, a new
\* root above h, or the tree of h moved below p.
AddToIncomplete(p, h) ==
    LET ch == {t \in forest : h \in t.nodes}
        ph == {t \in forest : p \in t.nodes}
        moved == UNION {t.nodes : t \in ch}
    IN  IF ph = {}
        THEN (forest \ ch) \cup
               {[root |-> p, nodes |-> {p, h} \cup moved, asks |-> 0]}
        ELSE (forest \ (ch \cup ph)) \cup
               {[t EXCEPT !.nodes = @ \cup {h} \cup moved] : t \in ph}

\* Mutant: the node is linked without its header.
StoreIncompleteUnset(h) ==
    /\ NetworkStep
    /\ h \in Announced
    /\ NeedParent(h)
    /\ forest' = AddToIncomplete(Parent(h), h)
    /\ UNCHANGED <<header, main, lost, assigned, deepest, full, nonFull,
                   validating, waiting, mining, besideMiner>>

\* The parent is not in main: h is kept aside and its parent is asked for.
StoreIncomplete(h) ==
    /\ NetworkStep
    /\ h \in Announced
    /\ NeedParent(h)
    /\ forest' = AddToIncomplete(Parent(h), h)
    /\ assigned' = assigned \cup {h}
    /\ UNCHANGED <<header, main, lost, deepest, full, nonFull, validating,
                   waiting, mining, besideMiner>>

\* Mutant: one poll too many before a tree is dropped.
AskIncompleteOnceMore(due) ==
    LET dropped == {t \in due : t.asks > NO_ASKS_BEFORE_REMOVING}
    IN  /\ NetworkStep
        /\ due # {}
        /\ forest' = (forest \ due) \cup
                       {[t EXCEPT !.asks = @ + 1] : t \in due \ dropped}
        /\ assigned' = assigned \ ((UNION {t.nodes : t \in dropped}) \ lost)
        /\ UNCHANGED <<header, main, lost, deepest, full, nonFull, validating,
                       waiting, mining, besideMiner>>

\* get_incomplete_chain_hashes: the roots that are due are asked for again; a
\* tree asked for too often is unlinked.
AskIncomplete(due) ==
    LET dropped == {t \in due : t.asks >= NO_ASKS_BEFORE_REMOVING}
    IN  /\ NetworkStep
        /\ due # {}
        /\ forest' = (forest \ due) \cup
                       {[t EXCEPT !.asks = @ + 1] : t \in due \ dropped}
        /\ assigned' = assigned \ ((UNION {t.nodes : t \in dropped}) \ lost)
        /\ UNCHANGED <<header, main, lost, deepest, full, nonFull, validating,
                       waiting, mining, besideMiner>>

-----------------------------------------------------------------------------
(***************************************************************************)
(* Bodies of blocks.                                                       *)
(***************************************************************************)

\* #have_full_block: the first peer to offer the body is asked for it
\* (still_waiting_for_full_block).  Offers answer requests for blocks of main,
\* which may have been lost since.
HaveFullBlock(h) ==
    /\ NetworkStep
    /\ h \in Announced \cap ((main \cup lost) \ full)
    /\ h \notin waiting
    /\ waiting' = waiting \cup {h}
    /\ UNCHANGED <<header, main, lost, forest, assigned, deepest, full, nonFull,
                   validating, mining, besideMiner>>

\* set_block_full: the body has been accepted (#full_block), or the block has
\* won its vote (#answer_verified_1).
SetBlockFull(h) ==
    /\ NetworkStep
    /\ h \in Announced \cap (main \ full)
    /\ full' = full \cup {h}
    /\ nonFull' = nonFull \ {h}
    /\ waiting' = waiting \ {h}
    /\ UNCHANGED <<header, main, lost, forest, assigned, deepest, validating,
                   mining, besideMiner>>

\* get_non_full_blocks and remove_waiting_blocks, polled together: entries that
\* are due are asked for, or dropped when the body is there; old requests for
\* a body are forgotten.
AskFullBlocks(due, expired) ==
    /\ NetworkStep
    /\ nonFull' = nonFull \ (due \cap full)
    /\ waiting' = waiting \ expired
    /\ UNCHANGED <<header, main, lost, forest, assigned, deepest, full,
                   validating, mining, besideMiner>>

\* get_waiting_for_validate_phase_blocks: the vote on a due block is asked for
\* again; full blocks leave the map.
AskVotes(due) ==
    /\ NetworkStep
    /\ validating' = validating \ (due \cap full)
    /\ UNCHANGED <<header, main, lost, forest, assigned, deepest, full, nonFull,
                   waiting, mining, besideMiner>>

-----------------------------------------------------------------------------
(***************************************************************************)
(* mine_new_block.  The deepest block is read first; the new block is      *)
(* linked below it after its hash and its body file have been made.  The   *)
(* node of a linked block is malloc'ed: its nb is unset until the last     *)
(* step of add_block_by_parent_hash_and_chain_id.                          *)
(***************************************************************************)
MineBegin(h) ==
    /\ mining = Idle
    /\ Fresh(h)
    /\ mining' = [hash |-> h, parent |-> deepest, at |-> "drawn"]
    /\ UNCHANGED <<header, main, lost, forest, assigned, deepest, full, nonFull,
                   validating, waiting, races>>

\* add_block_by_parent_hash: the block is put into the tree, where it may hide
\* nodes that were attached since MineBegin.
MineLink ==
    /\ MiningAt("drawn")
    /\ mining.parent \in main
    /\ NewHeader(mining.hash, mining.parent)
    /\ \E gone \in SUBSET (besideMiner \cap main) :
         /\ main' = (main \ gone) \cup {mining.hash}
         /\ lost' = lost \cup gone
         /\ full' = full \ gone
    /\ mining' = [mining EXCEPT !.at = "linked"]
    /\ besideMiner' = {}
    /\ besideNetwork' = IF Locked THEN {} ELSE besideNetwork \cup {mining.hash}
    /\ UNCHANGED <<forest, assigned, deepest, nonFull, validating, waiting>>

\* The parent is not found any more ("Cannot find parent"): nothing is linked.
MineOrphan ==
    /\ MiningAt("drawn")
    /\ mining.parent \notin main
    /\ NewHeader(mining.hash, mining.parent)
    /\ mining' = [mining EXCEPT !.at = "assigned"]
    /\ besideMiner' = {}
    /\ UNCHANGED <<main, lost, forest, assigned, deepest, full, nonFull,
                   validating, waiting, besideNetwork>>

MineDeepest ==
    /\ MiningAt("linked")
    /\ mining.hash \in main
    /\ deepest' = mining.hash
    /\ mining' = [mining EXCEPT !.at = "deepest"]
    /\ UNCHANGED <<header, main, lost, forest, assigned, full, nonFull,
                   validating, waiting, races>>

\* The block just linked is not found again.
MineMissed ==
    /\ MiningAt("linked")
    /\ mining.hash \notin main
    /\ mining' = [mining EXCEPT !.at = "assigned"]
    /\ UNCHANGED <<header, main, lost, forest, assigned, deepest, full, nonFull,
                   validating, waiting, races>>

MineAssign ==
    /\ MiningAt("deepest")
    /\ assigned' = assigned \cup {mining.hash}
    /\ mining' = [mining EXCEPT !.at = "assigned"]
    /\ UNCHANGED <<header, main, lost, forest, deepest, full, nonFull,
                   validating, waiting, races>>

\* add_waiting_for_phase_1_blocks, and the lock is given back.
MineEnd ==
    /\ MiningAt("assigned")
    /\ validating' = validating \cup {mining.hash}
    /\ mining' = Idle
    /\ UNCHANGED <<header, main, lost, forest, assigned, deepest, full, nonFull,
                   waiting, races>>

MineStep == MineLink \/ MineOrphan \/ MineDeepest \/ MineMissed \/ MineAssign
              \/ MineEnd

Next ==
    \/ \E h \in Hash, p \in Block : PeerMines(h, p)
    \/ \E h \in Hash : ReceiveKnown(h)
    \/ \E h \in Hash : Attach(h)
    \/ \E h \in Hash : StoreIncomplete(h)
    \/ \E due \in SUBSET forest : AskIncomplete(due)
    \/ \E h \in Hash : HaveFullBlock(h)
    \/ \E h \in Hash : SetBlockFull(h)
    \/ \E due \in SUBSET nonFull, expired \in SUBSET waiting :
         AskFullBlocks(due, expired)
    \/ \E due \in SUBSET validating : AskVotes(due)
    \/ \E h \in Hash : MineBegin(h)
    \/ MineStep

Spec == Init /\ [][Next]_vars

-----------------------------------------------------------------------------
(***************************************************************************)
(* Properties.                                                             *)
(***************************************************************************)

TypeOK ==
    /\ Mined \subseteq Hash
    /\ header \in [Mined -> Header]
    /\ main \subseteq Block
    /\ lost \subseteq Hash
    /\ forest \subseteq Tree
    /\ assigned \subseteq Block
    /\ deepest \in Block
    /\ full \subseteq Block
    /\ nonFull \subseteq Hash
    /\ validating \subseteq Hash
    /\ waiting \subseteq Hash
    /\ mining \in Candidate \cup {Idle}
    /\ besideMiner \subseteq Hash
    /\ besideNetwork \subseteq Hash

\* A header is linked at one place only: no hash is in the main tree and in an
\* incomplete tree, or in two incomplete trees (insert_one_node would lose it,
\* "Same hash...bad").
TreesDisjoint ==
    /\ main \cap (InForest \cup lost) = {}
    /\ \A s, t \in forest : s # t => s.nodes \cap t.nodes = {}

\* Following parent pointers from any node stays in its tree and ends at the
\* root of that tree: nothing is linked below a block that was never there.
TreesConnected ==
    /\ \A h \in (main \cup lost) \ {Genesis} :
         h \in Mined /\ Parent(h) \in main \cup lost
    /\ \A t \in forest : \A h \in t.nodes \ {t.root} :
         h \in Mined /\ Parent(h) \in t.nodes

\* The node of h is there, and mine_new_block has not set its header yet.
Linking(h) == (MiningAt("linked") \/ MiningAt("deepest")) /\ h = mining.hash

\* find_max_depth, send_block_to_one_peer and total_ordering read b->nb of a
\* node without a test: every node has one but the root of an incomplete tree
\* and, for a moment, the block that mine_new_block links.
HeadersAssigned ==
    /\ \A h \in main : h \in assigned \/ Linking(h)
    /\ \A t \in forest : t.nodes \ {t.root} \subseteq assigned

\* Whenever a handler or the timer may run, deepest[chain_id] is a block of the
\* main tree with its header set, since its nb->depth is read without a test, and
\* no block is deeper, so the next block is mined on the longest branch known.
\* Needs the lock.
DeepestIsMax ==
    NetworkRuns => /\ deepest \in main \cap assigned
                   /\ \A h \in main : Depth(h) <= Depth(deepest)

\* Every block of the main tree without a body is still being chased: its body
\* is polled for, or the votes that complete it are.  The block in mine_new_block
\* is put to the vote at its end.
NonFullTracked ==
    \A h \in main \ full : \/ h \in nonFull \cup validating
                           \/ mining # Idle /\ h = mining.hash

\* What the properties above rest on.  The main tree holds its root, the deepest
\* block and the block being built upon; headers form a tree by depth; the root
\* of an incomplete tree is its highest node; only blocks of main are full.
Rooted ==
    /\ Genesis \in main /\ deepest \in main \cup lost /\ full \subseteq main
    /\ \A h \in Mined : /\ Parent(h) \in Mined \cup {Genesis}
                       /\ Depth(h) = Depth(Parent(h)) + 1
    /\ \A t \in forest : /\ t.root \in t.nodes /\ t.nodes \subseteq Mined
                        /\ \A h \in t.nodes : Depth(t.root) <= Depth(h)

\* Where mine_new_block is: its parent is in the tree, nobody else knows its block,
\* and deepest lacks its header only between the two assignments.
Steps ==
    /\ mining # Idle =>
         /\ mining.parent \in main \cup lost
         /\ (mining.hash \in Mined) = ~MiningAt("drawn")
         /\ mining.hash \notin InForest
         /\ \A h \in Mined : Parent(h) # mining.hash
    /\ MiningAt("linked") \/ MiningAt("deepest") =>
         mining.hash \in besideNetwork \/ Locked
    /\ deepest \in assigned \/ (MiningAt("deepest") /\ deepest = mining.hash)
    /\ Locked => lost = {} /\ besideMiner = {} /\ besideNetwork = {}

\* The inductive invariant.
IInv == TypeOK /\ Rooted /\ Steps /\ TreesDisjoint /\ TreesConnected
          /\ HeadersAssigned /\ NonFullTracked

\* Nodes of trees whose root has been asked for NO_ASKS_BEFORE_REMOVING times.
GivenUp == UNION {t.nodes : t \in {s \in forest :
                                     s.asks = NO_ASKS_BEFORE_REMOVING}}

\* Nodes that one thread has put into the tree, or is about to, while the other may
\* be putting nodes in as well: none with the lock.
Clashing ==
    besideMiner \cup besideNetwork \cup
      (IF besideNetwork = {} THEN {}
       ELSE UNION {t.nodes : t \in {s \in forest : /\ s.root \in Mined
                                                  /\ Parent(s.root) \in main}})

\* A header that was received is lost only with a tree whose root has been
\* asked for NO_ASKS_BEFORE_REMOVING times, or where two insertions meet; but
\* for these, main and full only grow.
KeptUntilGivenUp ==
    [][/\ (main \ main') \cup (full \ full') \subseteq Clashing
       /\ (main \cup InForest) \ (main' \cup InForest')
            \subseteq GivenUp \cup Clashing]_vars

\* "mutex of blockchain" in mine_new_block: with the lock, what it has read of the
\* chain still holds when the block is linked.  DeepestIsMax rests on it.
MinerReadsStable == MiningAt("drawn") => mining.parent = deepest
=============================================================================
