------------------------------ MODULE OhieNode ------------------------------
(***************************************************************************)
(* OHIE: nodes that mine on several chains at once, and the order in which *)
(* they commit the blocks of all chains.  A new block extends the deepest  *)
(* block of the chain its hash selects, and its rank places it after the   *)
(* block with the highest next_rank of all chains, its trailing block.     *)
(*                                                                         *)
(* Source: OHIE_with_TX_Pool/code/miner.cpp (mine_new_block),              *)
(* Blockchain.cpp (add_received_block, get_number_of_pool_block,           *)
(* set_block_full, update_blocks_commited_time), process_buffer.cpp        *)
(* (#full_block).                                                          *)
(*                                                                         *)
(* Abstractions.  A header is learned when its parent is there, one at a   *)
(* time: HeaderSync shows how the tree comes to that; the messages for a   *)
(* body are BodySync's.  Every block verifies: proofs are those of Merkle. *)
(* time_commited is set or not; time_partial, a statistic of single chains, *)
(* is left out.  Files of the pool never run out.                          *)
(***************************************************************************)
EXTENDS Integers, FiniteSets, Sequences, FiniteSetsExt, Functions

CONSTANTS
    Node,
    CHAINS,
    T_DISCARD,    \* blocks at the end of a chain that are not settled
    Start,        \* blocks that every node holds at first, without forks
    Quotas        \* bound: for one q of these, n mines q[n][c] blocks in chain c

Chain == 1 .. CHAINS
Genesis(c) == [chain |-> c, parent |-> 0, trailing |-> 0, rank |-> 0,
               next_rank |-> 0, depth |-> 0, number |-> 0]
Records == [chain : Chain, parent : Nat, trailing : Nat, rank : Nat,
            next_rank : Nat, depth : Nat, number : Nat]

\* Block b of the blocks m comes after its parent, in the chain and the order.
Continues(m, b) ==
    /\ m[b].parent \in 1 .. b - 1 /\ m[b].trailing \in 1 .. b - 1
    /\ m[b].chain = m[m[b].parent].chain
    /\ m[b].depth = m[m[b].parent].depth + 1
    /\ m[b].next_rank > m[m[b].parent].next_rank

ASSUME OhieAssumption ==
    /\ CHAINS \in Nat \ {0} /\ T_DISCARD \in Nat
    /\ Quotas \subseteq [Node -> [Chain -> Nat]]

ASSUME StartAssumption ==
    /\ Start \in Seq(Records)
    /\ LET all == [c \in Chain |-> Genesis(c)] \o Start
       IN  \A b \in CHAINS + 1 .. CHAINS + Len(Start) :
             /\ Continues(all, b)
             /\ \A a \in all[b].parent + 1 .. b - 1 : all[a].chain # all[b].chain

VARIABLES
    made,        \* history: the blocks by number, the genesis blocks first
    left,        \* bound: left[n][c] blocks are still mined by n in chain c
    seen,        \* seen[n] : blocks n held in full when it mined a block
    known,       \* known[n] : blocks in the trees of n
    deepest,     \* deepest[n][c] : the deepest block of chain c
    full,        \* full[n] : blocks with is_full_block set
    numbers,     \* numbers[n] : received_numbers_of_pool
    next,        \* next[n] : number_of_pool_block
    committed,   \* committed[n] : blocks with time_commited set
    reorged      \* nodes where more than T_DISCARD blocks left a deepest path

vars == <<made, left, seen, known, deepest, full, numbers, next, committed,
          reorged>>

Block == DOMAIN made

\* The blocks from b up to the genesis block; 0 stands for the null pointer.
Path(b) ==
    LET path[x \in 0 .. b] == IF x = 0 THEN {}
                              ELSE {x} \cup path[made[x].parent]
    IN  path[b]

\* T_DISCARD steps up from b, or 0.
Settled(b) ==
    LET up[k \in 0 .. T_DISCARD] ==
          IF k = 0 THEN b
          ELSE IF up[k - 1] = 0 THEN 0 ELSE made[up[k - 1]].parent
    IN  up[T_DISCARD]

-----------------------------------------------------------------------------
(***************************************************************************)
(* Mining.                                                                 *)
(***************************************************************************)

\* The first of the deepest blocks with the highest next_rank.
Trailing(n) ==
    LET highest == Max({made[deepest[n][c]].next_rank : c \in Chain})
    IN  deepest[n][Min({c \in Chain :
                          made[deepest[n][c]].next_rank = highest})]

\* get_number_of_pool_block: from next[n] on, the first that nobody has used.
PoolNumber(n) ==
    Min({k \in next[n] .. next[n] + Cardinality(numbers[n]) :
           k \notin numbers[n]})

Mined(n, c) ==
    LET parent == made[deepest[n][c]]
        trailing == made[Trailing(n)]
    IN  [chain |-> c, parent |-> deepest[n][c], trailing |-> Trailing(n),
         rank |-> parent.next_rank,
         next_rank |-> Max({trailing.next_rank, parent.next_rank + 1}),
         depth |-> parent.depth + 1, number |-> PoolNumber(n)]

\* Mutant: the number in the pool is not taken.
MineSameNumber(n, c) ==
    LET b == Len(made) + 1
    IN  /\ left[n][c] > 0
        /\ left' = [left EXCEPT ![n][c] = @ - 1]
        /\ made' = Append(made, Mined(n, c))
        /\ seen' = Append(seen, full[n])
        /\ known' = [known EXCEPT ![n] = @ \cup {b}]
        /\ full' = [full EXCEPT ![n] = @ \cup {b}]
        /\ deepest' = [deepest EXCEPT ![n][c] = b]
        /\ UNCHANGED <<numbers, next, committed, reorged>>

\* mine_new_block: the hash selects the chain, and the block is full at once.
Mine(n, c) ==
    LET b == Len(made) + 1
    IN  /\ left[n][c] > 0
        /\ left' = [left EXCEPT ![n][c] = @ - 1]
        /\ made' = Append(made, Mined(n, c))
        /\ seen' = Append(seen, full[n])
        /\ known' = [known EXCEPT ![n] = @ \cup {b}]
        /\ full' = [full EXCEPT ![n] = @ \cup {b}]
        /\ deepest' = [deepest EXCEPT ![n][c] = b]
        /\ next' = [next EXCEPT ![n] = PoolNumber(n) + 1]
        /\ UNCHANGED <<numbers, committed, reorged>>

-----------------------------------------------------------------------------
(***************************************************************************)
(* Learning the blocks of others.                                          *)
(***************************************************************************)

\* Mutant: the last block that was learned becomes the deepest one.
LearnHeaderLatest(n, b) ==
    LET c == made[b].chain
        old == deepest[n][c]
    IN  /\ b \notin known[n] /\ made[b].parent \in known[n]
        /\ known' = [known EXCEPT ![n] = @ \cup {b}]
        /\ deepest' = [deepest EXCEPT ![n][c] = b]
        /\ reorged' = IF Settled(old) \notin Path(b) \cup {0}
                      THEN reorged \cup {n} ELSE reorged
        /\ UNCHANGED <<made, left, seen, full, numbers, next, committed>>

\* add_received_block with the parent in the tree: a deeper block becomes the
\* deepest one, which may leave blocks of the old path behind.
LearnHeader(n, b) ==
    LET c == made[b].chain
        old == deepest[n][c]
        deeper == made[b].depth > made[old].depth
    IN  /\ b \notin known[n] /\ made[b].parent \in known[n]
        /\ known' = [known EXCEPT ![n] = @ \cup {b}]
        /\ deepest' = IF deeper THEN [deepest EXCEPT ![n][c] = b] ELSE deepest
        /\ reorged' = IF deeper /\ Settled(old) \notin Path(b) \cup {0}
                      THEN reorged \cup {n} ELSE reorged
        /\ UNCHANGED <<made, left, seen, full, numbers, next, committed>>

\* #full_block: the number of the block is used; the block is full if its
\* trailing block is in the trees, which is asked for otherwise.
LearnBody(n, b) ==
    /\ b \in known[n] \ full[n]
    /\ numbers' = [numbers EXCEPT ![n] = @ \cup {made[b].number}]
    /\ full' = IF made[b].trailing \in known[n]
               THEN [full EXCEPT ![n] = @ \cup {b}] ELSE full
    /\ UNCHANGED <<made, left, seen, known, deepest, next, committed,
                   reorged>>

-----------------------------------------------------------------------------
(***************************************************************************)
(* Committing.                                                             *)
(***************************************************************************)

\* The end of what is settled in chain c, 0 if there is nothing.
Edge(n, c) == Settled(deepest[n][c])
Prefix(n) == UNION {Path(Edge(n, c)) : c \in Chain}

\* Mutant: the bar is the highest of the ranks, not the lowest.
BarHighest(n) ==
    IF \E c \in Chain : Edge(n, c) = 0 THEN 0
    ELSE Max({made[Edge(n, c)].next_rank : c \in Chain})

\* Mutant: a chain that is too short does not count.
BarSkips(n) ==
    LET edges == {Edge(n, c) : c \in Chain} \ {0}
    IN  IF edges = {} THEN 0 ELSE Min({made[e].next_rank : e \in edges})

\* confirm_bar, the lowest next_rank at an edge; nothing is below 0.
Bar(n) ==
    IF \E c \in Chain : Edge(n, c) = 0 THEN 0
    ELSE Min({made[Edge(n, c)].next_rank : c \in Chain})

Confirmed(n) == {b \in Prefix(n) : made[b].next_rank < Bar(n)}

\* Mutant: blocks are committed once they are settled in their own chain.
UpdateCommitedPartial(n) ==
    LET settled == Prefix(n) \cap full[n]
    IN  /\ ~(settled \subseteq committed[n])
        /\ committed' = [committed EXCEPT ![n] = @ \cup settled]
        /\ UNCHANGED <<made, left, seen, known, deepest, full, numbers, next,
                       reorged>>

\* update_blocks_commited_time, when it has something to set.
UpdateCommited(n) ==
    LET confirmed == Confirmed(n) \cap full[n]
    IN  /\ ~(confirmed \subseteq committed[n])
        /\ committed' = [committed EXCEPT ![n] = @ \cup confirmed]
        /\ UNCHANGED <<made, left, seen, known, deepest, full, numbers, next,
                       reorged>>

-----------------------------------------------------------------------------
Initially == 1 .. CHAINS + Len(Start)

Init ==
    /\ made = [c \in Chain |-> Genesis(c)] \o Start
    /\ left \in Quotas
    /\ seen = [b \in Initially |-> {}]
    /\ known = [n \in Node |-> Initially]
    /\ deepest = [n \in Node |->
                    [c \in Chain |-> Max({b \in Initially : made[b].chain = c})]]
    /\ full = [n \in Node |-> Initially]
    /\ numbers = [n \in Node |-> {b.number : b \in Range(Start)}]
    /\ next = [n \in Node |-> 1]
    /\ committed = [n \in Node |-> {}]
    /\ reorged = {}

Next ==
    \E n \in Node :
       \/ \E c \in Chain : Mine(n, c)
       \/ \E b \in Block : LearnHeader(n, b) \/ LearnBody(n, b)
       \/ UpdateCommited(n)

Spec == Init /\ [][Next]_vars

-----------------------------------------------------------------------------
(***************************************************************************)
(* Properties.                                                             *)
(***************************************************************************)

\* Types, and what the code relies on: the trees are closed upwards and the
\* deepest block of a chain is the deepest.
TypeOK ==
    /\ made \in Seq(Records)
    /\ seen \in [Block -> SUBSET Block]
    /\ known \in [Node -> SUBSET Block]
    /\ deepest \in [Node -> [Chain -> Block]]
    /\ numbers \in [Node -> SUBSET Nat] /\ next \in [Node -> Nat \ {0}]
    /\ \A n \in Node :
         /\ committed[n] \subseteq full[n] /\ full[n] \subseteq known[n]
         /\ \A b \in known[n] :
              /\ made[b].parent \in known[n] \cup {0}
              /\ made[b].depth <= made[deepest[n][made[b].chain]].depth
    /\ reorged \subseteq Node

\* The settled parts of two nodes are prefixes of one another in every chain.
Comparable(n, m) ==
    \A c \in Chain : \/ Path(Edge(n, c)) \subseteq Path(Edge(m, c))
                     \/ Path(Edge(m, c)) \subseteq Path(Edge(n, c))

\* Nodes that agree on the settled parts of the chains confirm the same blocks,
\* up to the lower of their bars, however far each has come in each chain.
OrderAgreed ==
    \A n \in Node : \A m \in Node \ {n} :
       Comparable(n, m) =>
         LET bar == Min({Bar(n), Bar(m)})
         IN  {b \in Confirmed(n) : made[b].next_rank < bar}
               = {b \in Confirmed(m) : made[b].next_rank < bar}

\* What is committed stays where it is, and no block comes to stand before it:
\* every block of a deepest path with a lower next_rank is settled.
CommittedSettled ==
    \A n \in Node \ reorged :
       /\ committed[n] \subseteq Confirmed(n)
       /\ \A c \in Chain : \A b \in Path(deepest[n][c]) \ Prefix(n) :
            \A d \in committed[n] : made[b].next_rank > made[d].next_rank

\* The bar of a node never falls unless it has lost more than T_DISCARD blocks.
BarGrows ==
    [][\A n \in Node : n \notin reorged' => Bar(n)' >= Bar(n)]_vars

\* No node puts a pool block in a block of its own that a block it holds in full
\* has used: repeated transactions come from nodes that mine at the same time.
NoRepeat ==
    \A b \in Block : \A c \in seen[b] : c > CHAINS => made[b].number # made[c].number
=============================================================================
