------------------------------ MODULE HashTree ------------------------------
(***************************************************************************)
(* The search tree in which a node finds the blocks of a chain by their    *)
(* hashes.  The miner thread inserts the block it has mined while the      *)
(* network thread inserts blocks and subtrees, and nothing keeps them      *)
(* apart.  Insertion goes down to an empty place and, on its way back up,  *)
(* writes every pointer it has followed again.                             *)
(*                                                                         *)
(* Source: Snowball_Main/code/Blockchain.cpp: find_block_by_hash,          *)
(* insert_block_only_by_hash, insert_one_node, insert_subtree_by_hash.     *)
(* A read or write of a pointer is one step; the build keeps their order.  *)
(* A subtree is inserted node by node, its root first.                     *)
(***************************************************************************)
EXTENDS Integers, Sequences, SequencesExt, FiniteSets

CONSTANTS
    Hashes,            \* positive numbers; 0 is the null pointer
    MinerInserts,      \* bounds: how many blocks a thread inserts
    NetworkInserts

ASSUME TreeAssumption ==
    /\ Hashes \in SUBSET (Nat \ {0})
    /\ MinerInserts \in Nat /\ NetworkInserts \in Nat

Thread == {"miner", "network"}
Side == {"left", "right"}

VARIABLES
    root,      \* the genesis block of the chain
    child,     \* child[h][side] : the pointers left and right
    todo,      \* todo[t] : blocks t inserts, one after the other
    path,      \* path[t] : pointers t has followed: [node, side, read]
    phase,     \* phase[t] : "idle", "down" or "up"
    value,     \* value[t] : where t is, or what it returns to the caller
    added,     \* history: the hashes whose insertion is over
    clashed,   \* history: a pointer was written that had changed since it was read
    exposed    \* history: hashes whose insertion ran beside one of the other thread

treeVars == <<root, child, todo, path, phase, value, added, clashed, exposed>>

NoChild == [s \in Side |-> 0]

\* The way on from node r for hash h.
SideOf(r, h) == IF r >= h THEN "left" ELSE "right"

\* Each thread inserts blocks of its own, in any order.
TreeInit ==
    \E r \in Hashes :
    \E m \in [1 .. MinerInserts -> Hashes \ {r}], s \in [1 .. NetworkInserts -> Hashes \ {r}] :
       /\ IsInjective(m) /\ IsInjective(s) /\ Range(m) \cap Range(s) = {}
       /\ root = r
       /\ child = [h \in Hashes |-> NoChild]
       /\ todo = [t \in Thread |-> IF t = "miner" THEN m ELSE s]
       /\ path = [t \in Thread |-> <<>>]
       /\ phase = [t \in Thread |-> "idle"]
       /\ value = [t \in Thread |-> 0]
       /\ added = {r}
       /\ clashed = FALSE
       /\ exposed = {}

Begin(t) ==
    /\ phase[t] = "idle" /\ todo[t] # <<>>
    /\ phase' = [phase EXCEPT ![t] = "down"]
    /\ value' = [value EXCEPT ![t] = root]
    /\ exposed' = exposed \cup UNION {{Head(todo[t]), Head(todo[u])} :
                                       u \in {v \in Thread : phase[v] # "idle"}}
    /\ UNCHANGED <<root, child, todo, path, added, clashed>>

\* Mutant: a greater hash goes to the left.
DownWrongSide(t) ==
    /\ phase[t] = "down"
    /\ LET h == Head(todo[t])
           r == value[t]
           s == IF r >= h THEN "right" ELSE "left"
           c == child[r][s]
       IN  /\ path' = [path EXCEPT ![t] = Append(@, [node |-> r, side |-> s, read |-> c])]
           /\ value' = [value EXCEPT ![t] = IF c = 0 THEN h ELSE c]
           /\ phase' = [phase EXCEPT ![t] = IF c = 0 THEN "up" ELSE "down"]
    /\ UNCHANGED <<root, child, todo, added, clashed, exposed>>

\* One call deeper; at the null pointer the new node is returned.
Down(t) ==
    /\ phase[t] = "down"
    /\ LET h == Head(todo[t])
           r == value[t]
           s == SideOf(r, h)
           c == child[r][s]
       IN  /\ path' = [path EXCEPT ![t] = Append(@, [node |-> r, side |-> s, read |-> c])]
           /\ value' = [value EXCEPT ![t] = IF c = 0 THEN h ELSE c]
           /\ phase' = [phase EXCEPT ![t] = IF c = 0 THEN "up" ELSE "down"]
    /\ UNCHANGED <<root, child, todo, added, clashed, exposed>>

\* Mutant: the result of the call is not stored.
UpForgets(t) ==
    /\ phase[t] = "up" /\ path[t] # <<>>
    /\ value' = [value EXCEPT ![t] = Last(path[t]).node]
    /\ path' = [path EXCEPT ![t] = Front(@)]
    /\ UNCHANGED <<root, child, todo, phase, added, clashed, exposed>>

\* The return from a call: its result is written to the pointer it came by.
Up(t) ==
    /\ phase[t] = "up" /\ path[t] # <<>>
    /\ LET e == Last(path[t])
       IN  /\ child' = [child EXCEPT ![e.node][e.side] = value[t]]
           /\ clashed' = (clashed \/ child[e.node][e.side] # e.read)
           /\ value' = [value EXCEPT ![t] = e.node]
    /\ path' = [path EXCEPT ![t] = Front(@)]
    /\ UNCHANGED <<root, todo, phase, added, exposed>>

Inserted(t) ==
    /\ phase[t] = "up" /\ path[t] = <<>>
    /\ phase' = [phase EXCEPT ![t] = "idle"]
    /\ todo' = [todo EXCEPT ![t] = Tail(@)]
    /\ added' = added \cup {Head(todo[t])}
    /\ UNCHANGED <<root, child, path, value, clashed, exposed>>

TreeNext == \E t \in Thread : Begin(t) \/ Down(t) \/ Up(t) \/ Inserted(t)

-----------------------------------------------------------------------------
\* find_block_by_hash(root, h) reaches x: it is in every set of pointers that the
\* search for h, once in, does not leave.
Visits(h, x) ==
    \A S \in SUBSET (Hashes \cup {0}) :
       /\ root \in S
       /\ \A y \in S \ {0, h} : child[y][IF y > h THEN "left" ELSE "right"] \in S
       => x \in S

\* The nodes that pointers lead to from the root.
Reachable ==
    {x \in Hashes : \A S \in SUBSET (Hashes \cup {0}) :
                      /\ root \in S
                      /\ \A y \in S \ {0} : \A s \in Side : child[y][s] \in S
                      => x \in S}

\* Whatever the two threads do to each other, what is in the tree is found.  A
\* block is missing from the tree after its insertion only if a thread has
\* written a pointer that the other had changed since it was read: the way up
\* may write again what it has read, and yet undoes no insertion by itself.
TreeSearchable ==
    /\ \A h \in Reachable : Visits(h, h)
    /\ clashed \/ added \subseteq Reachable

\* A clash takes away no more than what was being inserted while the other thread
\* was inserting too: module ChainTree rests on it.
LostOnlyExposed == added \ Reachable \subseteq exposed
=============================================================================
