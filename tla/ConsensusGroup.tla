--------------------------- MODULE ConsensusGroup ---------------------------
(***************************************************************************)
(* The consensus group as one node sees it: class Consensus_Group of       *)
(* Snowball_Main/code/Consensus_Group.cpp and the two copies of the code   *)
(* that ends a round in process_buffer.cpp.  Pure operators on a record    *)
(*   [round, started, list, count, history, future]                        *)
(* where list is miner_list, a sequence of [node, share], count is         *)
(* concurrency_block_numbers, and history and future are maps from rounds  *)
(* to such lists.  certificate is TRUE in every message the program sends, *)
(* so legitimate_certificate is left out, and so are the times.            *)
(***************************************************************************)
EXTENDS Integers, Sequences, SequencesExt

EmptyMap == [r \in {} |-> <<>>]

NewGroup == [round |-> 1, started |-> FALSE, list |-> <<>>, count |-> 0,
             history |-> EmptyMap, future |-> EmptyMap]

\* map.insert({r, l}), which leaves an entry that is there alone.
Insert(map, r, l) ==
    IF r \in DOMAIN map THEN map
    ELSE [s \in DOMAIN map \cup {r} |-> IF s = r THEN l ELSE map[s]]

IsIn(list, m) == \E i \in DOMAIN list : list[i].node = m

\* Where the first entry of m is; 0 if there is none.
Place(list, m) == SelectInSeq(list, LAMBDA e : e.node = m)

\* share_of_block of m; 0 stands for the null pointer of get_member.
Share(list, m) ==
    LET at == Place(list, m)
    IN  IF at = 0 THEN 0 ELSE list[at].share

\* The blocks of a round, as pairs of a place in list and a number: the member
\* there owns as many as its share.
Owned(list) == UNION {{i} \X (1 .. list[i].share) : i \in DOMAIN list}

\* The shares added up.
TotalShare(list) == Cardinality(Owned(list))

\* Mutant: a new member is entered with no share.
AddMemberEmpty(list, m) ==
    LET at == Place(list, m)
    IN  IF at = 0 THEN Append(list, [node |-> m, share |-> 0])
        ELSE [list EXCEPT ![at].share = @ + 1]

\* Mutant: a new member is counted twice, as add_in_future does.
AddMemberTwice(list, m) ==
    LET at == Place(list, m)
    IN  IF at = 0 THEN Append(list, [node |-> m, share |-> 2])
        ELSE [list EXCEPT ![at].share = @ + 1]

\* One announcement of m: its share grows, or it becomes a member.
AddMember(list, m) ==
    LET at == Place(list, m)
    IN  IF at = 0 THEN Append(list, [node |-> m, share |-> 1])
        ELSE [list EXCEPT ![at].share = @ + 1]

\* add_in_future: the entry made for the first announcement of a round holds
\* m already, and the test that follows finds it and counts m a second time.
AddInFuture(future, r, m) ==
    LET made == Insert(future, r, <<[node |-> m, share |-> 1]>>)
    IN  [made EXCEPT ![r] = AddMember(@, m)]

\* join_Consensus_group(m, r): refused in the round that runs, kept for a later
\* round, and counted in the present group otherwise: r may be an old round.
Join(g, m, r) ==
    IF r = g.round /\ g.started THEN g
    ELSE IF r > g.round THEN [g EXCEPT !.future = AddInFuture(@, r, m)]
    ELSE [g EXCEPT !.list = AddMember(@, m), !.count = @ + 1]

\* Mutant: the round ends without a history entry.
AdvanceForgets(g) ==
    LET next == IF g.round + 1 \in DOMAIN g.future
                THEN g.future[g.round + 1] ELSE <<>>
    IN  [g EXCEPT !.round = @ + 1, !.started = FALSE, !.list = next,
                  !.count = TotalShare(next)]

\* The end of a round: the group goes to the history, and the next group is the
\* one announced so far.
Advance(g) ==
    LET next == IF g.round + 1 \in DOMAIN g.future
                THEN g.future[g.round + 1] ELSE <<>>
    IN  [g EXCEPT !.round = @ + 1, !.started = FALSE, !.list = next,
                  !.count = TotalShare(next),
                  !.history = Insert(@, g.round, g.list)]

\* The order in which mine_Consensus_blocks hands out the blocks of the round:
\* slot o belongs to the member that is reached when o blocks are counted.
Slots(list) ==
    LET Reached(o) == {i \in DOMAIN list : o <= TotalShare(SubSeq(list, 1, i))}
    IN  [o \in 1 .. TotalShare(list) |-> list[Min(Reached(o))].node]
=============================================================================
