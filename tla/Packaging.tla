----------------------------- MODULE Packaging -----------------------------
(***************************************************************************)
(* The experiment on duplicated transactions: the blocks of one round take *)
(* their transactions from one pool, and a block is delivered, and its     *)
(* transactions deleted from the pool, when another is packed at least two *)
(* units of time after it.  Three strategies choose the transactions.      *)
(*                                                                         *)
(* Source: DAG_Duplication/concurrency_simulation.py.  A transaction is a  *)
(* record of its number, its fee and the last digit of its hash.           *)
(***************************************************************************)
EXTENDS Integers, Sequences, SequencesExt, FiniteSets

CONSTANTS
    Blocks,        \* fork_coefficient: the number of blocks of the round
    SumTime,       \* sum_time of network_simulation
    PoolSize,      \* capacity of the pool
    BlockSize,     \* capacity of a block
    Digits         \* last digits of addresses and hashes, 0 .. Digits - 1

ASSUME PackAssumption ==
    /\ Blocks \in Nat /\ SumTime \in Nat /\ PoolSize \in Nat
    /\ BlockSize \in 0 .. PoolSize
    /\ Digits \in Nat \ {0}

Strategy == {"fees", "random", "mapping"}

VARIABLES
    strategy,
    times,     \* blocks_timestamp_interval, sorted
    pool,      \* pool.txs: a sequence of transactions
    packed,    \* the blocks packed so far: sequences of transactions
    first,     \* k: the first block that is not delivered
    look,      \* j of the loop over the blocks before
    numbers    \* transactions made so far

packVars == <<strategy, times, pool, packed, first, look, numbers>>

\* The transaction with number n; its fee and its digit are pseudo-random.
Transaction(n) == [number |-> n, fee |-> (n * 3) % 4, digit |-> n % Digits]

PackInit ==
    /\ strategy \in Strategy
    /\ times \in {t \in [1 .. Blocks -> 0 .. SumTime] :
                    \A i \in 1 .. Blocks - 1 : t[i] <= t[i + 1]}
    /\ pool = [i \in 1 .. PoolSize |-> Transaction(i)]
    /\ packed = <<>>
    /\ first = 1
    /\ look = 1
    /\ numbers = PoolSize

Places == 1 .. Len(pool)

\* The transactions at the places S of the pool, arranged by the relation Before.
Arranged(S, Before) ==
    [i \in 1 .. Cardinality(S) |->
       pool[CHOOSE x \in S : Cardinality({y \in S : <<y, x>> \in Before}) = i - 1]]

Upwards == {ij \in Places \X Places : ij[1] < ij[2]}

\* delete_transactions: what is left of the pool, filled up with new ones.
Refilled(txs) ==
    LET left == Arranged({i \in Places : pool[i] \notin ToSet(txs)}, Upwards)
    IN  left \o [i \in 1 .. PoolSize - Len(left) |-> Transaction(numbers + i)]

\* The miner of block i, by the last digit of its address.
MinerDigit(i) == i % Digits

\* sort by the fee, the highest first; equal fees stay in order.
FeeOrder == {ij \in Places \X Places :
               \/ pool[ij[1]].fee > pool[ij[2]].fee
               \/ pool[ij[1]].fee = pool[ij[2]].fee /\ ij[1] < ij[2]}
ByFee == Arranged(Places, FeeOrder)

\* choose_txs_with_mapping; the loop takes one more than the capacity.
PackMapping(i) ==
    LET mine == Arranged({j \in Places : pool[j].digit = MinerDigit(i)}, Upwards)
    IN  SubSeq(mine, 1, IF Len(mine) < BlockSize + 1 THEN Len(mine) ELSE BlockSize + 1)

\* Mutant: the block after a delivered one is passed over.
DeliverTwo ==
    /\ Len(packed) < Blocks /\ look <= Len(packed)
    /\ IF times[Len(packed) + 1] - times[look] >= 2
       THEN /\ pool' = Refilled(packed[look])
            /\ numbers' = numbers + PoolSize
            /\ first' = look + 2
            /\ look' = look + 2
       ELSE /\ look' = look + 1
            /\ UNCHANGED <<pool, numbers, first>>
    /\ UNCHANGED <<strategy, times, packed>>

\* One turn of the loop over the blocks before the one that is packed.
Deliver ==
    /\ Len(packed) < Blocks /\ look <= Len(packed)
    /\ IF times[Len(packed) + 1] - times[look] >= 2
       THEN /\ pool' = Refilled(packed[look])
            /\ numbers' = numbers + PoolSize
            /\ first' = look + 1
       ELSE UNCHANGED <<pool, numbers, first>>
    /\ look' = look + 1
    /\ UNCHANGED <<strategy, times, packed>>

\* The next block takes its transactions.
Pack ==
    /\ Len(packed) < Blocks /\ look > Len(packed)
    /\ \/ /\ strategy = "fees"
          /\ pool' = ByFee
          /\ packed' = Append(packed, SubSeq(ByFee, 1, BlockSize))
       \/ /\ strategy = "random"
          /\ \E pick \in [1 .. BlockSize -> 1 .. PoolSize] :
                packed' = Append(packed, [i \in 1 .. BlockSize |-> pool[pick[i]]])
          /\ UNCHANGED pool
       \/ /\ strategy = "mapping"
          /\ packed' = Append(packed, PackMapping(Len(packed) + 1))
          /\ UNCHANGED pool
    /\ look' = first
    /\ UNCHANGED <<strategy, times, first, numbers>>

PackNext == Deliver \/ Pack

-----------------------------------------------------------------------------
\* Blocks that are at least a delivery time apart share no transaction, whatever
\* the strategy: the scan for delivered blocks, which starts behind the last one
\* found, passes none over, and a transaction that has left the pool is gone.
\* With the mapping strategy two miners never take the same transaction, however
\* close together their blocks are.
NotRepeated ==
    \A i, j \in DOMAIN packed :
       /\ i < j
       /\ \/ times[j] - times[i] >= 2
          \/ strategy = "mapping" /\ MinerDigit(i) # MinerDigit(j)
       => ToSet(packed[i]) \cap ToSet(packed[j]) = {}
=============================================================================
