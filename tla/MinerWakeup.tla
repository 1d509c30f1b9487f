----------------------------- MODULE MinerWakeup -----------------------------
(***************************************************************************)
(* The two threads of a Snowball node that share the consensus group: the  *)
(* miner (miner.cpp, miner) and the network thread (process_buffer.cpp,    *)
(* #mining_succeed and the end of a round).  SnowballRound takes each of   *)
(* them as one step; here they interleave at their shared accesses: the    *)
(* round read at the top of the loop and used after the sleep, the group   *)
(* under cg->lock and read again without it, the flag mining with its      *)
(* condition variable, and the interrupt of boost::thread, which is        *)
(* pending until the miner sleeps or passes an interruption point.         *)
(*                                                                         *)
(* Abstractions.  What the leader hands out and why a round ends are       *)
(* SnowballRound's: a started round may end at any time, and whether the   *)
(* miner is qualified after round 1 is a choice.  The end of a round is    *)
(* one step up to mining = true.                                           *)
(***************************************************************************)
EXTENDS Integers, Sequences, FiniteSets, ConsensusGroup

CONSTANTS
    Me, Peer,              \* the node, and the peers that announce to it
    CONCURRENCY_BLOCKS,
    LastRound,             \* bound: this round does not end
    MaxHeard               \* bound: announcements of peers

ASSUME WakeupAssumption ==
    /\ Me \notin Peer
    /\ CONCURRENCY_BLOCKS \in Nat \ {0}
    /\ LastRound \in Nat \ {0} /\ MaxHeard \in Nat

VARIABLES
    g,        \* the consensus group
    mining,   \* the flag that go_on_mining waits for
    pending,  \* an interrupt of the miner thread is pending
    pc,       \* where the miner is
    now,      \* round_now of the miner
    net,      \* where the handler of the network thread is
    heard,    \* announcements of peers handled so far
    late      \* history: announcements sent since the round has started

vars == <<g, mining, pending, pc, now, net, heard, late>>

Asleep == {"warmup", "sleep", "rest"}
Waiting == {"test", "falling", "wait"}
Points == Asleep \cup Waiting \cup
         {"top", "point", "join", "announce", "count", "start", "stop", "dead"}

Init ==
    /\ g = NewGroup
    /\ mining = TRUE
    /\ pending = FALSE
    /\ pc = "warmup"
    /\ now = 0
    /\ net = "idle"
    /\ heard = 0
    /\ late = 0

Goto(from, to) == pc = from /\ pc' = to

-----------------------------------------------------------------------------
(***************************************************************************)
(* The miner thread.                                                       *)
(***************************************************************************)

\* An interrupt ends a sleep, and is taken by the sleep or by the interruption
\* point.  The first sleep is outside of the try block: the thread is over.
Interrupted ==
    /\ pending
    /\ pc \in Asleep \cup {"point"}
    /\ pending' = FALSE
    /\ pc' = IF pc = "warmup" THEN "dead" ELSE "test"
    /\ UNCHANGED <<g, mining, now, net, heard, late>>

Sleeps ==
    /\ ~pending
    /\ \/ Goto("warmup", "top") \/ Goto("sleep", "point") \/ Goto("rest", "top")
    /\ UNCHANGED <<g, mining, pending, now, net, heard, late>>

\* round_now is read; after the first round a miner without the blocks of the
\* last one rests for a second.
Top ==
    /\ \/ Goto("top", "sleep")
       \/ g.round > 1 /\ Goto("top", "rest")
    /\ now' = g.round
    /\ UNCHANGED <<g, mining, pending, net, heard, late>>

InterruptionPoint ==
    /\ ~pending
    /\ Goto("point", "join")
    /\ UNCHANGED <<g, mining, pending, now, net, heard, late>>

\* join_Consensus_group, under the lock and with the round read before the sleep.
JoinOwn ==
    /\ Goto("join", "announce")
    /\ g' = Join(g, Me, now)
    /\ UNCHANGED <<mining, pending, now, net, heard, late>>

\* Mutant: a refused miner repeats its announcement until the round is over.
AnnounceAgain ==
    /\ pc = "announce"
    /\ pc' = IF g.started THEN "announce" ELSE "count"
    /\ late' = IF g.started THEN late + 1 ELSE late
    /\ late < 3
    /\ UNCHANGED <<g, mining, pending, now, net, heard>>

\* create__mining_succeed is sent, also by a miner whose own join was refused.
AnnounceOwn ==
    /\ Goto("announce", "count")
    /\ late' = IF g.started THEN late + 1 ELSE late
    /\ UNCHANGED <<g, mining, pending, now, net, heard>>

Count ==
    /\ IF g.count >= CONCURRENCY_BLOCKS THEN Goto("count", "start")
                                        ELSE Goto("count", "top")
    /\ UNCHANGED <<g, mining, pending, now, net, heard, late>>

\* start_consensus_of_blocks of whatever round the group is in by now.
Start ==
    /\ Goto("start", "stop")
    /\ g' = [g EXCEPT !.started = TRUE]
    /\ UNCHANGED <<mining, pending, now, net, heard, late>>

Stop ==
    /\ Goto("stop", "test")
    /\ mining' = FALSE
    /\ UNCHANGED <<g, pending, now, net, heard, late>>

\* go_on_mining.wait: the predicate is tested, and the thread is among those
\* that notify_one wakes up a step later, since mining_lock, which the wait
\* releases, is not held by the one that notifies.
Test ==
    /\ IF mining THEN Goto("test", "top") ELSE Goto("test", "falling")
    /\ UNCHANGED <<g, mining, pending, now, net, heard, late>>

FallAsleep ==
    /\ Goto("falling", "wait")
    /\ UNCHANGED <<g, mining, pending, now, net, heard, late>>

\* A condition variable may wake up spuriously.
WakeSpuriously ==
    /\ Goto("wait", "test")
    /\ UNCHANGED <<g, mining, pending, now, net, heard, late>>

MinerStep ==
    \/ Interrupted \/ Sleeps \/ Top \/ InterruptionPoint \/ JoinOwn
    \/ AnnounceOwn \/ Count \/ Start \/ Stop \/ Test \/ FallAsleep

-----------------------------------------------------------------------------
(***************************************************************************)
(* The network thread.                                                     *)
(***************************************************************************)

\* #mining_succeed of m for round r, up to the release of the lock.
Hear(m, r) ==
    /\ net = "idle"
    /\ heard < MaxHeard
    /\ heard' = heard + 1
    /\ IF r = g.round /\ g.started
       THEN UNCHANGED <<g, net>>
       ELSE g' = Join(g, m, r) /\ net' = "joined"
    /\ UNCHANGED <<mining, pending, pc, now, late>>

\* The count is tested again, without the lock.
NetCount ==
    /\ net = "joined"
    /\ IF g.count >= CONCURRENCY_BLOCKS
       THEN net' = "started" /\ g' = [g EXCEPT !.started = TRUE]
       ELSE net' = "idle" /\ UNCHANGED g
    /\ UNCHANGED <<mining, pending, pc, now, heard, late>>

\* Mutant: the flag mining is left set when the round starts.
NetStopNot ==
    /\ net = "started"
    /\ net' = "stopped"
    /\ UNCHANGED <<g, mining, pending, pc, now, heard, late>>

NetStop ==
    /\ net = "started"
    /\ net' = "stopped"
    /\ mining' = FALSE
    /\ UNCHANGED <<g, pending, pc, now, heard, late>>

\* Mutant: the miner is not interrupted.
NetInterruptNot ==
    /\ net = "stopped"
    /\ net' = "idle"
    /\ UNCHANGED <<g, mining, pending, pc, now, heard, late>>

\* mythread->interrupt().
NetInterrupt ==
    /\ net = "stopped"
    /\ net' = "idle"
    /\ pending' = (pc # "dead")
    /\ UNCHANGED <<g, mining, pc, now, heard, late>>

\* The end of a round, with the last answer or the first full block.
EndRound ==
    /\ net = "idle"
    /\ g.started
    /\ g.round < LastRound
    /\ g' = Advance(g)
    /\ mining' = TRUE
    /\ net' = "over"
    /\ late' = 0
    /\ UNCHANGED <<pending, pc, now, heard>>

\* go_on_mining.notify_one(): of use only to a thread that waits already.
Notify ==
    /\ net = "over"
    /\ net' = "idle"
    /\ pc' = IF pc = "wait" THEN "test" ELSE pc
    /\ UNCHANGED <<g, mining, pending, now, heard, late>>

NetStep == NetCount \/ NetStop \/ NetInterrupt \/ Notify

Next ==
    \/ MinerStep
    \/ WakeSpuriously
    \/ NetStep
    \/ \E m \in Peer : \E r \in 1 .. g.round + 1 : Hear(m, r)
    \/ EndRound

Spec == Init /\ [][Next]_vars

\* Both threads run; nothing promises a further announcement, the end of a round
\* or a spurious wake-up.
FairSpec == Spec /\ WF_vars(MinerStep) /\ WF_vars(NetStep)

-----------------------------------------------------------------------------
(***************************************************************************)
(* Properties.                                                             *)
(***************************************************************************)

\* "stop mining for the consensus of concurrent blocks": once a round has started
\* and the handler is done, the miner waits for mining, or will wait when it next
\* sleeps or next looks at the count.
MinerStopped ==
    (g.started /\ net = "idle") =>
       \/ pending
       \/ pc = "dead"
       \/ pc \in Waiting /\ ~mining
       \/ pc \in {"start", "stop"}
       \/ pc \in {"join", "announce", "count"} /\ g.count >= CONCURRENCY_BLOCKS

\* A node sends at most one announcement for a round that has started with it.
OneLateAnnouncement == late <= 1

\* A miner stops mining once the round has started, unless the round ends first.
StartStops == g.started ~> (pc \in Waiting \cup {"dead"} \/ ~g.started)

\* Claim of "awake miner": when the handler that ended the round is done, the
\* miner does not wait for a wake-up that has been given already.
AwakeMiner == (mining /\ net = "idle") => pc # "wait"
=============================================================================
