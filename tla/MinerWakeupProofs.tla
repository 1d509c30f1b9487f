-------------------------- MODULE MinerWakeupProofs --------------------------
(***************************************************************************)
(* Theorems about MinerWakeup: any number of peers, rounds and             *)
(* announcements, any number of blocks that starts a round, and every      *)
(* interleaving of the two threads, spurious wake-ups included.            *)
(***************************************************************************)
EXTENDS MinerWakeup, ConsensusGroupProofs

Announcers == Peer \cup {Me}

Typed ==
    /\ g \in Groups(Announcers)
    /\ mining \in BOOLEAN /\ pending \in BOOLEAN
    /\ pc \in Points /\ net \in {"idle", "joined", "started", "stopped", "over"}
    /\ now \in Nat
    /\ now = 0 => pc \in {"warmup", "top", "dead"}
    /\ late \in Nat

\* The round that runs has enough blocks, unless the miner, which counted before the
\* end of the last round, has started it; then the miner does not mine.
Started ==
    g.started => \/ g.count >= CONCURRENCY_BLOCKS
                 \/ pc = "stop"
                 \/ pc \in Waiting /\ ~mining

\* mining is set while a round runs only until the thread that started it gets on.
Flag == g.started /\ mining => pc = "stop" \/ net = "started"

\* MinerStopped from the interrupt on until the next start of a round, also while the
\* network thread is between joining and counting, or about to notify.
Halted ==
    (g.started /\ net \notin {"started", "stopped"}) =>
       \/ pending
       \/ pc = "dead"
       \/ pc \in Waiting /\ ~mining
       \/ pc \in {"start", "stop"}
       \/ pc \in {"join", "announce", "count"} /\ g.count >= CONCURRENCY_BLOCKS

\* An announcement sent in a round that runs is the last thing the miner does before it
\* counts, starts the round and waits.
LastWord ==
    /\ ~g.started => late = 0
    /\ late <= 1
    /\ late = 1 => \/ pc = "count" /\ g.count >= CONCURRENCY_BLOCKS
                   \/ pc \in {"start", "stop"}
                   \/ pc \in Waiting /\ ~mining

IInv == Typed /\ Started /\ Flag /\ Halted /\ LastWord

\* The group after an announcement: nothing but a round that runs has a count that
\* matters, and it never falls.
LEMMA Joined ==
  ASSUME Typed, NEW m \in Announcers, NEW r \in Nat \ {0}
  PROVE  LET gr == Join(g, m, r)
         IN  /\ gr \in Groups(Announcers) /\ gr.started = g.started
             /\ gr.count \in Nat /\ gr.count >= g.count
<1> DEFINE gr == Join(g, m, r)
<1>1. g \in Groups(Announcers)
  BY DEF Typed
<1>2. /\ gr \in Groups(Announcers) /\ gr.started = g.started
      /\ gr.count = g.count \/ gr.count = g.count + 1
  BY <1>1, JoinType
<1>3. g.count \in Nat
  BY <1>1 DEF Groups
<1> QED BY <1>2, <1>3

\* start_consensus_of_blocks sets one flag.
LEMMA StartedGroup ==
  ASSUME Typed
  PROVE  LET gr == [g EXCEPT !.started = TRUE]
         IN  gr \in Groups(Announcers) /\ gr.started /\ gr.count = g.count
BY DEF Typed, Groups

LEMMA GroupType ==
  ASSUME Typed
  PROVE  /\ g \in Groups(Announcers) /\ g.started \in BOOLEAN /\ g.count \in Nat
         /\ g.round \in Nat \ {0}
BY DEF Typed, Groups

-----------------------------------------------------------------------------
(***************************************************************************)
(* The miner thread.                                                       *)
(***************************************************************************)

LEMMA InterruptedKeeps ==
  ASSUME IInv, Interrupted
  PROVE  IInv'
<1>1. /\ pending /\ pc \in {"warmup", "sleep", "rest", "point"} /\ pending' = FALSE
      /\ pc' = IF pc = "warmup" THEN "dead" ELSE "test"
      /\ UNCHANGED <<g, mining, now, net, heard, late>>
  BY DEF Interrupted, Asleep
<1>2. Typed'
  BY <1>1 DEF IInv, Typed, Points, Waiting, Asleep
<1>3. Started' /\ Flag' /\ Halted' /\ LastWord'
  BY <1>1 DEF IInv, Started, Flag, Halted, LastWord, Waiting
<1> QED BY <1>2, <1>3 DEF IInv

LEMMA SleepsKeeps ==
  ASSUME IInv, Sleeps
  PROVE  IInv'
<1>1. /\ ~pending /\ UNCHANGED <<g, mining, pending, now, net, heard, late>>
      /\ \/ pc = "warmup" /\ pc' = "top"
         \/ pc = "sleep" /\ pc' = "point"
         \/ pc = "rest" /\ pc' = "top"
  BY DEF Sleeps, Goto
<1>2. Typed'
  BY <1>1 DEF IInv, Typed, Points, Waiting, Asleep
<1>3. Started' /\ Flag' /\ Halted' /\ LastWord'
  BY <1>1 DEF IInv, Started, Flag, Halted, LastWord, Waiting
<1> QED BY <1>2, <1>3 DEF IInv

LEMMA TopKeeps ==
  ASSUME IInv, Top
  PROVE  IInv'
<1>1. /\ pc = "top" /\ pc' \in {"sleep", "rest"} /\ now' = g.round
      /\ UNCHANGED <<g, mining, pending, net, heard, late>>
  BY DEF Top, Goto
<1>2. Typed'
  BY <1>1, GroupType DEF IInv, Typed, Points, Waiting, Asleep
<1>3. Started' /\ Flag' /\ Halted' /\ LastWord'
  BY <1>1 DEF IInv, Started, Flag, Halted, LastWord, Waiting
<1> QED BY <1>2, <1>3 DEF IInv

LEMMA InterruptionPointKeeps ==
  ASSUME IInv, InterruptionPoint
  PROVE  IInv'
<1>1. /\ ~pending /\ pc = "point" /\ pc' = "join"
      /\ UNCHANGED <<g, mining, pending, now, net, heard, late>>
  BY DEF InterruptionPoint, Goto
<1>2. Typed'
  BY <1>1 DEF IInv, Typed, Points, Waiting, Asleep
<1>3. Started' /\ Flag' /\ Halted' /\ LastWord'
  BY <1>1 DEF IInv, Started, Flag, Halted, LastWord, Waiting
<1> QED BY <1>2, <1>3 DEF IInv

LEMMA JoinOwnKeeps ==
  ASSUME IInv, JoinOwn
  PROVE  IInv'
<1>1. /\ pc = "join" /\ pc' = "announce" /\ g' = Join(g, Me, now)
      /\ UNCHANGED <<mining, pending, now, net, heard, late>>
  BY DEF JoinOwn, Goto
<1>2. now \in Nat \ {0} /\ Me \in Announcers /\ Typed
  BY <1>1 DEF IInv, Typed, Announcers
<1>3. /\ g' \in Groups(Announcers) /\ g'.started = g.started
      /\ g'.count \in Nat /\ g'.count >= g.count
  BY <1>1, <1>2, Joined
<1>4. g.count \in Nat /\ CONCURRENCY_BLOCKS \in Nat
  BY <1>2, GroupType, WakeupAssumption
<1>5. g.count >= CONCURRENCY_BLOCKS => g'.count >= CONCURRENCY_BLOCKS
  BY <1>3, <1>4
<1>6. Typed'
  BY <1>1, <1>2, <1>3 DEF Typed, Points, Waiting, Asleep
<1>7. Started' /\ Flag' /\ Halted' /\ LastWord'
  BY <1>1, <1>3, <1>5 DEF IInv, Started, Flag, Halted, LastWord, Waiting
<1> QED BY <1>6, <1>7 DEF IInv

LEMMA AnnounceOwnKeeps ==
  ASSUME IInv, AnnounceOwn
  PROVE  IInv'
<1>1. /\ pc = "announce" /\ pc' = "count"
      /\ late' = IF g.started THEN late + 1 ELSE late
      /\ UNCHANGED <<g, mining, pending, now, net, heard>>
  BY DEF AnnounceOwn, Goto
<1>2. late = 0
  BY <1>1 DEF IInv, LastWord, Typed, Waiting
<1>3. Typed'
  BY <1>1 DEF IInv, Typed, Points, Waiting, Asleep
<1>4. Started' /\ Flag' /\ Halted'
  BY <1>1 DEF IInv, Started, Flag, Halted, Waiting
<1>5. g.started => g.count >= CONCURRENCY_BLOCKS
  BY <1>1 DEF IInv, Started, Waiting
<1>6. LastWord'
  BY <1>1, <1>2, <1>5 DEF LastWord
<1> QED BY <1>3, <1>4, <1>6 DEF IInv

LEMMA CountKeeps ==
  ASSUME IInv, Count
  PROVE  IInv'
<1>1. /\ pc = "count"
      /\ pc' = IF g.count >= CONCURRENCY_BLOCKS THEN "start" ELSE "top"
      /\ UNCHANGED <<g, mining, pending, now, net, heard, late>>
  BY DEF Count, Goto
<1>2. Typed'
  BY <1>1 DEF IInv, Typed, Points, Waiting, Asleep
<1>3. Started' /\ Flag' /\ Halted' /\ LastWord'
  BY <1>1 DEF IInv, Started, Flag, Halted, LastWord, Waiting
<1> QED BY <1>2, <1>3 DEF IInv

LEMMA StartKeeps ==
  ASSUME IInv, Start
  PROVE  IInv'
<1>1. /\ pc = "start" /\ pc' = "stop" /\ g' = [g EXCEPT !.started = TRUE]
      /\ UNCHANGED <<mining, pending, now, net, heard, late>>
  BY DEF Start, Goto
<1>2. g' \in Groups(Announcers) /\ g'.started /\ g'.count = g.count
  BY <1>1, StartedGroup DEF IInv
<1>3. Typed'
  BY <1>1, <1>2 DEF IInv, Typed, Points, Waiting, Asleep
<1>4. Started' /\ Flag' /\ Halted' /\ LastWord'
  BY <1>1, <1>2 DEF IInv, Started, Flag, Halted, LastWord, Waiting
<1> QED BY <1>3, <1>4 DEF IInv

LEMMA StopKeeps ==
  ASSUME IInv, Stop
  PROVE  IInv'
<1>1. /\ pc = "stop" /\ pc' = "test" /\ mining' = FALSE
      /\ UNCHANGED <<g, pending, now, net, heard, late>>
  BY DEF Stop, Goto
<1>2. Typed'
  BY <1>1 DEF IInv, Typed, Points, Waiting, Asleep
<1>3. Started' /\ Flag' /\ Halted' /\ LastWord'
  BY <1>1 DEF IInv, Started, Flag, Halted, LastWord, Waiting
<1> QED BY <1>2, <1>3 DEF IInv

\* go_on_mining.wait: with mining set the miner goes back to the top of its loop only
\* if no round runs or an interrupt will meet it there.
LEMMA WaitKeeps ==
  ASSUME IInv, Test \/ FallAsleep \/ WakeSpuriously
  PROVE  IInv'
<1>1. /\ \/ pc = "test" /\ mining /\ pc' = "top"
         \/ pc = "test" /\ ~mining /\ pc' = "falling"
         \/ pc = "falling" /\ pc' = "wait"
         \/ pc = "wait" /\ pc' = "test"
      /\ UNCHANGED <<g, mining, pending, now, net, heard, late>>
  BY DEF Test, FallAsleep, WakeSpuriously, Goto
<1>2. Typed'
  BY <1>1 DEF IInv, Typed, Points, Waiting, Asleep
<1>3. Started' /\ Flag' /\ Halted' /\ LastWord'
  BY <1>1 DEF IInv, Started, Flag, Halted, LastWord, Waiting
<1> QED BY <1>2, <1>3 DEF IInv

-----------------------------------------------------------------------------
(***************************************************************************)
(* The network thread.                                                     *)
(***************************************************************************)

LEMMA HearKeeps ==
  ASSUME IInv, NEW m \in Peer, NEW r \in 1 .. g.round + 1, Hear(m, r)
  PROVE  IInv'
<1>1. /\ net = "idle" /\ UNCHANGED <<mining, pending, pc, now, late>>
      /\ \/ UNCHANGED <<g, net>>
         \/ g' = Join(g, m, r) /\ net' = "joined"
  BY DEF Hear
<1>2. Typed /\ m \in Announcers /\ r \in Nat \ {0}
  BY GroupType DEF IInv, Announcers
<1>3. CASE UNCHANGED <<g, net>>
  <2>1. Typed' /\ Started' /\ Flag' /\ Halted' /\ LastWord'
    BY <1>1, <1>3 DEF IInv, Typed, Started, Flag, Halted, LastWord
  <2> QED BY <2>1 DEF IInv
<1>4. CASE g' = Join(g, m, r) /\ net' = "joined"
  <2>1. /\ g' \in Groups(Announcers) /\ g'.started = g.started
        /\ g'.count \in Nat /\ g'.count >= g.count
    BY <1>2, <1>4, Joined
  <2>2. g.count \in Nat /\ CONCURRENCY_BLOCKS \in Nat
    BY <1>2, GroupType, WakeupAssumption
  <2>3. g.count >= CONCURRENCY_BLOCKS => g'.count >= CONCURRENCY_BLOCKS
    BY <2>1, <2>2
  <2>4. Typed'
    BY <1>1, <1>2, <1>4, <2>1 DEF Typed
  <2>5. Started' /\ Flag' /\ Halted' /\ LastWord'
    BY <1>1, <1>4, <2>1, <2>3 DEF IInv, Started, Flag, Halted, LastWord
  <2> QED BY <2>4, <2>5 DEF IInv
<1> QED BY <1>1, <1>3, <1>4

LEMMA NetCountKeeps ==
  ASSUME IInv, NetCount
  PROVE  IInv'
<1>1. /\ net = "joined" /\ UNCHANGED <<mining, pending, pc, now, heard, late>>
      /\ \/ /\ g.count >= CONCURRENCY_BLOCKS /\ net' = "started"
            /\ g' = [g EXCEPT !.started = TRUE]
         \/ net' = "idle" /\ g' = g
  BY DEF NetCount
<1>2. CASE /\ g.count >= CONCURRENCY_BLOCKS /\ net' = "started"
           /\ g' = [g EXCEPT !.started = TRUE]
  <2>1. g' \in Groups(Announcers) /\ g'.started /\ g'.count = g.count
    BY <1>2, StartedGroup DEF IInv
  <2>2. Typed'
    BY <1>1, <1>2, <2>1 DEF IInv, Typed
  <2>3. Started' /\ Flag' /\ Halted' /\ LastWord'
    BY <1>1, <1>2, <2>1 DEF IInv, Started, Flag, Halted, LastWord
  <2> QED BY <2>2, <2>3 DEF IInv
<1>3. CASE net' = "idle" /\ g' = g
  <2>1. Typed' /\ Started' /\ Flag' /\ Halted' /\ LastWord'
    BY <1>1, <1>3 DEF IInv, Typed, Started, Flag, Halted, LastWord
  <2> QED BY <2>1 DEF IInv
<1> QED BY <1>1, <1>2, <1>3

LEMMA NetStopKeeps ==
  ASSUME IInv, NetStop
  PROVE  IInv'
<1>1. /\ net = "started" /\ net' = "stopped" /\ mining' = FALSE
      /\ UNCHANGED <<g, pending, pc, now, heard, late>>
  BY DEF NetStop
<1>2. Typed' /\ Started' /\ Flag' /\ Halted' /\ LastWord'
  BY <1>1 DEF IInv, Typed, Started, Flag, Halted, LastWord
<1> QED BY <1>2 DEF IInv

LEMMA NetInterruptKeeps ==
  ASSUME IInv, NetInterrupt
  PROVE  IInv'
<1>1. /\ net = "stopped" /\ net' = "idle" /\ pending' = (pc # "dead")
      /\ UNCHANGED <<g, mining, pc, now, heard, late>>
  BY DEF NetInterrupt
<1>2. Typed'
  BY <1>1 DEF IInv, Typed
<1>3. Started' /\ Flag' /\ Halted' /\ LastWord'
  BY <1>1 DEF IInv, Started, Flag, Halted, LastWord
<1> QED BY <1>2, <1>3 DEF IInv

\* The end of a round: nothing is asked of the miner until the next one starts.
LEMMA EndRoundKeeps ==
  ASSUME IInv, EndRound
  PROVE  IInv'
<1>1. /\ net = "idle" /\ net' = "over" /\ mining' = TRUE /\ late' = 0
      /\ g' = Advance(g) /\ UNCHANGED <<pending, pc, now, heard>>
  BY DEF EndRound
<1>2. g' \in Groups(Announcers) /\ g'.started = FALSE
  BY <1>1, AdvanceType, GroupType DEF IInv
<1>3. Typed'
  BY <1>1, <1>2 DEF IInv, Typed
<1>4. Started' /\ Flag' /\ Halted' /\ LastWord'
  BY <1>1, <1>2 DEF Started, Flag, Halted, LastWord
<1> QED BY <1>3, <1>4 DEF IInv

LEMMA NotifyKeeps ==
  ASSUME IInv, Notify
  PROVE  IInv'
<1>1. /\ net = "over" /\ net' = "idle"
      /\ pc' = IF pc = "wait" THEN "test" ELSE pc
      /\ UNCHANGED <<g, mining, pending, now, heard, late>>
  BY DEF Notify
<1>2. Typed'
  BY <1>1 DEF IInv, Typed, Points, Waiting, Asleep
<1>3. Started' /\ Flag' /\ Halted' /\ LastWord'
  BY <1>1 DEF IInv, Started, Flag, Halted, LastWord, Waiting
<1> QED BY <1>2, <1>3 DEF IInv

-----------------------------------------------------------------------------
(***************************************************************************)
(* The invariant and the theorems.                                         *)
(***************************************************************************)

LEMMA IInvInit == Init => IInv
<1> SUFFICES ASSUME Init
             PROVE  IInv
  OBVIOUS
<1>1. /\ g = NewGroup /\ mining = TRUE /\ pending = FALSE /\ pc = "warmup"
      /\ now = 0 /\ net = "idle" /\ late = 0
  BY DEF Init
<1>2. NewGroup \in Groups(Announcers) /\ NewGroup.started = FALSE
  <2>1. EmptyMap \in GroupMaps(Announcers)
    <3>1. EmptyMap \in [{} -> MemberLists(Announcers)] /\ {} \in SUBSET (Nat \ {0})
      BY DEF EmptyMap
    <3> QED BY <3>1 DEF GroupMaps
  <2>2. <<>> \in MemberLists(Announcers)
    BY DEF MemberLists
  <2> QED BY <2>1, <2>2 DEF NewGroup, Groups
<1>3. Typed
  BY <1>1, <1>2 DEF Typed, Points, Asleep
<1>4. Started /\ Flag /\ Halted /\ LastWord
  BY <1>1, <1>2 DEF Started, Flag, Halted, LastWord
<1> QED BY <1>3, <1>4 DEF IInv

LEMMA IInvStep == IInv /\ [Next]_vars => IInv'
<1> SUFFICES ASSUME IInv, [Next]_vars
             PROVE  IInv'
  OBVIOUS
<1>1. CASE MinerStep
  BY <1>1, InterruptedKeeps, SleepsKeeps, TopKeeps, InterruptionPointKeeps,
     JoinOwnKeeps, AnnounceOwnKeeps, CountKeeps, StartKeeps, StopKeeps, WaitKeeps
     DEF MinerStep
<1>2. CASE WakeSpuriously
  BY <1>2, WaitKeeps
<1>3. CASE NetStep
  BY <1>3, NetCountKeeps, NetStopKeeps, NetInterruptKeeps, NotifyKeeps DEF NetStep
<1>4. ASSUME NEW m \in Peer, NEW r \in 1 .. g.round + 1, Hear(m, r)
      PROVE  IInv'
  BY <1>4, HearKeeps
<1>5. CASE EndRound
  BY <1>5, EndRoundKeeps
<1>6. CASE UNCHANGED vars
  <2>1. Typed' /\ Started' /\ Flag' /\ Halted' /\ LastWord'
    BY <1>6 DEF vars, IInv, Typed, Started, Flag, Halted, LastWord
  <2> QED BY <2>1 DEF IInv
<1> QED BY <1>1, <1>2, <1>3, <1>4, <1>5, <1>6 DEF Next

LEMMA Inductive == Spec => []IInv
BY IInvInit, IInvStep, PTL DEF Spec

\* "stop mining for the consensus of concurrent blocks": a miner that is not waiting
\* while a round runs has an interrupt coming or is about to see that the round has
\* enough blocks, whatever the two threads were doing when the round started.
THEOREM MinerIsStopped == Spec => []MinerStopped
<1>1. IInv => MinerStopped
  BY DEF IInv, Halted, MinerStopped
<1> QED BY <1>1, Inductive, PTL

\* A node sends one announcement at most after its round has started, since it goes on
\* from there to the wait and sleeps no more in that round.
THEOREM OneAnnouncementIsLate == Spec => []OneLateAnnouncement
<1>1. IInv => OneLateAnnouncement
  BY DEF IInv, LastWord, OneLateAnnouncement
<1> QED BY <1>1, Inductive, PTL
=============================================================================
