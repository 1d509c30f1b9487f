--------------------------- MODULE ChainTreeProofs ---------------------------
(***************************************************************************)
(* The inductive invariant of ChainTree, for any set of hashes, any bound  *)
(* on the polls, with and without the lock; what the lock adds to it; and  *)
(* the same for the chain of a node that synchronizes with a peer          *)
(* (HeaderSync).                                                           *)
(***************************************************************************)
EXTENDS HeaderSync, TLAPS

\* A header that joins Mined leaves parent and depth of the others alone.
LEMMA NewHeaderKeeps ==
  ASSUME IInv, NEW h \in Hash, h \notin Mined, NEW p \in Mined \cup {Genesis},
         NewHeader(h, p)
  PROVE  /\ Mined' = Mined \cup {h}
         /\ Mined' \subseteq Hash /\ header' \in [Mined' -> Header]
         /\ \A x \in Mined : Parent(x)' = Parent(x)
         /\ \A x \in Mined \cup {Genesis} : Depth(x)' = Depth(x)
         /\ Parent(h)' = p /\ Depth(h)' = Depth(p)' + 1
<1>1. Mined' = Mined \cup {h}
  BY DEF NewHeader, Mined
<1>2. Depth(p) \in Nat
  BY DEF IInv, TypeOK, Depth, Header
<1>3. header' \in [Mined' -> Header]
  <2>1. [parent |-> p, depth |-> Depth(p) + 1] \in Header
    BY <1>2 DEF Header, Block, IInv, TypeOK
  <2>2. \A x \in Mined : header[x] \in Header
    BY DEF IInv, TypeOK
  <2>3. QED
    BY <1>1, <2>1, <2>2 DEF NewHeader
<1>4. \A x \in Mined : header'[x] = header[x]
  BY DEF NewHeader
<1>5. header'[h] = [parent |-> p, depth |-> Depth(p) + 1]
  BY DEF NewHeader
<1>6. h # Genesis /\ Genesis \notin Mined
  BY ConstantsAssumption DEF IInv, TypeOK
<1>7. \A x \in Mined \cup {Genesis} : Depth(x)' = Depth(x)
  BY <1>4 DEF Depth
<1>8. Depth(h)' = Depth(p)' + 1
  BY <1>5, <1>6, <1>7 DEF Depth
<1>9. Mined' \subseteq Hash
  BY <1>1 DEF IInv, TypeOK
<1>10. QED
  BY <1>1, <1>3, <1>4, <1>5, <1>7, <1>8, <1>9 DEF Parent

\* A header that joins Mined leaves what is said of the headers true.
LEMMA NewHeaderTree ==
  ASSUME IInv, NEW h \in Hash, h \notin Mined, NEW p \in Mined \cup {Genesis},
         NewHeader(h, p)
  PROVE  /\ \A x \in Mined' : /\ Parent(x)' \in Mined' \cup {Genesis}
                              /\ Depth(x)' = Depth(Parent(x))' + 1
         /\ \A t \in forest : /\ t.root \in t.nodes /\ t.nodes \subseteq Mined'
                              /\ \A x \in t.nodes : Depth(t.root)' <= Depth(x)'
         /\ \A x \in (main \cup lost) \ {Genesis} :
              x \in Mined' /\ Parent(x)' \in main \cup lost
         /\ \A t \in forest : \A x \in t.nodes \ {t.root} :
              x \in Mined' /\ Parent(x)' \in t.nodes
<1> DEFINE facts == /\ Mined' = Mined \cup {h}
                    /\ \A x \in Mined : Parent(x)' = Parent(x)
                    /\ \A x \in Mined \cup {Genesis} : Depth(x)' = Depth(x)
                    /\ Parent(h)' = p /\ Depth(h)' = Depth(p)' + 1
<1>1. facts
  BY NewHeaderKeeps
<1> HIDE DEF facts
<1>2. \A x \in Mined' : /\ Parent(x)' \in Mined' \cup {Genesis}
                        /\ Depth(x)' = Depth(Parent(x))' + 1
  <2>1. \A x \in Mined : /\ Parent(x) \in Mined \cup {Genesis}
                         /\ Depth(x) = Depth(Parent(x)) + 1
    BY DEF IInv, Rooted
  <2>2. \A x \in Mined : Depth(Parent(x))' = Depth(Parent(x))
    BY <1>1, <2>1 DEF facts, Parent, Depth
  <2>3. Depth(Parent(h))' = Depth(p)'
    BY <1>1 DEF facts, Parent, Depth
  <2>4. QED
    BY <1>1, <2>1, <2>2, <2>3 DEF facts
<1>3. \A t \in forest : /\ t.root \in t.nodes /\ t.nodes \subseteq Mined'
                        /\ \A x \in t.nodes : Depth(t.root)' <= Depth(x)'
  BY <1>1 DEF facts, IInv, Rooted
<1>4. \A x \in (main \cup lost) \ {Genesis} :
        x \in Mined' /\ Parent(x)' \in main \cup lost
  BY <1>1 DEF facts, IInv, TreesConnected
<1>5. \A t \in forest : \A x \in t.nodes \ {t.root} :
        x \in Mined' /\ Parent(x)' \in t.nodes
  BY <1>1 DEF facts, IInv, Rooted, TreesConnected
<1>6. QED
  BY <1>2, <1>3, <1>4, <1>5

LEMMA InitIInv == Init => IInv
<1>1. SUFFICES ASSUME Init PROVE IInv
  OBVIOUS
<1>2. Mined = {}
  BY <1>1 DEF Init, Mined
<1>3. TypeOK
  BY <1>1, <1>2 DEF Init, TypeOK, Block, Header
<1>4. QED
  BY <1>1, <1>2, <1>3, ConstantsAssumption
     DEF Init, IInv, Rooted, Steps, TreesDisjoint, TreesConnected, MiningAt,
         HeadersAssigned, NonFullTracked, InForest

LEMMA PeerMinesIInv ==
  ASSUME IInv, NEW h \in Hash, NEW p \in Block, PeerMines(h, p)
  PROVE  IInv'
<1> USE DEF PeerMines
<1>1. h \notin Mined /\ p \in Mined \cup {Genesis} /\ NewHeader(h, p)
  BY DEF Fresh, Announced
<1>2. /\ Mined' = Mined \cup {h}
      /\ Mined' \subseteq Hash /\ header' \in [Mined' -> Header]
      /\ \A x \in Mined : Parent(x)' = Parent(x)
      /\ Parent(h)' = p
  BY <1>1, NewHeaderKeeps
<1>3. TypeOK'
  BY <1>2 DEF IInv, TypeOK, races
<1>4. Rooted' /\ TreesConnected'
  BY <1>1, NewHeaderTree DEF IInv, Rooted, TreesConnected
<1>5. Steps'
  <2>1. mining # Idle => /\ mining.hash # h /\ mining.hash # p
                         /\ \A x \in Mined' : Parent(x)' # mining.hash
    BY <1>2, ConstantsAssumption
       DEF Fresh, Announced, IInv, Steps, TypeOK, Candidate
  <2>2. QED
    BY <1>2, <2>1 DEF IInv, Steps, MiningAt, InForest, races
<1>6. TreesDisjoint' /\ HeadersAssigned' /\ NonFullTracked'
  BY DEF IInv, TreesDisjoint, HeadersAssigned, NonFullTracked, InForest,
         Linking, MiningAt
<1>7. QED
  BY <1>3, <1>4, <1>5, <1>6 DEF IInv

\* mine_new_block links its block below the parent it has read, which is still
\* in the tree even if the deepest block has changed since; what it hides is
\* still below its parent.
LEMMA MineLinkIInv ==
  ASSUME IInv, MineLink
  PROVE  IInv'
<1> USE DEF MineLink, MiningAt
<1>0. PICK h \in Hash, p \in Block : mining.hash = h /\ mining.parent = p
  BY ConstantsAssumption DEF IInv, TypeOK, Candidate
<1>1. /\ mining \in Candidate /\ h \in Hash /\ p \in main /\ h \notin Mined
      /\ p \in Mined \cup {Genesis} /\ NewHeader(h, p)
      /\ mining' \in Candidate /\ mining'.at = "linked"
      /\ mining'.hash = h /\ mining'.parent = p
      /\ mining # Idle /\ mining' # Idle
  BY <1>0, ConstantsAssumption DEF IInv, TypeOK, Steps, TreesConnected, Candidate
<1>2. /\ Mined' = Mined \cup {h}
      /\ Mined' \subseteq Hash /\ header' \in [Mined' -> Header]
      /\ \A x \in Mined : Parent(x)' = Parent(x)
      /\ Parent(h)' = p
  BY <1>1, NewHeaderKeeps
<1>3. PICK gone \in SUBSET (besideMiner \cap main) :
        main' = (main \ gone) \cup {h} /\ lost' = lost \cup gone /\ full' = full \ gone
  BY <1>0
<1>4. /\ UNCHANGED <<forest, assigned, deepest, nonFull, validating, waiting>>
      /\ besideMiner' = {}
      /\ besideNetwork' = IF Locked THEN {} ELSE besideNetwork \cup {h}
  BY <1>0
<1>5. h \notin main /\ h \notin lost /\ h \notin InForest /\ h # Genesis
      /\ h \notin full
  BY <1>0, <1>1, ConstantsAssumption DEF IInv, Steps, TreesConnected, Rooted
<1>6. gone \subseteq Hash /\ gone \subseteq main
  BY <1>3 DEF IInv, TypeOK
<1> HIDE DEF MineLink
<1>7. TypeOK'
  BY <1>1, <1>2, <1>3, <1>4, <1>6 DEF IInv, TypeOK, Block
<1>8. Rooted'
  BY <1>1, <1>3, <1>4, <1>5, <1>6, NewHeaderTree, ConstantsAssumption DEF IInv, Rooted
<1>9. TreesConnected'
  <2>1. main' \cup lost' = main \cup lost \cup {h}
    BY <1>3
  <2>2. \A x \in (main \cup lost) \ {Genesis} :
          x \in Mined' /\ Parent(x)' \in main \cup lost
    BY <1>1, NewHeaderTree
  <2>3. \A x \in (main' \cup lost') \ {Genesis} :
          x \in Mined' /\ Parent(x)' \in main' \cup lost'
    BY <1>1, <1>2, <2>1, <2>2
  <2>4. \A t \in forest : \A x \in t.nodes \ {t.root} :
          x \in Mined' /\ Parent(x)' \in t.nodes
    BY <1>1, NewHeaderTree
  <2>5. QED
    BY <1>4, <2>3, <2>4 DEF TreesConnected
<1>10. TreesDisjoint'
  BY <1>3, <1>4, <1>5 DEF IInv, TreesDisjoint, InForest
<1>11. Steps'
  <2>1. \A x \in Mined' : Parent(x)' # h
    <3>1. p # h
      BY <1>1, <1>5
    <3>2. \A x \in Mined : Parent(x) # h
      BY <1>0, <1>1 DEF IInv, Steps
    <3>3. QED
      BY <1>2, <3>1, <3>2
  <2>2. deepest' \in assigned'
    BY <1>1, <1>4 DEF IInv, Steps, MineLink
  <2>3. p \in main' \cup lost'
    BY <1>1, <1>3
  <2>4. h \notin InForest'
    BY <1>4, <1>5 DEF InForest
  <2>5. Locked => lost' = {} /\ besideMiner' = {} /\ besideNetwork' = {}
    BY <1>3, <1>4 DEF IInv, Steps
  <2>6. h \in besideNetwork' \/ Locked
    BY <1>4
  <2>7. h \in Mined'
    BY <1>2
  <2>8. QED
    BY <1>1, <2>1, <2>2, <2>3, <2>4, <2>5, <2>6, <2>7 DEF Steps
<1>12. HeadersAssigned'
  <2>1. \A x \in main : x \in assigned
    BY <1>1 DEF MineLink, IInv, HeadersAssigned, Linking
  <2>2. \A x \in main' : x \in assigned' \/ Linking(x)'
    BY <1>1, <1>3, <1>4, <2>1 DEF Linking
  <2>3. QED
    BY <1>4, <2>2 DEF IInv, HeadersAssigned
<1>13. NonFullTracked'
  BY <1>0, <1>1, <1>3, <1>4 DEF IInv, NonFullTracked
<1>14. QED
  BY <1>7, <1>8, <1>9, <1>10, <1>11, <1>12, <1>13 DEF IInv

\* A parent that is not found leaves the tree as it is.
LEMMA MineOrphanIInv ==
  ASSUME IInv, MineOrphan
  PROVE  IInv'
<1> USE DEF MineOrphan, MiningAt
<1>0. PICK h \in Hash, p \in Block : mining.hash = h /\ mining.parent = p
  BY ConstantsAssumption DEF IInv, TypeOK, Candidate
<1>1. /\ mining \in Candidate /\ h \in Hash /\ h \notin Mined
      /\ p \in Mined \cup {Genesis} /\ NewHeader(h, p)
      /\ mining' \in Candidate /\ mining'.at = "assigned"
      /\ mining'.hash = h /\ mining'.parent = p
      /\ mining # Idle /\ mining' # Idle
  BY <1>0, ConstantsAssumption DEF IInv, TypeOK, Steps, TreesConnected, Candidate
<1>2. /\ Mined' = Mined \cup {h}
      /\ Mined' \subseteq Hash /\ header' \in [Mined' -> Header]
      /\ \A x \in Mined : Parent(x)' = Parent(x)
      /\ Parent(h)' = p
  BY <1>1, NewHeaderKeeps
<1>3. /\ UNCHANGED <<main, lost, forest, assigned, deepest, full, nonFull,
                     validating, waiting, besideNetwork>>
      /\ besideMiner' = {}
  OBVIOUS
<1>4. TypeOK'
  BY <1>1, <1>2, <1>3 DEF IInv, TypeOK
<1>5. Rooted' /\ TreesConnected'
  BY <1>1, <1>3, NewHeaderTree DEF IInv, Rooted, TreesConnected
<1>6. Steps'
  <2>1. \A x \in Mined' : Parent(x)' # h
    <3>1. p # h
      BY <1>1, ConstantsAssumption
    <3>2. QED
      BY <1>0, <1>1, <1>2, <3>1 DEF IInv, Steps
  <2>2. QED
    BY <1>0, <1>1, <1>2, <1>3, <2>1 DEF IInv, Steps, InForest
<1>7. TreesDisjoint' /\ HeadersAssigned' /\ NonFullTracked'
  BY <1>1, <1>3 DEF IInv, TreesDisjoint, HeadersAssigned, NonFullTracked, InForest, Linking
<1>8. QED
  BY <1>4, <1>5, <1>6, <1>7 DEF IInv

\* The steps of mine_new_block after the block is linked touch deepest, the
\* header of the block and validating.
LEMMA MineRestIInv ==
  ASSUME IInv, MineDeepest \/ MineMissed \/ MineAssign \/ MineEnd
  PROVE  IInv'
<1> DEFINE h == mining.hash
<1>1. /\ mining \in Candidate /\ h \in Hash /\ mining # Idle /\ mining.at # "drawn"
      /\ UNCHANGED <<header, main, lost, forest, full, nonFull, waiting, races>>
  BY ConstantsAssumption
     DEF MineDeepest, MineMissed, MineAssign, MineEnd, MiningAt, IInv, TypeOK, Candidate
<1>2. \/ mining' = Idle /\ mining.at = "assigned"
      \/ /\ mining' \in Candidate /\ mining' # Idle /\ mining'.hash = h
         /\ mining'.parent = mining.parent
         /\ mining'.at \in {"deepest", "assigned"}
         /\ mining'.at = "deepest" => mining.at = "linked"
  BY <1>1, ConstantsAssumption
     DEF MineDeepest, MineMissed, MineAssign, MineEnd, MiningAt, Candidate
<1>3. /\ deepest' = deepest \/ (deepest' = h /\ h \in main /\ mining'.at = "deepest")
      /\ mining.at # "linked" => deepest' = deepest
      /\ mining.at = "linked" /\ mining'.at # "deepest" => h \notin main
      /\ assigned' = assigned \/ assigned' = assigned \cup {h}
      /\ mining.at = "deepest" => h \in assigned'
      /\ validating' = validating \/ validating' = validating \cup {h}
      /\ mining' = Idle => h \in validating'
  <2>1. /\ [mining EXCEPT !.at = "deepest"].at = "deepest"
        /\ [mining EXCEPT !.at = "assigned"].at = "assigned"
    BY <1>1 DEF Candidate
  <2>2. CASE MineDeepest
    BY <1>1, <1>2, <2>1, <2>2 DEF MineDeepest, MiningAt
  <2>3. CASE MineMissed
    BY <1>1, <1>2, <2>1, <2>3 DEF MineMissed, MiningAt
  <2>4. CASE MineAssign
    BY <1>1, <1>2, <2>1, <2>4 DEF MineAssign, MiningAt
  <2>5. CASE MineEnd
    BY <1>1, <2>5 DEF MineEnd, MiningAt
  <2>6. QED
    BY <2>2, <2>3, <2>4, <2>5
<1>4. Mined' = Mined /\ InForest' = InForest
  BY <1>1 DEF Mined, InForest
<1>5. \A x : Parent(x)' = Parent(x) /\ Depth(x)' = Depth(x)
  BY <1>1 DEF Parent, Depth
<1> HIDE DEF h
<1>6. TypeOK'
  BY <1>1, <1>2, <1>3, <1>4 DEF IInv, TypeOK, Block, races
<1>7. Rooted'
  BY <1>1, <1>3, <1>4, <1>5 DEF IInv, Rooted
<1>8. Steps'
  BY <1>1, <1>2, <1>3, <1>4, <1>5 DEF IInv, Steps, MiningAt, races, h
<1>9. TreesDisjoint' /\ TreesConnected'
  BY <1>1, <1>4, <1>5 DEF IInv, TreesDisjoint, TreesConnected
<1>10. HeadersAssigned'
  BY <1>1, <1>2, <1>3 DEF IInv, HeadersAssigned, Linking, MiningAt, h
<1>11. NonFullTracked'
  BY <1>1, <1>2, <1>3 DEF IInv, NonFullTracked, h
<1>12. QED
  BY <1>6, <1>7, <1>8, <1>9, <1>10, <1>11 DEF IInv

\* What a handler of the network thread leaves of the bookkeeping of the races.
LEMMA NetworkStepKeeps ==
  ASSUME IInv, NetworkStep
  PROVE  /\ besideNetwork' \subseteq besideNetwork
         /\ MiningAt("linked") \/ MiningAt("deepest") =>
              besideNetwork' = besideNetwork /\ mining.hash \in besideNetwork
         /\ Locked => mining = Idle /\ besideNetwork = {}
<1>1. Locked => mining = Idle /\ besideNetwork = {}
  BY DEF NetworkStep, NetworkRuns, IInv, Steps
<1>2. MiningAt("linked") \/ MiningAt("deepest") => mining # Idle /\ mining.at # "drawn"
  BY DEF MiningAt
<1>3. QED
  BY <1>1, <1>2 DEF NetworkStep, MiningAt, IInv, Steps

\* A header linked to the main tree brings the incomplete tree below it along,
\* and may lose its place, or take that of another, if the miner links a block.
LEMMA AttachIInv ==
  ASSUME IInv, NEW h \in Hash, Attach(h)
  PROVE  IInv'
<1> DEFINE below == {t \in forest : t.root = h}
<1> DEFINE nodes == {h} \cup UNION {t.nodes : t \in below}
<1>1. /\ h \in Mined \ main /\ Parent(h) \in main
      /\ forest' = forest \ below
      /\ nonFull' = nonFull \cup (nodes \ full)
      /\ besideMiner' = besideMiner \cup (IF MiningAt("drawn") THEN nodes ELSE {})
      /\ mining # Idle => h # mining.hash
      /\ UNCHANGED <<header, validating, waiting, mining>>
  BY DEF Attach, Announced
<1>2. PICK gone \in SUBSET MayMeet(nodes) :
        /\ main' = (main \cup nodes) \ gone
        /\ lost' = (lost \ nodes) \cup gone
        /\ full' = full \ gone
        /\ \/ h \in gone /\ UNCHANGED <<assigned, deepest>>
           \/ /\ h \notin gone /\ assigned' = assigned \cup {h}
              /\ \E d \in DeepestOf(nodes) : deepest' \in Deeper(d)
  BY DEF Attach
<1>3. nodes \subseteq Mined /\ nodes \subseteq Hash
  BY <1>1 DEF IInv, Rooted, TypeOK
<1>4. \A x \in nodes : x = h \/ Parent(x) \in nodes
  BY DEF IInv, TreesConnected
<1>5. \A x \in nodes : x = h \/ x \in assigned
  BY DEF IInv, HeadersAssigned
<1>6. \A t \in forest \ below : t.nodes \cap nodes = {}
  <2>1. SUFFICES ASSUME NEW t \in forest, t.root # h, NEW x \in t.nodes, x \in nodes
                 PROVE  FALSE
    OBVIOUS
  <2>2. CASE \E s \in below : x \in s.nodes
    BY <2>1, <2>2 DEF IInv, TreesDisjoint
  <2>3. CASE x = h
    <3>1. Parent(h) \in t.nodes
      BY <2>1, <2>3 DEF IInv, TreesConnected
    <3>2. QED
      BY <1>1, <3>1 DEF IInv, TreesDisjoint, InForest
  <2>4. QED
    BY <2>1, <2>2, <2>3
<1>7. mining # Idle => mining.hash \notin nodes
  BY <1>1 DEF IInv, Steps, InForest
<1>8. InForest' \subseteq InForest
  BY <1>1 DEF InForest
<1>9. gone \subseteq main \cup nodes /\ gone \subseteq Hash
  BY <1>2, <1>3 DEF MayMeet, IInv, TypeOK
<1>10. \/ deepest' = deepest
       \/ deepest' \in nodes /\ (deepest' = h => h \in assigned')
  BY <1>2 DEF DeepestOf, Deeper
<1>11. assigned \subseteq assigned' /\ assigned' \subseteq assigned \cup {h}
       /\ (h \in main' => h \in assigned')
  BY <1>2
<1>12. NetworkStep
  BY DEF Attach
<1>13. main' \cup lost' = main \cup lost \cup nodes /\ main' \cap lost' = {}
  BY <1>2, <1>9 DEF IInv, TreesDisjoint
<1> HIDE DEF nodes, below
<1>14. TypeOK'
  <2>1. deepest' \in Block
    BY <1>3, <1>10 DEF IInv, TypeOK, Block
  <2>2. besideMiner' \subseteq Hash /\ besideNetwork' \subseteq Hash
    BY <1>1, <1>3, <1>12, NetworkStepKeeps DEF IInv, TypeOK
  <2>3. main' \subseteq Block /\ lost' \subseteq Hash /\ full' \subseteq Block
    BY <1>2, <1>3, <1>9 DEF IInv, TypeOK, Block
  <2>4. QED
    BY <1>1, <1>3, <1>11, <2>1, <2>2, <2>3 DEF IInv, TypeOK, Block, Mined
<1>15. Rooted'
  <2>1. Genesis \in main' /\ full' \subseteq main'
    BY <1>2, <1>9, ConstantsAssumption DEF IInv, Rooted
  <2>2. deepest' \in main' \cup lost'
    BY <1>10, <1>13 DEF IInv, Rooted
  <2>3. QED
    BY <1>1, <2>1, <2>2 DEF IInv, Rooted, Mined, Parent, Depth
<1>16. Steps'
  <2>1. mining' # Idle =>
          /\ mining'.parent \in main' \cup lost'
          /\ (mining'.hash \in Mined') = ~MiningAt("drawn")'
          /\ mining'.hash \notin InForest'
          /\ \A x \in Mined' : Parent(x)' # mining'.hash
    BY <1>1, <1>8, <1>13 DEF IInv, Steps, Mined, Parent, MiningAt
  <2>2. (MiningAt("linked") \/ MiningAt("deepest"))' =>
          mining'.hash \in besideNetwork' \/ Locked
    BY <1>1, <1>12, NetworkStepKeeps DEF MiningAt
  <2>3. deepest' \in assigned' \/ (MiningAt("deepest")' /\ deepest' = mining'.hash)
    BY <1>1, <1>5, <1>10, <1>11 DEF IInv, Steps, MiningAt
  <2>4. Locked => lost' = {} /\ besideMiner' = {} /\ besideNetwork' = {}
    <3>1. SUFFICES ASSUME Locked PROVE lost' = {} /\ besideMiner' = {} /\ besideNetwork' = {}
      OBVIOUS
    <3>2. mining = Idle /\ besideNetwork = {} /\ besideNetwork' = {}
      BY <1>12, <3>1, NetworkStepKeeps
    <3>3. gone = {}
      BY <1>2, <3>2 DEF MayMeet
    <3>4. QED
      BY <1>1, <1>2, <3>1, <3>2, <3>3 DEF IInv, Steps, MiningAt
  <2>5. QED
    BY <2>1, <2>2, <2>3, <2>4 DEF Steps
<1>17. TreesDisjoint'
  <2>1. main' \cap InForest' = {}
    BY <1>1, <1>2, <1>6 DEF IInv, TreesDisjoint, InForest
  <2>2. QED
    BY <1>1, <1>13, <2>1 DEF IInv, TreesDisjoint
<1>18. TreesConnected'
  <2>1. \A x \in (main' \cup lost') \ {Genesis} :
          x \in Mined /\ Parent(x) \in main' \cup lost'
    BY <1>1, <1>3, <1>4, <1>13 DEF IInv, TreesConnected
  <2>2. QED
    BY <1>1, <2>1 DEF IInv, TreesConnected, Mined, Parent
<1>19. HeadersAssigned'
  <2>1. \A x \in main' : x \in assigned' \/ Linking(x)'
    BY <1>1, <1>2, <1>5, <1>11 DEF IInv, HeadersAssigned, Linking, MiningAt
  <2>2. QED
    BY <1>1, <1>11, <2>1 DEF IInv, HeadersAssigned
<1>20. NonFullTracked'
  BY <1>1, <1>2, <1>9 DEF IInv, NonFullTracked
<1>21. QED
  BY <1>14, <1>15, <1>16, <1>17, <1>18, <1>19, <1>20 DEF IInv

\* Four ways to keep a header aside, all of the form "some trees are replaced by
\* one": the trees of the header and of its parent, by their union.
LEMMA StoreIncompleteIInv ==
  ASSUME IInv, NEW h \in Hash, StoreIncomplete(h)
  PROVE  IInv'
<1> DEFINE p == Parent(h)
<1> DEFINE ch == {t \in forest : h \in t.nodes}
<1> DEFINE ph == {t \in forest : p \in t.nodes}
<1> DEFINE moved == UNION {t.nodes : t \in ch}
<1>1. /\ h \in Mined /\ h \notin main /\ p \notin main /\ ~IsInIncomplete(h)
      /\ assigned' = assigned \cup {h} /\ forest' = AddToIncomplete(p, h)
      /\ UNCHANGED <<header, main, lost, deepest, full, nonFull, validating, waiting,
                     mining, besideMiner>>
      /\ mining # Idle => mining.hash # h /\ mining.hash # p
      /\ NetworkStep
  BY DEF StoreIncomplete, NeedParent, Announced, IInv, Steps
<1>2. p \in Mined /\ p # Genesis /\ p \in Hash /\ Depth(h) = Depth(p) + 1
  BY <1>1 DEF IInv, Rooted, TypeOK, Block
<1>3. \A t \in ch : t.root = h
  BY <1>1 DEF IsInIncomplete
<1>4. /\ moved \subseteq Mined /\ moved \cap main = {}
      /\ \A x \in moved : x # h => Parent(x) \in moved /\ x \in assigned
      /\ \A x \in moved : Depth(h) <= Depth(x)
  BY <1>3 DEF IInv, Rooted, TreesDisjoint, TreesConnected, HeadersAssigned, InForest
<1>5. \A x \in Mined : Depth(x) \in Nat /\ x \in Hash
  BY DEF IInv, TypeOK, Depth, Header
<1>6. p # h /\ p \notin moved
  <2>1. Depth(p) < Depth(h)
    BY <1>2, <1>5
  <2>2. QED
    BY <1>1, <1>2, <1>4, <1>5, <2>1
<1>7. \A t \in forest \ ch : t.nodes \cap ({h} \cup moved) = {}
  BY DEF IInv, TreesDisjoint
<1>8. PICK N \in Tree : /\ forest' = (forest \ (ch \cup ph)) \cup {N}
                        /\ N.nodes = {p, h} \cup moved \cup UNION {t.nodes : t \in ph}
                        /\ IF ph = {} THEN N.root = p
                                      ELSE \E t \in ph : N.root = t.root
  <2>1. moved \subseteq Hash
    BY <1>4, <1>5
  <2>2. CASE ph = {}
    <3> DEFINE N == [root |-> p, nodes |-> {p, h} \cup moved, asks |-> 0]
    <3>1. N \in Tree
      BY <1>2, <2>1, ConstantsAssumption DEF Tree
    <3>2. forest' = (forest \ ch) \cup {N}
      BY <1>1, <2>2 DEF AddToIncomplete
    <3>3. QED
      BY <2>2, <3>1, <3>2
  <2>3. CASE ph # {}
    <3>1. PICK t \in forest : p \in t.nodes
      BY <2>3
    <3>2. ph = {t}
      BY <3>1 DEF IInv, TreesDisjoint
    <3> DEFINE N == [t EXCEPT !.nodes = @ \cup {h} \cup moved]
    <3>3. t \in Tree
      BY DEF IInv, TypeOK
    <3>4. N \in Tree /\ N.root = t.root /\ N.nodes = t.nodes \cup {h} \cup moved
      BY <2>1, <3>3 DEF Tree
    <3>5. forest' = (forest \ (ch \cup ph)) \cup {N}
      BY <1>1, <2>3, <3>2 DEF AddToIncomplete
    <3>6. QED
      BY <2>3, <3>1, <3>2, <3>4, <3>5
  <2>4. QED
    BY <2>2, <2>3
<1>9. /\ N.root \in N.nodes /\ N.nodes \subseteq Mined /\ N.nodes \cap main = {}
      /\ \A x \in N.nodes : Depth(N.root) <= Depth(x)
      /\ \A x \in N.nodes \ {N.root} : Parent(x) \in N.nodes /\ x \in assigned \cup {h}
      /\ \A t \in forest \ (ch \cup ph) : t.nodes \cap N.nodes = {}
  <2>1. CASE ph = {}
    <3>1. N.root = p /\ N.nodes = {p, h} \cup moved
      BY <1>8, <2>1
    <3>2. \A x \in N.nodes : Depth(p) <= Depth(x)
      BY <1>1, <1>2, <1>4, <1>5, <3>1
    <3>3. \A t \in forest \ (ch \cup ph) : t.nodes \cap N.nodes = {}
      BY <1>7, <2>1, <3>1
    <3>4. QED
      BY <1>1, <1>2, <1>4, <3>1, <3>2, <3>3
  <2>2. CASE ph # {}
    <3>1. PICK t \in ph : N.root = t.root
      BY <1>8, <2>2
    <3>2. ph = {t}
      BY DEF IInv, TreesDisjoint
    <3>3. N.nodes = {h} \cup moved \cup t.nodes
      BY <1>8, <3>2
    <3>4. /\ t.root \in t.nodes /\ t.nodes \subseteq Mined /\ t.nodes \cap main = {}
          /\ \A x \in t.nodes : Depth(t.root) <= Depth(x)
          /\ \A x \in t.nodes \ {t.root} : Parent(x) \in t.nodes /\ x \in assigned
          /\ \A s \in forest \ ph : s.nodes \cap t.nodes = {}
      BY <3>2 DEF IInv, Rooted, TreesDisjoint, TreesConnected, HeadersAssigned, InForest
    <3>5. \A x \in N.nodes : Depth(t.root) <= Depth(x)
      <4>1. Depth(t.root) <= Depth(p)
        BY <3>4
      <4>2. Depth(t.root) \in Nat
        BY <1>5, <3>4
      <4>3. QED
        BY <1>1, <1>2, <1>4, <1>5, <3>3, <3>4, <4>1, <4>2
    <3>6. \A x \in N.nodes \ {N.root} : Parent(x) \in N.nodes /\ x \in assigned \cup {h}
      BY <1>4, <3>1, <3>3, <3>4
    <3>7. QED
      BY <1>1, <1>4, <1>7, <3>1, <3>3, <3>4, <3>5, <3>6
  <2>3. QED
    BY <2>1, <2>2
<1> HIDE DEF p, ch, ph, moved
<1>10. TypeOK'
  BY <1>1, <1>8, NetworkStepKeeps DEF IInv, TypeOK, Mined, Block
<1>11. Rooted'
  <2>1. \A t \in forest' : /\ t.root \in t.nodes /\ t.nodes \subseteq Mined
                           /\ \A x \in t.nodes : Depth(t.root) <= Depth(x)
    BY <1>8, <1>9 DEF IInv, Rooted
  <2>2. QED
    BY <1>1, <2>1 DEF IInv, Rooted, Mined, Parent, Depth
<1>12. TreesDisjoint'
  BY <1>1, <1>8, <1>9 DEF IInv, TreesDisjoint, InForest
<1>13. TreesConnected'
  <2>1. \A t \in forest' : \A x \in t.nodes \ {t.root} : x \in Mined /\ Parent(x) \in t.nodes
    BY <1>8, <1>9 DEF IInv, TreesConnected
  <2>2. QED
    BY <1>1, <2>1 DEF IInv, TreesConnected, Mined, Parent
<1>14. HeadersAssigned' /\ NonFullTracked'
  <2>1. \A t \in forest' : t.nodes \ {t.root} \subseteq assigned'
    BY <1>1, <1>8, <1>9 DEF IInv, HeadersAssigned
  <2>2. QED
    BY <1>1, <2>1 DEF IInv, HeadersAssigned, NonFullTracked, Linking, MiningAt
<1>15. Steps'
  <2>1. mining # Idle => mining.hash \notin InForest'
    <3>1. mining # Idle => mining.hash \notin InForest
      BY DEF IInv, Steps
    <3>2. N.nodes \subseteq {p, h} \cup InForest
      BY <1>8 DEF InForest, ch, ph, moved
    <3>3. InForest' \subseteq {p, h} \cup InForest
      BY <1>8, <3>2 DEF InForest
    <3>4. QED
      BY <1>1, <3>1, <3>3
  <2>2. MiningAt("linked") \/ MiningAt("deepest") => mining.hash \in besideNetwork' \/ Locked
    BY <1>1, NetworkStepKeeps
  <2>3. Locked => lost' = {} /\ besideMiner' = {} /\ besideNetwork' = {}
    BY <1>1, NetworkStepKeeps DEF IInv, Steps
  <2>4. QED
    BY <1>1, <2>1, <2>2, <2>3 DEF IInv, Steps, MiningAt, Mined, Parent
<1>16. QED
  BY <1>10, <1>11, <1>12, <1>13, <1>14, <1>15 DEF IInv

\* A poll counts the request in the trees that are due and drops those asked for
\* too often; the nodes of the trees that stay are the same.
LEMMA AskIncompleteIInv ==
  ASSUME IInv, NEW due \in SUBSET forest, AskIncomplete(due)
  PROVE  IInv'
<1> DEFINE given == {t \in due : t.asks >= NO_ASKS_BEFORE_REMOVING}
<1>1. /\ forest' = (forest \ due) \cup {[t EXCEPT !.asks = @ + 1] : t \in due \ given}
      /\ assigned' = assigned \ ((UNION {t.nodes : t \in given}) \ lost)
      /\ UNCHANGED <<header, main, lost, deepest, full, nonFull, validating, waiting,
                     mining, besideMiner>>
      /\ NetworkStep
  BY DEF AskIncomplete
<1>2. \A t \in forest' : /\ t \in Tree
                         /\ \E s \in forest \ given : /\ t.root = s.root /\ t.nodes = s.nodes
                                                      /\ (s \in due \/ t = s)
                                                      /\ (s \in due => t = [s EXCEPT !.asks = @ + 1])
  <2>1. \A s \in due \ given :
          LET u == [s EXCEPT !.asks = @ + 1]
          IN  u \in Tree /\ u.root = s.root /\ u.nodes = s.nodes
    BY ConstantsAssumption DEF IInv, TypeOK, Tree
  <2>2. forest \subseteq Tree
    BY DEF IInv, TypeOK
  <2>3. QED
    BY <1>1, <2>1, <2>2
<1>3. main \cap UNION {t.nodes : t \in given} = {}
  BY DEF IInv, TreesDisjoint, InForest
<1>4. \A s \in forest \ given : s.nodes \cap UNION {t.nodes : t \in given} = {}
  BY DEF IInv, TreesDisjoint
<1> HIDE DEF given
<1>5. TypeOK'
  BY <1>1, <1>2, NetworkStepKeeps DEF IInv, TypeOK, Mined, Block
<1>6. Rooted'
  BY <1>1, <1>2 DEF IInv, Rooted, Mined, Parent, Depth
<1>7. TreesDisjoint'
  BY <1>1, <1>2 DEF IInv, TreesDisjoint, InForest
<1>8. TreesConnected'
  BY <1>1, <1>2 DEF IInv, TreesConnected, Mined, Parent
<1>9. HeadersAssigned' /\ NonFullTracked'
  BY <1>1, <1>2, <1>3, <1>4 DEF IInv, HeadersAssigned, NonFullTracked, Linking, MiningAt
<1>10. Steps'
  <2>1. InForest' \subseteq InForest
    BY <1>1, <1>2 DEF InForest
  <2>2. MiningAt("linked") \/ MiningAt("deepest") => mining.hash \in besideNetwork' \/ Locked
    BY <1>1, NetworkStepKeeps
  <2>3. Locked => lost' = {} /\ besideMiner' = {} /\ besideNetwork' = {}
    BY <1>1, NetworkStepKeeps DEF IInv, Steps
  <2>4. deepest \in assigned => deepest \in assigned'
    <3>1. deepest \in main \cup lost
      BY DEF IInv, Rooted
    <3>2. deepest \notin (UNION {t.nodes : t \in given}) \ lost
      BY <1>3, <3>1
    <3>3. deepest' = deepest /\ assigned' = assigned \ ((UNION {t.nodes : t \in given}) \ lost)
      BY <1>1
    <3>4. QED
      BY <3>2, <3>3, Zenon
  <2>5. /\ main' = main /\ lost' = lost /\ deepest' = deepest /\ mining' = mining
        /\ Mined' = Mined /\ \A x : Parent(x)' = Parent(x)
    BY <1>1 DEF Mined, Parent
  <2>6. QED
    <3>1. mining' # Idle =>
            /\ mining'.parent \in main' \cup lost'
            /\ (mining'.hash \in Mined') = ~MiningAt("drawn")'
            /\ mining'.hash \notin InForest'
            /\ \A x \in Mined' : Parent(x)' # mining'.hash
      BY <2>1, <2>5 DEF IInv, Steps, MiningAt
    <3>2. deepest' \in assigned' \/ (MiningAt("deepest")' /\ deepest' = mining'.hash)
      BY <2>4, <2>5 DEF IInv, Steps, MiningAt
    <3>3. QED
      BY <2>2, <2>3, <2>5, <3>1, <3>2 DEF Steps, MiningAt
<1>11. QED
  BY <1>5, <1>6, <1>7, <1>8, <1>9, <1>10 DEF IInv

\* The steps on the bodies of blocks leave headers and trees alone.
LEMMA BodiesIInv ==
  ASSUME IInv,
         \/ \E h \in Hash : ReceiveKnown(h)
         \/ \E h \in Hash : HaveFullBlock(h)
         \/ \E h \in Hash : SetBlockFull(h)
         \/ \E due \in SUBSET nonFull, expired \in SUBSET waiting :
              AskFullBlocks(due, expired)
         \/ \E due \in SUBSET validating : AskVotes(due)
         \/ \E h \in Hash : MineBegin(h)
         \/ UNCHANGED vars
  PROVE  IInv'
<1>1. /\ UNCHANGED <<header, main, lost, forest, assigned, deepest, besideMiner>>
      /\ full \subseteq full' /\ full' \subseteq main
      /\ NonFullTracked'
      /\ nonFull' \subseteq nonFull /\ validating' \subseteq validating
      /\ waiting' \subseteq Hash
      /\ \/ mining' = mining /\ (NetworkStep \/ besideNetwork' = besideNetwork)
         \/ /\ mining = Idle /\ besideNetwork' = besideNetwork
            /\ \E h \in Hash \ Mined :
                 mining' = [hash |-> h, parent |-> deepest, at |-> "drawn"]
  <2>1. full \subseteq main /\ waiting \subseteq Hash /\ NonFullTracked
    BY DEF IInv, Rooted, TypeOK
  <2>2. CASE \E h \in Hash : ReceiveKnown(h)
    BY <2>1, <2>2 DEF ReceiveKnown, NonFullTracked
  <2>3. CASE \E h \in Hash : HaveFullBlock(h)
    BY <2>1, <2>3 DEF HaveFullBlock, NonFullTracked
  <2>4. CASE \E h \in Hash : SetBlockFull(h)
    BY <2>1, <2>4 DEF SetBlockFull, NonFullTracked
  <2>5. CASE \E due \in SUBSET nonFull, expired \in SUBSET waiting :
              AskFullBlocks(due, expired)
    BY <2>1, <2>5 DEF AskFullBlocks, NonFullTracked
  <2>6. CASE \E due \in SUBSET validating : AskVotes(due)
    BY <2>1, <2>6 DEF AskVotes, NonFullTracked
  <2>7. CASE \E h \in Hash : MineBegin(h)
    BY <2>1, <2>7 DEF MineBegin, Fresh, NonFullTracked, races
  <2>8. CASE UNCHANGED vars
    BY <2>1, <2>8 DEF vars, races, NonFullTracked
  <2>9. QED
    BY <2>2, <2>3, <2>4, <2>5, <2>6, <2>7, <2>8
<1>2. Mined' = Mined /\ InForest' = InForest
  BY <1>1 DEF Mined, InForest
<1>3. \A x : Parent(x)' = Parent(x) /\ Depth(x)' = Depth(x)
  BY <1>1 DEF Parent, Depth
<1>4. \/ mining' = mining
      \/ /\ mining = Idle /\ mining' \in Candidate /\ mining' # Idle
         /\ mining'.hash \in Hash \ Mined /\ mining'.parent = deepest
         /\ mining'.at = "drawn"
  BY <1>1, ConstantsAssumption DEF Candidate, IInv, TypeOK
<1>5. TypeOK'
  BY <1>1, <1>2, <1>4, NetworkStepKeeps DEF IInv, TypeOK, Rooted, Block
<1>6. Rooted'
  BY <1>1, <1>2, <1>3 DEF IInv, Rooted
<1>7. Steps'
  <2>1. Locked => lost' = {} /\ besideMiner' = {} /\ besideNetwork' = {}
    BY <1>1, NetworkStepKeeps DEF IInv, Steps
  <2>2. CASE mining' = mining
    <3>1. MiningAt("linked") \/ MiningAt("deepest") => mining.hash \in besideNetwork' \/ Locked
      BY <1>1, NetworkStepKeeps DEF IInv, Steps
    <3>2. QED
      BY <1>1, <1>2, <1>3, <2>1, <2>2, <3>1 DEF IInv, Steps, MiningAt
  <2>3. CASE mining' # mining
    <3>1. mining'.hash \notin InForest
      BY <1>4, <2>3 DEF IInv, Rooted, InForest
    <3>2. \A x \in Mined : Parent(x) # mining'.hash
      BY <1>4, <2>3, ConstantsAssumption DEF IInv, Rooted
    <3>3. deepest \in main \cup lost
      BY DEF IInv, Rooted
    <3>4. deepest \in assigned
      BY <1>4, <2>3 DEF IInv, Steps, MiningAt
    <3>5. QED
      BY <1>1, <1>2, <1>3, <1>4, <2>1, <2>3, <3>1, <3>2, <3>3, <3>4 DEF Steps, MiningAt
  <2>4. QED
    BY <2>2, <2>3
<1>8. TreesDisjoint' /\ TreesConnected'
  BY <1>1, <1>2, <1>3 DEF IInv, TreesDisjoint, TreesConnected
<1>9. HeadersAssigned'
  BY <1>1, <1>4 DEF IInv, HeadersAssigned, Linking, MiningAt
<1>10. QED
  BY <1>1, <1>5, <1>6, <1>7, <1>8, <1>9 DEF IInv

LEMMA NextIInv == IInv /\ [Next]_vars => IInv'
<1>1. SUFFICES ASSUME IInv, [Next]_vars PROVE IInv'
  OBVIOUS
<1>2. CASE \E h \in Hash, p \in Block : PeerMines(h, p)
  BY <1>1, <1>2, PeerMinesIInv
<1>3. CASE \E h \in Hash : Attach(h)
  BY <1>1, <1>3, AttachIInv
<1>4. CASE \E h \in Hash : StoreIncomplete(h)
  BY <1>1, <1>4, StoreIncompleteIInv
<1>5. CASE \E due \in SUBSET forest : AskIncomplete(due)
  BY <1>1, <1>5, AskIncompleteIInv
<1>6. CASE MineStep
  BY <1>1, <1>6, MineLinkIInv, MineOrphanIInv, MineRestIInv DEF MineStep
<1>7. QED
  BY <1>1, <1>2, <1>3, <1>4, <1>5, <1>6, BodiesIInv DEF Next

\* Whatever the order in which headers arrive, are asked for and given up, and
\* wherever a handler comes between two steps of mine_new_block: the tree of a node
\* stays well formed.  Without the lock nodes may be lost, and the header of the
\* block being linked may not be set; the invariant says of which.
THEOREM TreeInvariant == Spec => []IInv
<1>1. Init => IInv
  BY InitIInv
<1>2. IInv /\ [Next]_vars => IInv'
  BY NextIInv
<1>3. QED
  BY <1>1, <1>2, PTL DEF Spec

\* Type correctness of the chain of a node.
THEOREM TypeCorrect == Spec => []TypeOK
<1>1. IInv => TypeOK
  BY DEF IInv
<1>2. QED
  BY <1>1, TreeInvariant, PTL

\* No header is linked at two places (what add_block_to_incomplete relies on when
\* it moves a tree).
THEOREM NoHeaderTwice == Spec => []TreesDisjoint
<1>1. IInv => TreesDisjoint
  BY DEF IInv
<1>2. QED
  BY <1>1, TreeInvariant, PTL

\* Every walk along the parent pointers ends at the root of its tree.
THEOREM WalksStayInTree == Spec => []TreesConnected
<1>1. IInv => TreesConnected
  BY DEF IInv
<1>2. QED
  BY <1>1, TreeInvariant, PTL

\* The only node of a tree whose header may not be set is the one mine_new_block
\* is linking.
THEOREM UnsetOnlyWhileLinking == Spec => []HeadersAssigned
<1>1. IInv => HeadersAssigned
  BY DEF IInv
<1>2. QED
  BY <1>1, TreeInvariant, PTL

\* No block of the main tree is forgotten before its body is there.
THEOREM NoBlockForgotten == Spec => []NonFullTracked
<1>1. IInv => NonFullTracked
  BY DEF IInv
<1>2. QED
  BY <1>1, TreeInvariant, PTL

\* A received header leaves the node only with a tree that was asked for too often,
\* or where the insertions of the two threads meet.
THEOREM LostOnlyWhenGivenUp == Spec => KeptUntilGivenUp
<1> DEFINE kept == /\ (main \ main') \cup (full \ full') \subseteq Clashing
                   /\ (main \cup InForest) \ (main' \cup InForest')
                        \subseteq GivenUp \cup Clashing
<1>1. ASSUME IInv, [Next]_vars PROVE [kept]_vars
  <2>1. CASE UNCHANGED <<main, forest>> /\ full \subseteq full'
    BY <2>1 DEF InForest
  <2>2. ASSUME NEW h \in Hash, Attach(h) PROVE kept
    <3> DEFINE below == {t \in forest : t.root = h}
    <3> DEFINE nodes == {h} \cup UNION {t.nodes : t \in below}
    <3>1. PICK gone \in SUBSET MayMeet(nodes) :
            main' = (main \cup nodes) \ gone /\ full' = full \ gone
      BY <2>2 DEF Attach
    <3>2. /\ h \in Mined \ main /\ Parent(h) \in main /\ forest' = forest \ below
      BY <2>2 DEF Attach, Announced
    <3>3. full \subseteq main
      BY <1>1 DEF IInv, Rooted
    <3>4. nodes \cap main = {}
      BY <1>1, <3>2 DEF IInv, TreesDisjoint, InForest
    <3>5. gone # {} => besideNetwork # {}
      BY DEF MayMeet
    <3>6. gone \cap main \subseteq Clashing
      BY <3>4 DEF MayMeet, Clashing
    <3>7. ASSUME NEW x \in gone, x \in InForest, x \in nodes
          PROVE  x \in Clashing
      <4>1. PICK t \in forest : x \in t.nodes
        BY <3>7 DEF InForest
      <4>2. t.root = h
        <5>1. CASE x = h
          BY <1>1, <3>2, <4>1, <5>1 DEF IInv, TreesConnected, TreesDisjoint, InForest
        <5>2. CASE \E s \in below : x \in s.nodes
          BY <1>1, <4>1, <5>2 DEF IInv, TreesDisjoint
        <5>3. QED
          BY <3>7, <5>1, <5>2
      <4>3. besideNetwork # {}
        BY <3>5
      <4>4. x \in UNION {r.nodes : r \in {s \in forest : /\ s.root \in Mined
                                                        /\ Parent(s.root) \in main}}
        BY <3>2, <4>1, <4>2
      <4>5. QED
        BY <4>3, <4>4 DEF Clashing
    <3>8. ASSUME NEW x \in InForest, x \notin main', x \notin InForest' PROVE x \in Clashing
      <4>1. PICK t \in forest : x \in t.nodes
        BY <3>8 DEF InForest
      <4>2. t \in below
        BY <3>2, <3>8, <4>1 DEF InForest
      <4>3. x \in nodes /\ x \in gone
        BY <3>1, <3>8, <4>1, <4>2
      <4>4. QED
        BY <3>7, <3>8, <4>3
    <3> HIDE DEF nodes, below
    <3>9. main \ main' \subseteq gone \cap main /\ full \ full' \subseteq gone \cap main
      BY <3>1, <3>3
    <3>10. QED
      BY <3>6, <3>8, <3>9
  <2>3. ASSUME NEW h \in Hash, StoreIncomplete(h) PROVE kept
    <3> DEFINE ch == {t \in forest : h \in t.nodes}
    <3> DEFINE ph == {t \in forest : Parent(h) \in t.nodes}
    <3>1. ASSUME NEW t \in ph PROVE \E u \in forest' : t.nodes \subseteq u.nodes
      <4>1. [t EXCEPT !.nodes = @ \cup {h} \cup UNION {s.nodes : s \in ch}] \in forest'
        BY <2>3, <3>1 DEF StoreIncomplete, AddToIncomplete
      <4>2. t \in Tree
        BY <1>1 DEF IInv, TypeOK
      <4>3. QED
        BY <4>1, <4>2 DEF Tree
    <3>2. ASSUME NEW t \in ch PROVE \E u \in forest' : t.nodes \subseteq u.nodes
      <4>1. CASE ph = {}
        <5> DEFINE u == [root |-> Parent(h),
                         nodes |-> {Parent(h), h} \cup UNION {s.nodes : s \in ch}, asks |-> 0]
        <5>1. u \in forest'
          BY <2>3, <4>1 DEF StoreIncomplete, AddToIncomplete
        <5>2. t.nodes \subseteq u.nodes
          BY <3>2
        <5>3. QED
          BY <5>1, <5>2
      <4>2. CASE ph # {}
        <5>1. PICK s \in ph : TRUE
          BY <4>2
        <5>2. [s EXCEPT !.nodes = @ \cup {h} \cup UNION {r.nodes : r \in ch}] \in forest'
          BY <2>3, <4>2, <5>1 DEF StoreIncomplete, AddToIncomplete
        <5>3. s \in Tree
          BY <1>1, <5>1 DEF IInv, TypeOK
        <5>4. QED
          BY <3>2, <5>2, <5>3 DEF Tree
      <4>3. QED
        BY <4>1, <4>2
    <3>3. ASSUME NEW t \in forest, t \notin ch, t \notin ph PROVE t \in forest'
      BY <2>3, <3>3 DEF StoreIncomplete, AddToIncomplete
    <3>4. InForest \subseteq InForest'
      BY <3>1, <3>2, <3>3 DEF InForest
    <3>5. QED
      BY <2>3, <3>4 DEF StoreIncomplete
  <2>4. ASSUME NEW due \in SUBSET forest, AskIncomplete(due) PROVE kept
    <3>1. forest \subseteq Tree
      BY <1>1 DEF IInv, TypeOK
    <3>2. ASSUME NEW t \in forest, t.asks < NO_ASKS_BEFORE_REMOVING \/ t \notin due
          PROVE  \E u \in forest' : u.nodes = t.nodes
      <4>1. CASE t \notin due
        BY <2>4, <4>1 DEF AskIncomplete
      <4>2. CASE t \in due
        <5>1. t \in Tree /\ ~(t.asks >= NO_ASKS_BEFORE_REMOVING)
          BY <3>1, <3>2, <4>2, ConstantsAssumption DEF Tree
        <5>2. [t EXCEPT !.asks = @ + 1] \in forest'
          BY <2>4, <4>2, <5>1 DEF AskIncomplete
        <5>3. QED
          BY <5>1, <5>2 DEF Tree
      <4>3. QED
        BY <4>1, <4>2
    <3>3. \A t \in forest : t.asks < NO_ASKS_BEFORE_REMOVING \/ t.asks = NO_ASKS_BEFORE_REMOVING
      BY <3>1, ConstantsAssumption DEF Tree
    <3>4. InForest \ InForest' \subseteq GivenUp
      BY <3>2, <3>3 DEF InForest, GivenUp
    <3>5. QED
      BY <2>4, <3>4 DEF AskIncomplete
  <2>5. CASE MineLink
    <3>1. PICK gone \in SUBSET (besideMiner \cap main) :
            main' = (main \ gone) \cup {mining.hash} /\ full' = full \ gone
      BY <2>5 DEF MineLink
    <3>2. InForest' = InForest /\ gone \subseteq Clashing
      BY <2>5 DEF MineLink, InForest, Clashing
    <3>3. QED
      BY <3>1, <3>2
  <2>6. QED
    BY <1>1, <2>1, <2>2, <2>3, <2>4, <2>5
       DEF Next, vars, PeerMines, ReceiveKnown, HaveFullBlock, SetBlockFull,
           AskFullBlocks, AskVotes, MineBegin, MineStep, MineOrphan, MineDeepest,
           MineMissed, MineAssign, MineEnd
<1>2. QED
  BY <1>1, TreeInvariant, PTL DEF Spec, KeptUntilGivenUp

\* The block that is deepest, or about to be: mine_new_block links its block one
\* step before deepest points to it.
Top == IF MiningAt("linked") THEN mining.hash ELSE deepest
TopIsMax == Top \in main /\ \A h \in main : Depth(h) <= Depth(Top)

\* Depths are numbers.
LEMMA DepthsAreNumbers ==
  ASSUME IInv
  PROVE  /\ main \subseteq Mined \cup {Genesis}
         /\ \A x \in Mined \cup {Genesis} : Depth(x) \in Nat
  BY DEF IInv, TypeOK, TreesConnected, Depth, Header

\* Handlers raise deepest to what they link: nobody else links at that time.
LEMMA AttachKeepsTop ==
  ASSUME Locked, IInv, TopIsMax, NEW h \in Hash, Attach(h)
  PROVE  TopIsMax'
<1> DEFINE nodes == {h} \cup UNION {t.nodes : t \in {t \in forest : t.root = h}}
<1>1. nodes \subseteq Mined
  BY DEF Attach, Announced, IInv, Rooted
<1>2. mining = Idle /\ besideNetwork = {}
  BY NetworkStepKeeps DEF Attach
<1>3. MayMeet(nodes) = {}
  BY <1>2 DEF MayMeet
<1>4. main' = main \cup nodes /\ header' = header /\ mining' = Idle
  BY <1>2, <1>3 DEF Attach
<1>5. PICK d \in DeepestOf(nodes) :
        deepest' = IF Depth(d) > Depth(deepest) THEN d ELSE deepest
  BY <1>2, <1>3 DEF Attach, Deeper
<1>6. d \in nodes /\ \A n \in nodes : Depth(n) <= Depth(d)
  BY DEF DeepestOf
<1>7. deepest \in main /\ \A x \in main : Depth(x) <= Depth(deepest)
  BY <1>2 DEF TopIsMax, Top, MiningAt
<1>8. \A x \in nodes \cup main : Depth(x) \in Nat
  BY <1>1, DepthsAreNumbers
<1> HIDE DEF nodes
<1>9. deepest' \in main' /\ \A x \in main' : Depth(x) <= Depth(deepest')
  <2>1. CASE Depth(d) > Depth(deepest)
    BY <1>4, <1>5, <1>6, <1>7, <1>8, <2>1
  <2>2. CASE ~(Depth(d) > Depth(deepest))
    BY <1>4, <1>5, <1>6, <1>7, <1>8, <2>2
  <2>3. QED
    BY <2>1, <2>2
<1>10. QED
  BY <1>4, <1>9 DEF TopIsMax, Top, MiningAt, Depth

\* The miner links its block below the deepest one, so that it is the deepest.
LEMMA MineStepKeepsTop ==
  ASSUME Locked, IInv, TopIsMax, MinerReadsStable, MineStep
  PROVE  (TopIsMax /\ MinerReadsStable)'
<1>1. CASE MineLink
  <2>1. PICK h \in Hash : mining.hash = h
    BY <1>1, ConstantsAssumption DEF MineLink, MiningAt, IInv, TypeOK, Candidate
  <2>2. /\ h \notin Mined /\ NewHeader(h, deepest) /\ deepest \in main
        /\ deepest \in Mined \cup {Genesis} /\ Top = deepest
    BY <1>1, <2>1, DepthsAreNumbers
       DEF MineLink, IInv, Steps, TopIsMax, Top, MiningAt, MinerReadsStable
  <2>3. /\ \A x \in Mined \cup {Genesis} : Depth(x)' = Depth(x)
        /\ header'[h].depth = Depth(deepest) + 1 /\ h # Genesis
    <3>1. h # Genesis /\ header'[h].depth = Depth(deepest) + 1
      BY <2>2, ConstantsAssumption DEF NewHeader
    <3>2. PICK p \in Mined \cup {Genesis} : p = deepest
      BY <2>2
    <3>3. \A x \in Mined \cup {Genesis} : Depth(x)' = Depth(x)
      BY <2>2, <3>2, NewHeaderKeeps
    <3>4. QED
      BY <3>1, <3>3
  <2>4. main' = main \cup {h}
    BY <1>1, <2>1 DEF MineLink, IInv, Steps
  <2>5. mining' # Idle /\ mining'.at = "linked" /\ mining'.hash = h
    BY <1>1, <2>1, ConstantsAssumption DEF MineLink, MiningAt, IInv, TypeOK, Candidate
  <2>6. Top' = h
    BY <2>5 DEF Top, MiningAt
  <2>7. Depth(Top)' = Depth(deepest) + 1
    BY <2>3, <2>6 DEF Depth
  <2>8. \A x \in main : Depth(x)' <= Depth(Top)'
    <3>1. \A x \in main : Depth(x) \in Nat /\ Depth(x)' = Depth(x)
      BY <2>3, DepthsAreNumbers
    <3>2. \A x \in main : Depth(x) <= Depth(deepest)
      BY <2>2 DEF TopIsMax
    <3>3. QED
      BY <2>2, <2>7, <3>1, <3>2
  <2>9. Depth(h)' = Depth(Top)' /\ Depth(h)' \in Nat
    <3>1. Depth(deepest) \in Nat
      BY <2>2, DepthsAreNumbers
    <3>2. Depth(h)' = Depth(deepest) + 1
      BY <2>3 DEF Depth
    <3>3. QED
      BY <2>7, <3>1, <3>2
  <2>10. QED
    BY <2>4, <2>5, <2>6, <2>8, <2>9 DEF TopIsMax, MinerReadsStable, MiningAt
<1>2. CASE MineOrphan \/ MineMissed
  BY <1>2 DEF MineOrphan, MineMissed, TopIsMax, Top, MiningAt, MinerReadsStable
<1>3. CASE MineDeepest \/ MineAssign \/ MineEnd
  <2>1. /\ main' = main /\ header' = header /\ Top' = Top
        /\ ~MiningAt("drawn")'
    BY <1>3, ConstantsAssumption
       DEF MineDeepest, MineAssign, MineEnd, Top, MiningAt, IInv, TypeOK, Candidate
  <2>2. QED
    BY <2>1 DEF TopIsMax, MinerReadsStable, Depth
<1>4. QED
  BY <1>1, <1>2, <1>3 DEF MineStep

\* With the lock, as in OHIE, the node always mines on its deepest block: nobody moves
\* deepest between the read and the write of mine_new_block.  No handler finds it
\* without its header: the lock is given back after the header is set.
THEOREM LockedMinesOnDeepest ==
  ASSUME Locked
  PROVE  Spec => []DeepestIsMax
<1> DEFINE Inv == TopIsMax /\ MinerReadsStable
<1>1. Init => Inv
  BY DEF Init, TopIsMax, Top, MinerReadsStable, Depth, MiningAt
<1>2. IInv /\ Inv /\ [Next]_vars => Inv'
  <2> SUFFICES ASSUME IInv, Inv, [Next]_vars PROVE Inv'
    OBVIOUS
  <2>1. CASE UNCHANGED <<header, main, deepest, mining>>
    BY <2>1 DEF TopIsMax, Top, MinerReadsStable, Depth, MiningAt
  <2>2. ASSUME NEW h \in Hash, NEW p \in Block, PeerMines(h, p)
        PROVE  Inv'
    <3>1. \A x \in Mined \cup {Genesis} : Depth(x)' = Depth(x)
      BY <2>2, NewHeaderKeeps DEF PeerMines, Fresh, Announced
    <3>2. main' = main /\ Top' = Top /\ MinerReadsStable'
      BY <2>2 DEF PeerMines, Top, MiningAt, MinerReadsStable
    <3>3. \A x \in main : Depth(x)' = Depth(x)
      BY <3>1, DepthsAreNumbers
    <3>4. Depth(Top)' = Depth(Top)
      BY <3>1, <3>2, DepthsAreNumbers DEF TopIsMax, Depth
    <3>5. QED
      BY <3>2, <3>3, <3>4 DEF TopIsMax
  <2>3. ASSUME NEW h \in Hash, Attach(h)
        PROVE  Inv'
    <3>1. mining = Idle /\ mining' = Idle
      BY <2>3, NetworkStepKeeps DEF Attach
    <3>2. QED
      BY <2>3, <3>1, AttachKeepsTop DEF MinerReadsStable, MiningAt
  <2>4. ASSUME NEW h \in Hash, MineBegin(h)
        PROVE  Inv'
    <3>1. mining'.at = "drawn" /\ mining'.parent = deepest /\ mining = Idle
      BY <2>4 DEF MineBegin
    <3>2. main' = main /\ header' = header /\ deepest' = deepest
      BY <2>4 DEF MineBegin
    <3>3. QED
      BY <3>1, <3>2 DEF TopIsMax, Top, MinerReadsStable, MiningAt, Depth
  <2>5. CASE MineStep
    BY <2>5, MineStepKeepsTop
  <2>6. QED
    BY <2>1, <2>2, <2>3, <2>4, <2>5
       DEF Next, vars, ReceiveKnown, StoreIncomplete, AskIncomplete, HaveFullBlock,
           SetBlockFull, AskFullBlocks, AskVotes
<1>3. IInv /\ TopIsMax => DeepestIsMax
  BY DEF IInv, Steps, TopIsMax, Top, DeepestIsMax, NetworkRuns, MiningAt
<1>4. QED
  BY <1>1, <1>2, <1>3, TreeInvariant, PTL DEF Spec

-----------------------------------------------------------------------------
(***************************************************************************)
(* HeaderSync: every step of the exchange is one of ChainTree or leaves    *)
(* the chain alone, so that what is proved of a chain holds while its      *)
(* headers come from a peer over channels that lose and repeat them.       *)
(***************************************************************************)

\* Messages may name only hashes.
Named ==
    /\ Mined \subseteq Hash
    /\ mining # Idle => mining.hash \in Hash

LEMMA StepImplements ==
  ASSUME Named, [SyncNext]_allVars
  PROVE  [Next]_vars
<1>1. ASSUME NEW h \in Hash, NEW p \in Block, PeerSends(h, p)
      PROVE  Next
  BY <1>1 DEF PeerSends, Next
<1>2. CASE ReceiveNews
  <2>1. PICK h : ReceiveKnown(h) \/ Attach(h) \/ StoreIncomplete(h)
    BY <1>2 DEF ReceiveNews
  <2>2. h \in Hash
    BY <2>1 DEF ReceiveKnown, Attach, StoreIncomplete, Named, Announced
  <2> QED BY <2>1, <2>2 DEF Next
<1>3. ASSUME NEW due \in SUBSET forest, PollIncomplete(due)
      PROVE  Next
  BY <1>3 DEF PollIncomplete, Next
<1>4. CASE PeerAnswers \/ LoseTail \/ Repeat \/ UNCHANGED allVars
  BY <1>4 DEF PeerAnswers, LoseTail, Repeat, allVars
<1>5. ASSUME NEW h \in Hash, MineBegin(h)
      PROVE  Next
  BY <1>5 DEF Next
<1>6. CASE MineStep
  BY <1>6 DEF Next
<1> QED BY <1>1, <1>2, <1>3, <1>4, <1>5, <1>6 DEF SyncNext

LEMMA SyncIsChain == SyncSpec => Spec
<1>1. SyncInit => Init
  BY DEF SyncInit
<1>2. IInv => Named
  BY ConstantsAssumption DEF IInv, TypeOK, Named, Candidate
<1>3. Named /\ [SyncNext]_allVars => [Next]_vars
  BY StepImplements
<1>4. IInv /\ [Next]_vars => IInv'
  BY NextIInv
<1> QED BY InitIInv, <1>1, <1>2, <1>3, <1>4, PTL DEF SyncSpec, Spec

\* With the lock the node mines on a deepest block while it catches up with its
\* peer: no gap that is closed leaves deepest[chain_id] behind.
THEOREM SyncedMinesOnDeepest ==
  ASSUME Locked
  PROVE  SyncSpec => []DeepestIsMax
  BY SyncIsChain, LockedMinesOnDeepest

\* While gaps are closed no header is at two places, every walk along the parent
\* pointers stays in its tree, and no body that is missing is forgotten.
THEOREM SyncedTreesSound ==
  SyncSpec => [](TreesDisjoint /\ TreesConnected /\ NonFullTracked)
  BY SyncIsChain, NoHeaderTwice, WalksStayInTree, NoBlockForgotten, PTL
=============================================================================
