--------------------------- MODULE OhieNodeProofs ---------------------------
(***************************************************************************)
(* Theorems about OhieNode, for any number of chains and nodes, any        *)
(* T_DISCARD, and any blocks to start from.                                *)
(***************************************************************************)
EXTENDS OhieNode, FiniteSetTheorems, SequenceTheorems, WellFoundedInduction, TLAPS

-----------------------------------------------------------------------------
(***************************************************************************)
(* Least and greatest numbers.                                             *)
(***************************************************************************)

Below == {ss \in Nat \X Nat : ss[1] < ss[2]}

LEMMA LeastNumber ==
  ASSUME NEW S \in SUBSET Nat, S # {}
  PROVE  \E x \in S : \A y \in S : x <= y
<1>1. IsWellFoundedOn(Below, Nat)
  BY NatLessThanWellFounded DEF Below, OpToRel
<1>2. PICK x \in S : \A y \in S : <<y, x>> \notin Below
  BY <1>1, WFMin
<1>3. ASSUME NEW y \in S, y < x
      PROVE  FALSE
  <2>1. <<y, x>> \in Below
    BY <1>3 DEF Below
  <2> QED BY <1>2, <2>1
<1> QED BY <1>3

\* No number is a counterexample if none is the first one.
LEMMA NoLeast ==
  ASSUME NEW S \in SUBSET Nat,
         \A x \in S : \E y \in S : y < x
  PROVE  S = {}
<1> SUFFICES ASSUME S # {} PROVE FALSE
  OBVIOUS
<1>1. PICK x \in S : \A y \in S : x <= y
  BY LeastNumber
<1>2. PICK y \in S : y < x
  OBVIOUS
<1>3. x \in Nat /\ y \in Nat /\ x <= y
  BY <1>1, <1>2
<1> QED BY <1>2, <1>3

LEMMA MinIsLeast ==
  ASSUME NEW S \in SUBSET Nat, S # {}
  PROVE  Min(S) \in S /\ \A y \in S : Min(S) <= y
BY LeastNumber DEF Min

LEMMA GreatestNumber ==
  ASSUME NEW S \in SUBSET Nat, S # {}, NEW top \in Nat, \A x \in S : x <= top
  PROVE  \E x \in S : \A y \in S : y <= x
<1> DEFINE T == {top - x : x \in S}
<1>1. T \in SUBSET Nat /\ T # {}
  <2>1. \A x \in S : top - x \in Nat
    OBVIOUS
  <2> QED BY <2>1
<1>2. PICK t \in T : \A u \in T : t <= u
  BY <1>1, LeastNumber
<1>3. PICK x \in S : t = top - x
  BY <1>2
<1>4. ASSUME NEW y \in S
      PROVE  y <= x
  <2>1. t <= top - y
    BY <1>2
  <2>2. x \in Nat /\ y \in Nat /\ top - x <= top - y
    BY <1>3, <2>1
  <2> QED BY <2>2
<1> QED BY <1>4

LEMMA MaxIsGreatest ==
  ASSUME NEW S \in SUBSET Nat, S # {}, NEW top \in Nat, \A x \in S : x <= top
  PROVE  Max(S) \in S /\ \A y \in S : y <= Max(S)
BY GreatestNumber DEF Max

\* Finitely many numbers have a bound.
LEMMA BoundOfMany ==
  ASSUME NEW N \in Nat, NEW f \in [1 .. N -> Nat]
  PROVE  \E top \in Nat : \A i \in 1 .. N : f[i] <= top
<1> DEFINE S == {n \in 0 .. N : ~ \E top \in Nat : \A i \in 1 .. n : f[i] <= top}
<1>1. \A n \in S : \E m \in S : m < n
  <2> SUFFICES ASSUME NEW n \in S PROVE \E m \in S : m < n
    OBVIOUS
  <2>1. n # 0
    <3>1. \A i \in 1 .. 0 : f[i] <= 0
      OBVIOUS
    <3> QED BY <3>1
  <2>2. n - 1 \in 0 .. N /\ n - 1 < n
    BY <2>1
  <2>3. ASSUME NEW top \in Nat, \A i \in 1 .. n - 1 : f[i] <= top
        PROVE  FALSE
    <3>1. n \in 1 .. N /\ f[n] \in Nat
      BY <2>1
    <3>2. top + f[n] \in Nat
      BY <3>1
    <3>3. ASSUME NEW i \in 1 .. n
          PROVE  f[i] <= top + f[n]
      <4>1. i = n \/ i \in 1 .. n - 1
        BY <3>1
      <4>2. f[i] \in Nat
        BY <3>1
      <4>3. CASE i = n
        BY <3>1, <4>3
      <4>4. CASE i \in 1 .. n - 1
        <5>1. f[i] <= top
          BY <2>3, <4>4
        <5> QED BY <3>1, <4>2, <5>1
      <4> QED BY <4>1, <4>3, <4>4
    <3> QED BY <3>2, <3>3
  <2>4. n - 1 \in S
    BY <2>2, <2>3
  <2> QED BY <2>2, <2>4
<1>2. S \in SUBSET Nat
  OBVIOUS
<1> HIDE DEF S
<1>3. S = {}
  BY <1>1, <1>2, NoLeast
<1>4. N \in 0 .. N
  OBVIOUS
<1> QED BY <1>3, <1>4 DEF S

-----------------------------------------------------------------------------
(***************************************************************************)
(* Blocks and their chains.  m are the blocks made, as in the variable.    *)
(***************************************************************************)

\* The first CHAINS blocks are the genesis blocks, the others follow a parent.
Trees(m) ==
    /\ m \in Seq(Records) /\ Len(m) >= CHAINS
    /\ \A c \in Chain : m[c] = Genesis(c)
    /\ \A b \in CHAINS + 1 .. Len(m) : Continues(m, b)

\* Path and Settled, of the blocks m and for any number of steps.
Line(m, b) ==
    LET path[x \in 0 .. b] == IF x = 0 THEN {}
                              ELSE {x} \cup path[m[x].parent]
    IN  path[b]

Above(m, b, steps) ==
    LET up[k \in 0 .. steps] ==
          IF k = 0 THEN b
          ELSE IF up[k - 1] = 0 THEN 0 ELSE m[up[k - 1]].parent
    IN  up[steps]

LEMMA PathIsLine == \A b : Path(b) = Line(made, b) /\ Settled(b) = Above(made, b, T_DISCARD)
BY DEF Path, Line, Settled, Above

LEMMA LineOfNext == \A b : Path(b)' = Line(made', b) /\ Settled(b)' = Above(made', b, T_DISCARD)
BY DEF Path, Line, Settled, Above

\* What Trees says of one block.
LEMMA TreeBlock ==
  ASSUME NEW m, Trees(m), NEW b \in 1 .. Len(m)
  PROVE  /\ Len(m) \in Nat /\ CHAINS \in Nat \ {0} /\ m[b] \in Records
         /\ b \in Nat \ {0} /\ m[b].parent \in 0 .. b - 1
         /\ m[b].depth \in Nat /\ m[b].next_rank \in Nat /\ m[b].chain \in Chain
         /\ m[b].parent = 0 => b \in Chain /\ m[b].chain = b /\ m[b].depth = 0
         /\ m[b].parent # 0 => b \in CHAINS + 1 .. Len(m) /\ Continues(m, b)
<1>1. m \in Seq(Records) /\ Len(m) \in Nat /\ CHAINS \in Nat \ {0}
  BY OhieAssumption, LenProperties DEF Trees
<1>2. m[b] \in Records
  BY <1>1, ElementOfSeq
<1>3. m[b].depth \in Nat /\ m[b].next_rank \in Nat /\ m[b].chain \in Chain
  BY <1>2 DEF Records
<1>4. b \in Chain \/ b \in CHAINS + 1 .. Len(m)
  BY <1>1 DEF Chain
<1>5. CASE b \in Chain
  <2>1. m[b] = Genesis(b)
    BY <1>5 DEF Trees
  <2>2. m[b].parent = 0 /\ m[b].chain = b /\ m[b].depth = 0
    BY <2>1 DEF Genesis
  <2> QED BY <1>1, <1>2, <1>3, <1>5, <2>2
<1>6. CASE b \in CHAINS + 1 .. Len(m)
  <2>1. Continues(m, b)
    BY <1>6 DEF Trees
  <2>2. m[b].parent \in 1 .. b - 1
    BY <2>1 DEF Continues
  <2>3. m[b].parent \in 0 .. b - 1 /\ m[b].parent # 0
    BY <1>1, <2>2
  <2> QED BY <1>1, <1>2, <1>3, <1>6, <2>1, <2>3
<1> QED BY <1>4, <1>5, <1>6

\* f holds the lines of the first b blocks.
IsLine(f, m, b) ==
    f = [x \in 0 .. b |-> IF x = 0 THEN {} ELSE {x} \cup f[m[x].parent]]

LEMMA LineIs == \A m, b : Line(m, b) = (CHOOSE f : IsLine(f, m, b))[b]
BY DEF Line, IsLine

LEMMA LineExists ==
  ASSUME NEW m, Trees(m), NEW b \in 0 .. Len(m)
  PROVE  \E f : IsLine(f, m, b)
<1> DEFINE S == {n \in 0 .. Len(m) : ~ \E f : IsLine(f, m, n)}
<1>1. Len(m) \in Nat
  BY LenProperties DEF Trees
<1>2. \A n \in S : \E k \in S : k < n
  <2> SUFFICES ASSUME NEW n \in S PROVE \E k \in S : k < n
    OBVIOUS
  <2>1. n # 0
    <3> DEFINE f == [x \in 0 .. 0 |-> {}]
    <3>1. IsLine(f, m, 0)
      BY DEF IsLine
    <3> QED BY <3>1
  <2>2. n \in 1 .. Len(m) /\ n - 1 \in 0 .. Len(m) /\ n - 1 < n
    BY <1>1, <2>1
  <2>3. ASSUME NEW g, IsLine(g, m, n - 1)
        PROVE  FALSE
    <3> DEFINE f == [x \in 0 .. n |-> IF x = n THEN {n} \cup g[m[n].parent] ELSE g[x]]
    <3>1. g = [x \in 0 .. n - 1 |-> IF x = 0 THEN {} ELSE {x} \cup g[m[x].parent]]
      BY <2>3 DEF IsLine
    <3>2. \A x \in 1 .. n : m[x].parent \in 0 .. x - 1
      BY <2>2, TreeBlock
    <3>3. \A x \in 1 .. n : f[m[x].parent] = g[m[x].parent]
      BY <2>2, <3>2
    <3>4. ASSUME NEW x \in 0 .. n
          PROVE  f[x] = IF x = 0 THEN {} ELSE {x} \cup f[m[x].parent]
      <4>1. CASE x = n
        BY <2>2, <3>3, <4>1
      <4>2. CASE x # n
        <5>1. x \in 0 .. n - 1 /\ f[x] = g[x]
          BY <2>2, <4>2
        <5>2. g[x] = IF x = 0 THEN {} ELSE {x} \cup g[m[x].parent]
          BY <3>1, <5>1
        <5>3. x # 0 => x \in 1 .. n
          BY <2>2, <5>1
        <5> QED BY <3>3, <5>1, <5>2, <5>3
      <4> QED BY <4>1, <4>2
    <3>5. f = [x \in 0 .. n |-> f[x]]
      OBVIOUS
    <3> HIDE DEF f
    <3>6. IsLine(f, m, n)
      BY <3>4, <3>5 DEF IsLine
    <3> QED BY <3>6
  <2> QED BY <2>2, <2>3
<1>3. S \in SUBSET Nat
  OBVIOUS
<1> HIDE DEF S
<1>4. S = {}
  BY <1>2, <1>3, NoLeast
<1> QED BY <1>4 DEF S

\* Blocks with the same parents have the same lines.
LEMMA LineAgrees ==
  ASSUME NEW m, Trees(m), NEW k, NEW a \in 0 .. Len(m), NEW b \in Nat, a <= b,
         \A x \in 1 .. a : k[x].parent = m[x].parent,
         NEW f, IsLine(f, m, a), NEW g, IsLine(g, k, b)
  PROVE  \A x \in 0 .. a : f[x] = g[x]
<1> DEFINE S == {n \in 0 .. a : f[n] # g[n]}
<1>1. Len(m) \in Nat
  BY LenProperties DEF Trees
<1>2. /\ \A x \in 0 .. a : f[x] = IF x = 0 THEN {} ELSE {x} \cup f[m[x].parent]
      /\ \A x \in 0 .. b : g[x] = IF x = 0 THEN {} ELSE {x} \cup g[k[x].parent]
  BY DEF IsLine
<1>3. \A n \in S : \E y \in S : y < n
  <2> SUFFICES ASSUME NEW n \in S PROVE \E y \in S : y < n
    OBVIOUS
  <2>1. n \in 0 .. a /\ n \in 0 .. b /\ f[n] # g[n]
    BY <1>1
  <2>2. n # 0
    BY <1>2, <2>1
  <2>3. n \in 1 .. a /\ n \in 1 .. Len(m)
    BY <1>1, <2>1, <2>2
  <2> DEFINE y == m[n].parent
  <2>4. y \in 0 .. n - 1 /\ k[n].parent = y
    BY <2>3, TreeBlock
  <2>5. f[n] = {n} \cup f[y] /\ g[n] = {n} \cup g[y]
    BY <1>2, <2>1, <2>2, <2>4
  <2>6. f[y] # g[y]
    BY <2>1, <2>5
  <2>7. y \in 0 .. a /\ y < n
    BY <1>1, <2>1, <2>4
  <2> QED BY <2>6, <2>7
<1>4. S \in SUBSET Nat
  BY <1>1
<1> HIDE DEF S
<1>5. S = {}
  BY <1>3, <1>4, NoLeast
<1> QED BY <1>5 DEF S

\* The line of a block is the block and the line of its parent.
LEMMA LineValue ==
  ASSUME NEW m, Trees(m), NEW b \in 0 .. Len(m)
  PROVE  Line(m, b) = IF b = 0 THEN {} ELSE {b} \cup Line(m, m[b].parent)
<1> DEFINE f == CHOOSE h : IsLine(h, m, b)
<1>1. Len(m) \in Nat /\ b \in Nat
  BY LenProperties DEF Trees
<1>2. IsLine(f, m, b) /\ Line(m, b) = f[b]
  BY LineExists, LineIs
<1> HIDE DEF f
<1>3. f[b] = IF b = 0 THEN {} ELSE {b} \cup f[m[b].parent]
  BY <1>1, <1>2 DEF IsLine
<1>4. CASE b = 0
  BY <1>2, <1>3, <1>4
<1>5. CASE b # 0
  <2> DEFINE y == m[b].parent
             g == CHOOSE h : IsLine(h, m, y)
  <2>1. b \in 1 .. Len(m)
    BY <1>1, <1>5
  <2>2. y \in 0 .. b - 1
    BY <2>1, TreeBlock
  <2>3. y \in 0 .. Len(m) /\ y <= b /\ y \in 0 .. y
    BY <1>1, <2>2
  <2>4. IsLine(g, m, y) /\ Line(m, y) = g[y]
    BY <2>3, LineExists, LineIs
  <2> HIDE DEF g, y
  <2>5. \A x \in 0 .. y : g[x] = f[x]
    BY <1>1, <1>2, <2>3, <2>4, LineAgrees
  <2>6. Line(m, y) = f[y]
    BY <2>3, <2>4, <2>5
  <2> QED BY <1>2, <1>3, <1>5, <2>6 DEF y
<1> QED BY <1>4, <1>5

\* Blocks made later do not change it.
LEMMA LineKept ==
  ASSUME NEW m, Trees(m), NEW k, Trees(k), NEW b \in 0 .. Len(m), Len(m) <= Len(k),
         \A x \in 1 .. Len(m) : k[x] = m[x]
  PROVE  Line(k, b) = Line(m, b)
<1> DEFINE f == CHOOSE h : IsLine(h, m, b)
           g == CHOOSE h : IsLine(h, k, b)
<1>1. Len(m) \in Nat /\ Len(k) \in Nat
  BY LenProperties DEF Trees
<1>2. b \in 0 .. Len(k) /\ b \in Nat /\ b <= b /\ b \in 0 .. b
  BY <1>1
<1>3. \A x \in 1 .. b : k[x].parent = m[x].parent
  BY <1>1
<1>4. IsLine(f, m, b) /\ Line(m, b) = f[b]
  BY LineExists, LineIs
<1>5. IsLine(g, k, b) /\ Line(k, b) = g[b]
  BY <1>2, LineExists, LineIs
<1> HIDE DEF f, g
<1>6. \A x \in 0 .. b : f[x] = g[x]
  BY <1>2, <1>3, <1>4, <1>5, LineAgrees
<1> QED BY <1>2, <1>4, <1>5, <1>6

-----------------------------------------------------------------------------
(***************************************************************************)
(* The shape of a line.                                                    *)
(***************************************************************************)

\* The line of a block stays below it, in its chain, and the numbers grow.
OnLine(m, x, b) ==
    /\ x \in 1 .. b /\ m[x].chain = m[b].chain
    /\ x # b => m[x].depth < m[b].depth /\ m[x].next_rank < m[b].next_rank

LEMMA LineParent ==
  ASSUME NEW m, Trees(m), NEW b \in 1 .. Len(m)
  PROVE  /\ b \in Line(m, b) /\ Line(m, m[b].parent) \subseteq Line(m, b)
         /\ \A x \in Line(m, b) : x = b \/ x \in Line(m, m[b].parent)
         /\ m[b].parent = 0 => Line(m, b) = {b}
         /\ m[b].parent # 0 => m[b].parent \in 1 .. Len(m) /\ m[b].parent < b
<1>1. Len(m) \in Nat /\ b \in 0 .. Len(m) /\ b # 0
  BY LenProperties DEF Trees
<1>2. Line(m, b) = {b} \cup Line(m, m[b].parent)
  BY <1>1, LineValue
<1>3. Line(m, 0) = {}
  <2>1. 0 \in 0 .. Len(m)
    BY <1>1
  <2> QED BY <2>1, LineValue
<1>4. m[b].parent \in 0 .. b - 1
  BY TreeBlock
<1>5. m[b].parent # 0 => m[b].parent \in 1 .. Len(m) /\ m[b].parent < b
  BY <1>1, <1>4
<1> QED BY <1>2, <1>3, <1>5

LEMMA LineShape ==
  ASSUME NEW m, Trees(m)
  PROVE  \A b \in 1 .. Len(m) : \A x \in Line(m, b) : OnLine(m, x, b)
<1> DEFINE S == {b \in 1 .. Len(m) : \E x \in Line(m, b) : ~ OnLine(m, x, b)}
<1>1. Len(m) \in Nat
  BY LenProperties DEF Trees
<1>2. \A b \in S : \E p \in S : p < b
  <2> SUFFICES ASSUME NEW b \in S PROVE \E p \in S : p < b
    OBVIOUS
  <2>1. b \in 1 .. Len(m)
    OBVIOUS
  <2>2. PICK x \in Line(m, b) : ~ OnLine(m, x, b)
    OBVIOUS
  <2> DEFINE p == m[b].parent
  <2>3. /\ x = b \/ x \in Line(m, p)
        /\ p = 0 => Line(m, b) = {b}
        /\ p # 0 => p \in 1 .. Len(m) /\ p < b
    BY <2>1, LineParent
  <2>4. x # b
    BY <1>1, <2>1, <2>2 DEF OnLine
  <2>5. p # 0 /\ x \in Line(m, p) /\ p \in 1 .. Len(m) /\ p < b
    BY <2>3, <2>4
  <2>6. Continues(m, b)
    BY <2>1, <2>5, TreeBlock
  <2>7. /\ m[b].chain = m[p].chain /\ m[b].depth = m[p].depth + 1
        /\ m[b].next_rank > m[p].next_rank
    BY <2>6 DEF Continues
  <2>8. ~ OnLine(m, x, p)
    <3> SUFFICES ASSUME OnLine(m, x, p) PROVE FALSE
      OBVIOUS
    <3> DEFINE dx == m[x].depth
               dp == m[p].depth
               db == m[b].depth
               rx == m[x].next_rank
               rp == m[p].next_rank
               rb == m[b].next_rank
    <3>1. x \in 1 .. p /\ m[x].chain = m[p].chain
      BY DEF OnLine
    <3>2. x \in 1 .. b /\ x \in 1 .. Len(m)
      BY <1>1, <2>1, <2>5, <3>1
    <3>3. dx \in Nat /\ dp \in Nat /\ rx \in Nat /\ rp \in Nat /\ db \in Nat /\ rb \in Nat
      BY <2>1, <2>5, <3>2, TreeBlock
    <3>4. (x = p \/ (dx < dp /\ rx < rp)) /\ db = dp + 1 /\ rb > rp
      BY <2>7 DEF OnLine
    <3>5. x = p => dx = dp /\ rx = rp
      OBVIOUS
    <3> HIDE DEF dx, dp, db, rx, rp, rb
    <3>6. dx < db /\ rx < rb
      BY <3>3, <3>4, <3>5
    <3>7. OnLine(m, x, b)
      BY <2>7, <3>1, <3>2, <3>6 DEF OnLine, dx, db, rx, rb
    <3> QED BY <2>2, <3>7
  <2> QED BY <2>5, <2>8
<1>3. S \in SUBSET Nat
  BY <1>1
<1> HIDE DEF S
<1>4. S = {}
  BY <1>2, <1>3, NoLeast
<1> QED BY <1>4 DEF S

\* The line of a block of a line is a part of it.
LEMMA LineInLine ==
  ASSUME NEW m, Trees(m)
  PROVE  \A b \in 1 .. Len(m) : \A x \in Line(m, b) : Line(m, x) \subseteq Line(m, b)
<1> DEFINE S == {b \in 1 .. Len(m) :
                   \E x \in Line(m, b) : ~ (Line(m, x) \subseteq Line(m, b))}
<1>1. Len(m) \in Nat
  BY LenProperties DEF Trees
<1>2. \A b \in S : \E p \in S : p < b
  <2> SUFFICES ASSUME NEW b \in S PROVE \E p \in S : p < b
    OBVIOUS
  <2>1. b \in 1 .. Len(m)
    OBVIOUS
  <2>2. PICK x \in Line(m, b) : ~ (Line(m, x) \subseteq Line(m, b))
    OBVIOUS
  <2> DEFINE p == m[b].parent
  <2>3. /\ x = b \/ x \in Line(m, p)
        /\ p = 0 => Line(m, b) = {b}
        /\ p # 0 => p \in 1 .. Len(m) /\ p < b
        /\ Line(m, p) \subseteq Line(m, b)
    BY <2>1, LineParent
  <2>4. x # b
    BY <2>2
  <2>5. p # 0 /\ x \in Line(m, p)
    BY <2>3, <2>4
  <2>6. ~ (Line(m, x) \subseteq Line(m, p))
    BY <2>2, <2>3
  <2> QED BY <2>3, <2>5, <2>6
<1>3. S \in SUBSET Nat
  BY <1>1
<1> HIDE DEF S
<1>4. S = {}
  BY <1>2, <1>3, NoLeast
<1> QED BY <1>4 DEF S

\* A line has no forks: of two of its blocks the one that is not deeper is on the
\* line of the other.
LEMMA LineIsLinear ==
  ASSUME NEW m, Trees(m)
  PROVE  \A b \in 1 .. Len(m) : \A x \in Line(m, b), y \in Line(m, b) :
            m[x].depth <= m[y].depth => x \in Line(m, y)
<1> DEFINE S == {b \in 1 .. Len(m) : \E x \in Line(m, b), y \in Line(m, b) :
                   m[x].depth <= m[y].depth /\ x \notin Line(m, y)}
<1>1. Len(m) \in Nat
  BY LenProperties DEF Trees
<1>2. \A b \in S : \E p \in S : p < b
  <2> SUFFICES ASSUME NEW b \in S PROVE \E p \in S : p < b
    OBVIOUS
  <2>1. b \in 1 .. Len(m)
    OBVIOUS
  <2>2. PICK x \in Line(m, b), y \in Line(m, b) :
               m[x].depth <= m[y].depth /\ x \notin Line(m, y)
    OBVIOUS
  <2> DEFINE p == m[b].parent
  <2>3. /\ x = b \/ x \in Line(m, p)
        /\ y = b \/ y \in Line(m, p)
        /\ p = 0 => Line(m, b) = {b}
        /\ p # 0 => p \in 1 .. Len(m) /\ p < b
        /\ b \in Line(m, b)
    BY <2>1, LineParent
  <2>4. y # b
    BY <2>2
  <2>5. p # 0 /\ y \in Line(m, p)
    BY <2>3, <2>4
  <2>6. x # b
    <3>1. OnLine(m, y, b) /\ y \in 1 .. Len(m)
      <4>1. OnLine(m, y, b)
        BY <2>1, LineShape
      <4> QED BY <1>1, <2>1, <4>1 DEF OnLine
    <3>2. m[y].depth < m[b].depth /\ m[y].depth \in Nat /\ m[b].depth \in Nat
      BY <2>1, <2>4, <3>1, TreeBlock DEF OnLine
    <3>3. ~ (m[b].depth <= m[y].depth)
      BY <3>2
    <3> QED BY <2>2, <3>3
  <2>7. x \in Line(m, p)
    BY <2>3, <2>6
  <2> QED BY <2>2, <2>3, <2>5, <2>7
<1>3. S \in SUBSET Nat
  BY <1>1
<1> HIDE DEF S
<1>4. S = {}
  BY <1>2, <1>3, NoLeast
<1> QED BY <1>4 DEF S

-----------------------------------------------------------------------------
(***************************************************************************)
(* The settled block.                                                      *)
(***************************************************************************)

\* f holds what is up to T steps above block b.
IsAbove(f, m, b, T) ==
    f = [k \in 0 .. T |-> IF k = 0 THEN b
                          ELSE IF f[k - 1] = 0 THEN 0 ELSE m[f[k - 1]].parent]

LEMMA AboveIs == \A m, b, T : Above(m, b, T) = (CHOOSE f : IsAbove(f, m, b, T))[T]
BY DEF Above, IsAbove

LEMMA AboveExists ==
  ASSUME NEW m, NEW b, NEW T \in Nat
  PROVE  \E f : IsAbove(f, m, b, T)
<1> DEFINE S == {n \in Nat : ~ \E f : IsAbove(f, m, b, n)}
<1>1. \A n \in S : \E k \in S : k < n
  <2> SUFFICES ASSUME NEW n \in S PROVE \E k \in S : k < n
    OBVIOUS
  <2>1. n # 0
    <3> DEFINE f == [k \in 0 .. 0 |-> b]
    <3>1. IsAbove(f, m, b, 0)
      BY DEF IsAbove
    <3> QED BY <3>1
  <2>2. n - 1 \in Nat /\ n - 1 < n
    BY <2>1
  <2>3. ASSUME NEW g, IsAbove(g, m, b, n - 1)
        PROVE  FALSE
    <3> DEFINE top == IF g[n - 1] = 0 THEN 0 ELSE m[g[n - 1]].parent
               f == [k \in 0 .. n |-> IF k = n THEN top ELSE g[k]]
    <3>1. \A k \in 0 .. n - 1 : g[k] = IF k = 0 THEN b
                     ELSE IF g[k - 1] = 0 THEN 0 ELSE m[g[k - 1]].parent
      BY <2>3 DEF IsAbove
    <3>2. \A k \in 1 .. n : k - 1 \in 0 .. n - 1 /\ f[k - 1] = g[k - 1]
      BY <2>2
    <3>3. ASSUME NEW k \in 0 .. n
          PROVE  f[k] = IF k = 0 THEN b ELSE IF f[k - 1] = 0 THEN 0 ELSE m[f[k - 1]].parent
      <4>1. CASE k = n
        <5>1. n \in 1 .. n
          BY <2>1
        <5>2. f[n] = top /\ f[n - 1] = g[n - 1]
          BY <3>2, <5>1
        <5> QED BY <2>1, <4>1, <5>2
      <4>2. CASE k # n
        <5>1. k \in 0 .. n - 1 /\ f[k] = g[k]
          BY <2>2, <4>2
        <5>2. k # 0 => k \in 1 .. n
          BY <2>2, <5>1
        <5> QED BY <3>1, <3>2, <5>1, <5>2
      <4> QED BY <4>1, <4>2
    <3>4. f = [k \in 0 .. n |-> f[k]]
      OBVIOUS
    <3> HIDE DEF f
    <3>5. IsAbove(f, m, b, n)
      BY <3>3, <3>4 DEF IsAbove
    <3> QED BY <3>5
  <2> QED BY <2>2, <2>3
<1>2. S \in SUBSET Nat
  OBVIOUS
<1> HIDE DEF S
<1>3. S = {}
  BY <1>1, <1>2, NoLeast
<1> QED BY <1>3 DEF S

LEMMA AboveAgrees ==
  ASSUME NEW m, NEW b, NEW T \in Nat, NEW U \in Nat, T <= U,
         NEW f, IsAbove(f, m, b, T), NEW g, IsAbove(g, m, b, U)
  PROVE  \A k \in 0 .. T : f[k] = g[k]
<1> DEFINE S == {k \in 0 .. T : f[k] # g[k]}
<1>1. /\ \A k \in 0 .. T : f[k] = IF k = 0 THEN b
                     ELSE IF f[k - 1] = 0 THEN 0 ELSE m[f[k - 1]].parent
      /\ \A k \in 0 .. U : g[k] = IF k = 0 THEN b
                     ELSE IF g[k - 1] = 0 THEN 0 ELSE m[g[k - 1]].parent
  BY DEF IsAbove
<1>2. \A k \in S : \E j \in S : j < k
  <2> SUFFICES ASSUME NEW k \in S PROVE \E j \in S : j < k
    OBVIOUS
  <2>1. k \in 0 .. T /\ k \in 0 .. U /\ f[k] # g[k]
    OBVIOUS
  <2>2. k # 0
    BY <1>1, <2>1
  <2>3. k - 1 \in 0 .. T /\ k - 1 < k
    BY <2>1, <2>2
  <2>4. f[k - 1] # g[k - 1]
    BY <1>1, <2>1, <2>2
  <2> QED BY <2>3, <2>4
<1>3. S \in SUBSET Nat
  OBVIOUS
<1> HIDE DEF S
<1>4. S = {}
  BY <1>2, <1>3, NoLeast
<1> QED BY <1>4 DEF S

LEMMA AboveValue ==
  ASSUME NEW m, NEW b, NEW T \in Nat
  PROVE  /\ Above(m, b, 0) = b
         /\ Above(m, b, T + 1) = IF Above(m, b, T) = 0 THEN 0
                                 ELSE m[Above(m, b, T)].parent
<1> DEFINE f == CHOOSE h : IsAbove(h, m, b, T)
           g == CHOOSE h : IsAbove(h, m, b, T + 1)
           h0 == CHOOSE h : IsAbove(h, m, b, 0)
<1>1. IsAbove(f, m, b, T) /\ Above(m, b, T) = f[T]
  BY AboveExists, AboveIs
<1>2. T + 1 \in Nat
  OBVIOUS
<1>3. IsAbove(g, m, b, T + 1) /\ Above(m, b, T + 1) = g[T + 1]
  BY <1>2, AboveExists, AboveIs
<1>4. IsAbove(h0, m, b, 0) /\ Above(m, b, 0) = h0[0]
  BY AboveExists, AboveIs
<1> HIDE DEF f, g, h0
<1>5. T <= T + 1 /\ T \in 0 .. T /\ T + 1 \in 0 .. T + 1 /\ (T + 1) - 1 = T /\ T + 1 # 0
  OBVIOUS
<1>6. f[T] = g[T]
  <2>1. \A k \in 0 .. T : f[k] = g[k]
    BY <1>1, <1>2, <1>3, <1>5, AboveAgrees
  <2> QED BY <1>5, <2>1
<1>7. g[T + 1] = IF g[T] = 0 THEN 0 ELSE m[g[T]].parent
  <2>1. \A k \in 0 .. T + 1 : g[k] = IF k = 0 THEN b
                     ELSE IF g[k - 1] = 0 THEN 0 ELSE m[g[k - 1]].parent
    BY <1>3 DEF IsAbove
  <2> QED BY <1>5, <2>1
<1>8. h0[0] = b
  BY <1>4 DEF IsAbove
<1> QED BY <1>1, <1>3, <1>4, <1>6, <1>7, <1>8

\* T steps above b there is a block of its line that is T less deep, or none.
AboveIn(m, b, T, a) ==
    \/ a = 0 /\ m[b].depth < T
    \/ /\ a \in 1 .. Len(m) /\ a \in Line(m, b)
       /\ m[b].depth = m[a].depth + T

LEMMA AboveShape ==
  ASSUME NEW m, Trees(m), NEW b \in 1 .. Len(m)
  PROVE  \A T \in Nat : AboveIn(m, b, T, Above(m, b, T))
<1> DEFINE S == {T \in Nat : ~ AboveIn(m, b, T, Above(m, b, T))}
<1>1. m[b].depth \in Nat /\ b \in Line(m, b)
  BY TreeBlock, LineParent
<1>2. \A T \in S : \E U \in S : U < T
  <2> SUFFICES ASSUME NEW T \in S PROVE \E U \in S : U < T
    OBVIOUS
  <2>1. T # 0
    <3>1. Above(m, b, 0) = b
      BY AboveValue
    <3>2. AboveIn(m, b, 0, b)
      BY <1>1 DEF AboveIn
    <3> QED BY <3>1, <3>2
  <2> DEFINE U == T - 1
             a == Above(m, b, U)
             d == Above(m, b, T)
  <2>2. U \in Nat /\ U < T /\ U + 1 = T
    BY <2>1
  <2>3. d = IF a = 0 THEN 0 ELSE m[a].parent
    <3>1. Above(m, b, U + 1) = IF Above(m, b, U) = 0 THEN 0 ELSE m[Above(m, b, U)].parent
      BY <2>2, AboveValue
    <3> QED BY <2>2, <3>1
  <2>4. ~ AboveIn(m, b, T, d)
    OBVIOUS
  <2> HIDE DEF a, d, U
  <2>5. ~ AboveIn(m, b, U, a)
    <3> SUFFICES ASSUME AboveIn(m, b, U, a) PROVE FALSE
      OBVIOUS
    <3>1. CASE a = 0 /\ m[b].depth < U
      <4>1. m[b].depth < T
        BY <1>1, <2>2, <3>1
      <4> QED BY <2>3, <2>4, <3>1, <4>1 DEF AboveIn
    <3>2. CASE a \in 1 .. Len(m) /\ a \in Line(m, b) /\ m[b].depth = m[a].depth + U
      <4>1. a # 0 /\ d = m[a].parent /\ m[a].depth \in Nat
        BY <2>3, <3>2, TreeBlock
      <4>2. CASE d = 0
        <5>1. m[a].depth = 0
          BY <3>2, <4>1, <4>2, TreeBlock
        <5>2. m[b].depth < T
          BY <1>1, <2>2, <3>2, <5>1
        <5> QED BY <2>4, <4>2, <5>2 DEF AboveIn
      <4>3. CASE d # 0
        <5>1. d \in 1 .. Len(m) /\ d < a
          BY <3>2, <4>1, <4>3, LineParent
        <5>2. d \in Line(m, a)
          <6>1. d \in Line(m, d) /\ Line(m, d) \subseteq Line(m, a)
            BY <3>2, <4>1, <5>1, LineParent
          <6> QED BY <6>1
        <5>3. d \in Line(m, b)
          BY <3>2, <5>2, LineInLine
        <5>4. m[a].depth = m[d].depth + 1
          BY <3>2, <4>1, <4>3, TreeBlock DEF Continues
        <5>5. m[d].depth \in Nat
          BY <5>1, TreeBlock
        <5> DEFINE da == m[a].depth
                   dd == m[d].depth
                   db == m[b].depth
        <5>6. da \in Nat /\ dd \in Nat /\ db \in Nat /\ da = dd + 1 /\ db = da + U
          BY <1>1, <3>2, <4>1, <5>4, <5>5
        <5> HIDE DEF da, dd, db
        <5>7. db = dd + T
          BY <2>2, <5>6
        <5> QED BY <2>4, <5>1, <5>3, <5>7 DEF AboveIn, db, dd
      <4> QED BY <4>2, <4>3
    <3> QED BY <3>1, <3>2 DEF AboveIn
  <2> QED BY <2>2, <2>5 DEF a
<1>3. S \in SUBSET Nat
  OBVIOUS
<1> HIDE DEF S
<1>4. S = {}
  BY <1>2, <1>3, NoLeast
<1> QED BY <1>4 DEF S

\* Of two blocks of a line, one is on the line of the other or comes after it.
LEMMA LineOrder ==
  ASSUME NEW m, Trees(m), NEW b \in 1 .. Len(m),
         NEW x \in Line(m, b), NEW y \in Line(m, b)
  PROVE  /\ x \in 1 .. Len(m) /\ y \in 1 .. Len(m)
         /\ x \in Line(m, y) \/ m[y].next_rank < m[x].next_rank
<1>1. Len(m) \in Nat
  BY LenProperties DEF Trees
<1>2. x \in 1 .. b /\ y \in 1 .. b
  BY LineShape DEF OnLine
<1>3. x \in 1 .. Len(m) /\ y \in 1 .. Len(m)
  BY <1>1, <1>2
<1>4. CASE m[x].depth <= m[y].depth
  BY <1>3, <1>4, LineIsLinear
<1>5. CASE ~ (m[x].depth <= m[y].depth)
  <2>1. m[x].depth \in Nat /\ m[y].depth \in Nat
    BY <1>3, TreeBlock
  <2>2. m[y].depth <= m[x].depth /\ x # y
    BY <1>5, <2>1
  <2>3. y \in Line(m, x)
    BY <2>2, LineIsLinear
  <2>4. OnLine(m, y, x)
    BY <1>3, <2>3, LineShape
  <2> QED BY <1>3, <2>2, <2>4 DEF OnLine
<1> QED BY <1>3, <1>4, <1>5

\* k are the blocks m and some more.
More(m, k) ==
    /\ Trees(m) /\ Trees(k) /\ Len(m) <= Len(k)
    /\ \A x \in 1 .. Len(m) : k[x] = m[x]

LEMMA AboveKept ==
  ASSUME NEW m, NEW k, More(m, k), NEW b \in 1 .. Len(m)
  PROVE  \A T \in Nat : Above(k, b, T) = Above(m, b, T)
<1> DEFINE S == {T \in Nat : Above(k, b, T) # Above(m, b, T)}
<1>1. \A T \in S : \E U \in S : U < T
  <2> SUFFICES ASSUME NEW T \in S PROVE \E U \in S : U < T
    OBVIOUS
  <2>1. T # 0
    BY AboveValue
  <2> DEFINE U == T - 1
  <2>2. U \in Nat /\ U < T /\ U + 1 = T
    BY <2>1
  <2> HIDE DEF U
  <2>3. /\ Above(m, b, U + 1) = IF Above(m, b, U) = 0 THEN 0 ELSE m[Above(m, b, U)].parent
        /\ Above(k, b, U + 1) = IF Above(k, b, U) = 0 THEN 0 ELSE k[Above(k, b, U)].parent
    BY <2>2, AboveValue
  <2>4. Above(k, b, U) # Above(m, b, U)
    <3> SUFFICES ASSUME Above(k, b, U) = Above(m, b, U) PROVE FALSE
      OBVIOUS
    <3>1. AboveIn(m, b, U, Above(m, b, U))
      BY <2>2, AboveShape DEF More
    <3>2. Above(m, b, U) = 0 \/ Above(m, b, U) \in 1 .. Len(m)
      BY <3>1 DEF AboveIn
    <3>3. Above(m, b, U) # 0 => k[Above(m, b, U)] = m[Above(m, b, U)]
      BY <3>2 DEF More
    <3>4. Above(k, b, T) = Above(m, b, T)
      BY <2>2, <2>3, <3>3
    <3> QED BY <3>4
  <2> QED BY <2>2, <2>4
<1>2. S \in SUBSET Nat
  OBVIOUS
<1> HIDE DEF S
<1>3. S = {}
  BY <1>1, <1>2, NoLeast
<1> QED BY <1>3 DEF S

LEMMA MoreLine ==
  ASSUME NEW m, NEW k, More(m, k), NEW b \in 0 .. Len(m)
  PROVE  Line(k, b) = Line(m, b)
BY LineKept DEF More

\* s1 is where s0 was or comes after it, unless there was nothing.
Follows(m, s0, s1) ==
    s0 # 0 => /\ s0 \in 1 .. Len(m) /\ s1 \in 1 .. Len(m)
              /\ s0 \in Line(m, s1) /\ m[s0].next_rank <= m[s1].next_rank

\* The settled block goes on when the path has become deeper and still holds it.
LEMMA SettledFollows ==
  ASSUME NEW m, Trees(m), NEW T \in Nat, NEW old \in 1 .. Len(m), NEW b \in 1 .. Len(m),
         m[old].depth <= m[b].depth, Above(m, old, T) \in Line(m, b) \cup {0}
  PROVE  Follows(m, Above(m, old, T), Above(m, b, T))
<1> DEFINE s0 == Above(m, old, T)
           s1 == Above(m, b, T)
<1>1. AboveIn(m, old, T, s0) /\ AboveIn(m, b, T, s1)
  BY AboveShape
<1>2. s0 \in Line(m, b) \cup {0}
  OBVIOUS
<1> HIDE DEF s0, s1
<1> SUFFICES ASSUME s0 # 0 PROVE Follows(m, s0, s1)
  BY DEF Follows, s0, s1
<1>3. s0 \in 1 .. Len(m) /\ m[old].depth = m[s0].depth + T /\ s0 \in Line(m, b)
  BY <1>1, <1>2 DEF AboveIn
<1>4. m[old].depth \in Nat /\ m[b].depth \in Nat /\ m[s0].depth \in Nat
  BY <1>3, TreeBlock
<1>5. ~ (m[b].depth < T)
  BY <1>3, <1>4
<1>6. s1 \in 1 .. Len(m) /\ s1 \in Line(m, b) /\ m[b].depth = m[s1].depth + T
  BY <1>1, <1>5 DEF AboveIn
<1>7. m[s1].depth \in Nat
  BY <1>6, TreeBlock
<1>8. m[s0].depth <= m[s1].depth
  <2>1. m[s0].depth + T <= m[s1].depth + T
    BY <1>3, <1>6
  <2> QED BY <1>4, <1>7, <2>1
<1>9. s0 \in Line(m, s1)
  BY <1>3, <1>6, <1>8, LineIsLinear
<1>10. OnLine(m, s0, s1)
  BY <1>6, <1>9, LineShape
<1>11. m[s0].next_rank \in Nat /\ m[s1].next_rank \in Nat
  BY <1>3, <1>6, TreeBlock
<1>12. s0 # s1 => m[s0].next_rank < m[s1].next_rank
  BY <1>10 DEF OnLine
<1>13. m[s0].next_rank <= m[s1].next_rank
  BY <1>11, <1>12
<1> QED BY <1>3, <1>6, <1>9, <1>13 DEF Follows

-----------------------------------------------------------------------------
(***************************************************************************)
(* What holds of every node.                                               *)
(***************************************************************************)

\* The blocks of a node: closed upwards, and the deepest of a chain is in it.
Rooted(m, ks, deep) ==
    /\ ks \subseteq 1 .. Len(m)
    /\ deep \in [Chain -> 1 .. Len(m)]
    /\ \A c \in Chain : deep[c] \in ks /\ m[deep[c]].chain = c
    /\ \A b \in ks : /\ m[b].parent \in ks \cup {0}
                     /\ m[b].depth <= m[deep[m[b].chain]].depth

Typed ==
    /\ Trees(made)
    /\ left \in [Node -> [Chain -> Nat]]
    /\ seen \in [1 .. Len(made) -> SUBSET (1 .. Len(made))]
    /\ known \in [Node -> SUBSET (1 .. Len(made))]
    /\ deepest \in [Node -> [Chain -> 1 .. Len(made)]]
    /\ full \in [Node -> SUBSET (1 .. Len(made))]
    /\ numbers \in [Node -> SUBSET Nat] /\ next \in [Node -> Nat \ {0}]
    /\ committed \in [Node -> SUBSET (1 .. Len(made))]
    /\ \A n \in Node : /\ Rooted(made, known[n], deepest[n])
                       /\ IsFiniteSet(numbers[n])
                       /\ committed[n] \subseteq full[n] /\ full[n] \subseteq known[n]
    /\ reorged \subseteq Node

\* Numbers of the pool that block b may have when n holds it in full.
Numbered ==
    \A n \in Node : \A b \in full[n] :
       b > CHAINS => made[b].number \in numbers[n] \/ made[b].number < next[n]

LEMMA BlocksAre == Typed => Block = 1 .. Len(made) /\ Len(made) \in Nat
BY LenProperties DEF Block, Typed, Trees

-----------------------------------------------------------------------------
(***************************************************************************)
(* What a node mines.                                                      *)
(***************************************************************************)

\* Some number is free.
LEMMA FreeNumber ==
  ASSUME NEW S \in SUBSET Nat, IsFiniteSet(S), NEW x \in Nat
  PROVE  LET free == {k \in x .. x + Cardinality(S) : k \notin S}
         IN  free \in SUBSET Nat /\ free # {}
<1> DEFINE all == x .. x + Cardinality(S)
<1>1. Cardinality(S) \in Nat
  BY FS_CardinalityType
<1>2. x + Cardinality(S) \in Int /\ x \in Int
  BY <1>1
<1>3. Cardinality(all) = Cardinality(S) + 1
  <2> DEFINE y == x + Cardinality(S)
  <2>1. y \in Int /\ x \in Int /\ ~ (x > y) /\ y - x + 1 = Cardinality(S) + 1
    BY <1>1, <1>2
  <2>2. Cardinality(x .. y) = y - x + 1
    <3> HIDE DEF y
    <3> QED BY <2>1, FS_Interval
  <2> QED BY <2>1, <2>2
<1>4. ~ (all \subseteq S)
  <2> SUFFICES ASSUME all \subseteq S PROVE FALSE
    OBVIOUS
  <2>1. Cardinality(all) <= Cardinality(S)
    BY FS_Subset
  <2> QED BY <1>1, <1>3, <2>1
<1> QED BY <1>1, <1>4

LEMMA NumberIsFree ==
  ASSUME Typed, NEW n \in Node
  PROVE  PoolNumber(n) \in Nat /\ PoolNumber(n) >= next[n] /\ PoolNumber(n) \notin numbers[n]
<1> DEFINE free == {k \in next[n] .. next[n] + Cardinality(numbers[n]) : k \notin numbers[n]}
<1>1. next[n] \in Nat /\ numbers[n] \in SUBSET Nat /\ IsFiniteSet(numbers[n])
  BY DEF Typed
<1>2. free \in SUBSET Nat /\ free # {}
  BY <1>1, FreeNumber
<1>3. Min(free) \in free
  BY <1>2, MinIsLeast
<1> QED BY <1>1, <1>3 DEF PoolNumber

LEMMA TrailingIsBlock ==
  ASSUME Typed, NEW n \in Node
  PROVE  Trailing(n) \in 1 .. Len(made)
<1> DEFINE rank == [c \in 1 .. CHAINS |-> made[deepest[n][c]].next_rank]
           ranks == {made[deepest[n][c]].next_rank : c \in Chain}
<1>1. CHAINS \in Nat \ {0} /\ Chain = 1 .. CHAINS /\ 1 \in Chain
  BY OhieAssumption DEF Chain
<1>2. \A c \in Chain : deepest[n][c] \in 1 .. Len(made)
  BY DEF Typed
<1>3. \A c \in Chain : made[deepest[n][c]].next_rank \in Nat
  BY <1>2, TreeBlock DEF Typed
<1>4. rank \in [1 .. CHAINS -> Nat] /\ CHAINS \in Nat
  BY <1>1, <1>3
<1>5. \A c \in Chain : rank[c] = made[deepest[n][c]].next_rank
  BY <1>1
<1> HIDE DEF rank
<1>6. PICK top \in Nat : \A c \in 1 .. CHAINS : rank[c] <= top
  BY <1>4, BoundOfMany
<1>7. ranks \in SUBSET Nat /\ ranks # {} /\ \A x \in ranks : x <= top
  BY <1>1, <1>3, <1>5, <1>6
<1> DEFINE best == {c \in Chain : made[deepest[n][c]].next_rank = Max(ranks)}
<1>8. Max(ranks) \in ranks
  <2> HIDE DEF ranks
  <2> QED BY <1>7, MaxIsGreatest
<1>9. best \in SUBSET Nat /\ best # {}
  <2>1. PICK c \in Chain : Max(ranks) = made[deepest[n][c]].next_rank
    BY <1>8
  <2>2. c \in best
    BY <2>1
  <2>3. \A x \in best : x \in Nat
    BY <1>1
  <2> QED BY <2>2, <2>3
<1>10. Min(best) \in best
  <2> HIDE DEF best
  <2> QED BY <1>9, MinIsLeast
<1>11. Trailing(n) = deepest[n][Min(best)]
  BY DEF Trailing
<1> QED BY <1>2, <1>10, <1>11

LEMMA GreaterOfTwo ==
  ASSUME NEW x \in Nat, NEW y \in Nat
  PROVE  Max({x, y}) \in Nat /\ Max({x, y}) >= x /\ Max({x, y}) >= y
<1> DEFINE S == {x, y}
<1>1. S \in SUBSET Nat /\ S # {} /\ x + y \in Nat /\ \A z \in S : z <= x + y
  OBVIOUS
<1>2. x \in S /\ y \in S
  OBVIOUS
<1> HIDE DEF S
<1>3. Max(S) \in S /\ \A z \in S : z <= Max(S)
  BY <1>1, MaxIsGreatest
<1>4. Max(S) \in Nat /\ x <= Max(S) /\ y <= Max(S)
  BY <1>1, <1>2, <1>3
<1> QED BY <1>4 DEF S

\* The trees with the block that n mines.
LEMMA MinedGrows ==
  ASSUME Typed, NEW n \in Node, NEW c \in Chain
  PROVE  LET k == Append(made, Mined(n, c))
         IN  /\ More(made, k) /\ Len(k) = Len(made) + 1
             /\ k[Len(made) + 1] = Mined(n, c)
             /\ Mined(n, c).parent = deepest[n][c] /\ Mined(n, c).chain = c
             /\ Mined(n, c).number = PoolNumber(n)
             /\ Mined(n, c).depth = made[deepest[n][c]].depth + 1
<1> DEFINE r == Mined(n, c)
           p == deepest[n][c]
           k == Append(made, r)
           N == Len(made)
<1>1. Trees(made) /\ p \in 1 .. N /\ made[p].chain = c
  BY DEF Typed, Rooted
<1>2. Trailing(n) \in 1 .. N /\ PoolNumber(n) \in Nat
  BY TrailingIsBlock, NumberIsFree
<1>3. N \in Nat /\ made \in Seq(Records) /\ CHAINS \in Nat \ {0} /\ N >= CHAINS
  BY <1>1, LenProperties, OhieAssumption DEF Trees
<1>4. /\ made[p].next_rank \in Nat /\ made[p].depth \in Nat
      /\ made[Trailing(n)].next_rank \in Nat
  BY <1>1, <1>2, TreeBlock
<1> DEFINE top == Max({made[Trailing(n)].next_rank, made[p].next_rank + 1})
<1>5. top \in Nat /\ top > made[p].next_rank
  <2>1. made[p].next_rank + 1 \in Nat
    BY <1>4
  <2>2. top \in Nat /\ top >= made[p].next_rank + 1
    BY <1>4, <2>1, GreaterOfTwo
  <2> HIDE DEF top
  <2> QED BY <1>4, <2>2
<1>6. r = [chain |-> c, parent |-> p, trailing |-> Trailing(n),
           rank |-> made[p].next_rank, next_rank |-> top,
           depth |-> made[p].depth + 1, number |-> PoolNumber(n)]
  BY DEF Mined
<1> HIDE DEF top, r
<1>7. /\ r.chain = c /\ r.parent = p /\ r.trailing = Trailing(n) /\ r.next_rank = top
      /\ r.depth = made[p].depth + 1 /\ r.number = PoolNumber(n)
  BY <1>6
<1> HIDE DEF p
<1>8. r \in Records
  <2>1. /\ p \in Nat /\ Trailing(n) \in Nat /\ made[p].next_rank \in Nat /\ top \in Nat
        /\ made[p].depth + 1 \in Nat /\ PoolNumber(n) \in Nat
    BY <1>1, <1>2, <1>3, <1>4, <1>5
  <2> QED BY <1>6, <2>1 DEF Records
<1>9. /\ k \in Seq(Records) /\ Len(k) = N + 1 /\ k[N + 1] = r
      /\ \A x \in 1 .. N : k[x] = made[x]
  BY <1>3, <1>8, AppendProperties
<1> HIDE DEF k
<1>10. Continues(k, N + 1)
  <2>1. p \in 1 .. (N + 1) - 1 /\ Trailing(n) \in 1 .. (N + 1) - 1
    BY <1>1, <1>2, <1>3
  <2>2. k[p] = made[p]
    BY <1>1, <1>9
  <2> QED BY <1>1, <1>5, <1>7, <1>9, <2>1, <2>2 DEF Continues
<1>11. ASSUME NEW b \in CHAINS + 1 .. N + 1
       PROVE  Continues(k, b)
  <2>1. CASE b = N + 1
    BY <1>10, <2>1
  <2>2. CASE b # N + 1
    <3>1. b \in CHAINS + 1 .. N /\ b \in 1 .. N
      BY <1>3, <2>2
    <3>2. Continues(made, b)
      BY <1>1, <3>1 DEF Trees
    <3>3. made[b].parent \in 1 .. N
      BY <1>3, <3>1, <3>2 DEF Continues
    <3>4. k[b] = made[b] /\ k[made[b].parent] = made[made[b].parent]
      BY <1>9, <3>1, <3>3
    <3> QED BY <3>2, <3>4 DEF Continues
  <2> QED BY <2>1, <2>2
<1>12. \A x \in Chain : x \in 1 .. N /\ k[x] = Genesis(x)
  BY <1>1, <1>3, <1>9 DEF Chain, Trees
<1>13. Trees(k)
  <2>1. N + 1 >= CHAINS
    BY <1>3
  <2> QED BY <1>9, <1>11, <1>12, <2>1 DEF Trees
<1>14. Len(made) <= Len(k)
  BY <1>3, <1>9
<1>15. More(made, k)
  BY <1>1, <1>9, <1>13, <1>14 DEF More
<1> QED BY <1>7, <1>9, <1>15 DEF r, k, p

-----------------------------------------------------------------------------
(***************************************************************************)
(* The blocks that every node starts from.                                 *)
(***************************************************************************)

StartBlocks == [c \in Chain |-> Genesis(c)] \o Start

\* The parent of each of the first N blocks is the last of its chain before it.
NoForks(m, N) ==
    \A b \in CHAINS + 1 .. N :
       \A a \in m[b].parent + 1 .. b - 1 : m[a].chain # m[b].chain

LEMMA StartIs ==
  /\ Trees(StartBlocks) /\ NoForks(StartBlocks, Len(StartBlocks))
  /\ Len(StartBlocks) = CHAINS + Len(Start) /\ Len(Start) \in Nat
  /\ \A b \in CHAINS + 1 .. CHAINS + Len(Start) :
        b - CHAINS \in 1 .. Len(Start) /\ StartBlocks[b] = Start[b - CHAINS]
<1> DEFINE roots == [c \in Chain |-> Genesis(c)]
           N == CHAINS + Len(Start)
<1>1. CHAINS \in Nat \ {0} /\ Start \in Seq(Records) /\ Len(Start) \in Nat
  BY OhieAssumption, StartAssumption, LenProperties
<1>2. \A c \in 1 .. CHAINS : Genesis(c) \in Records
  BY DEF Genesis, Records, Chain
<1>3. roots \in Seq(Records) /\ Len(roots) = CHAINS
  <2>1. roots \in [1 .. CHAINS -> Records]
    BY <1>2 DEF Chain
  <2>2. roots \in Seq(Records)
    BY <1>1, <2>1, SeqDef
  <2>3. DOMAIN roots = 1 .. CHAINS /\ DOMAIN roots = 1 .. Len(roots) /\ Len(roots) \in Nat
    BY <2>1, <2>2, LenProperties
  <2> HIDE DEF roots
  <2> QED BY <1>1, <2>2, <2>3
<1>4. \A c \in Chain : roots[c] = Genesis(c)
  OBVIOUS
<1> HIDE DEF roots
<1>5. /\ roots \o Start \in Seq(Records) /\ Len(roots \o Start) = N
      /\ \A i \in 1 .. N : (roots \o Start)[i] =
              IF i <= CHAINS THEN roots[i] ELSE Start[i - CHAINS]
  <2>1. /\ roots \o Start \in Seq(Records)
        /\ Len(roots \o Start) = Len(roots) + Len(Start)
        /\ \A i \in 1 .. Len(roots) + Len(Start) : (roots \o Start)[i] =
              IF i <= Len(roots) THEN roots[i] ELSE Start[i - Len(roots)]
    BY <1>1, <1>3, ConcatProperties
  <2> QED BY <1>3, <2>1
<1>6. StartBlocks = roots \o Start
  BY DEF StartBlocks, roots
<1> DEFINE m == StartBlocks
<1>7. /\ m \in Seq(Records) /\ Len(m) = N
      /\ \A i \in 1 .. N : m[i] = IF i <= CHAINS THEN roots[i] ELSE Start[i - CHAINS]
  BY <1>5, <1>6
<1>8. \A b \in CHAINS + 1 .. N :
         /\ Continues(m, b)
         /\ \A a \in m[b].parent + 1 .. b - 1 : m[a].chain # m[b].chain
  BY StartAssumption DEF StartBlocks
<1> HIDE DEF m
<1>9. \A c \in Chain : c \in 1 .. N /\ c <= CHAINS
  BY <1>1 DEF Chain
<1>10. \A c \in Chain : m[c] = Genesis(c)
  BY <1>4, <1>7, <1>9
<1>11. Len(m) >= CHAINS
  BY <1>1, <1>7
<1>12. Trees(m)
  BY <1>7, <1>8, <1>10, <1>11 DEF Trees
<1>13. NoForks(m, Len(m))
  BY <1>7, <1>8 DEF NoForks
<1>14. \A b \in CHAINS + 1 .. N : /\ b - CHAINS \in 1 .. Len(Start) /\ b \in 1 .. N
                                  /\ ~ (b <= CHAINS)
  BY <1>1
<1>15. \A b \in CHAINS + 1 .. N : m[b] = Start[b - CHAINS]
  BY <1>7, <1>14
<1> QED BY <1>1, <1>7, <1>12, <1>13, <1>14, <1>15 DEF m

LEMMA RootBlock ==
  ASSUME NEW m, Trees(m), NEW c \in Chain
  PROVE  c \in 1 .. Len(m) /\ m[c].chain = c
<1>1. Len(m) \in Nat /\ CHAINS \in Nat \ {0} /\ Len(m) >= CHAINS
  BY LenProperties, OhieAssumption DEF Trees
<1>2. c \in 1 .. Len(m)
  BY <1>1 DEF Chain
<1>3. m[c] = Genesis(c)
  BY DEF Trees
<1>4. m[c].chain = c
  BY <1>3 DEF Genesis
<1> QED BY <1>2, <1>4

\* Without forks a later block of a chain is deeper.
LEMMA LaterIsDeeper ==
  ASSUME NEW m, Trees(m), NoForks(m, Len(m))
  PROVE  \A b \in 1 .. Len(m) : \A a \in 1 .. b :
            m[a].chain = m[b].chain => m[a].depth <= m[b].depth
<1> DEFINE S == {b \in 1 .. Len(m) : \E a \in 1 .. b :
                   m[a].chain = m[b].chain /\ ~ (m[a].depth <= m[b].depth)}
<1>1. Len(m) \in Nat /\ CHAINS \in Nat \ {0} /\ Len(m) >= CHAINS
  BY LenProperties, OhieAssumption DEF Trees
<1>2. \A b \in S : \E p \in S : p < b
  <2> SUFFICES ASSUME NEW b \in S PROVE \E p \in S : p < b
    OBVIOUS
  <2>1. b \in 1 .. Len(m)
    OBVIOUS
  <2>2. PICK a \in 1 .. b : m[a].chain = m[b].chain /\ ~ (m[a].depth <= m[b].depth)
    OBVIOUS
  <2>3. a \in 1 .. Len(m) /\ b \in Nat
    BY <1>1, <2>1
  <2>4. m[a].depth \in Nat /\ m[b].depth \in Nat
    BY <2>1, <2>3, TreeBlock
  <2>5. a # b /\ a \in 1 .. b - 1
    <3>1. a # b
      BY <2>2, <2>4
    <3> QED BY <2>3, <3>1
  <2>6. b \in CHAINS + 1 .. Len(m)
    <3> SUFFICES ASSUME b <= CHAINS PROVE FALSE
      BY <1>1, <2>1
    <3>1. a \in Chain /\ b \in Chain
      BY <1>1, <2>1, <2>5 DEF Chain
    <3>2. m[a].chain = a /\ m[b].chain = b
      BY <3>1, RootBlock
    <3> QED BY <2>2, <2>5, <3>2
  <2> DEFINE p == m[b].parent
  <2>7. /\ p \in 1 .. b - 1 /\ m[b].chain = m[p].chain /\ m[b].depth = m[p].depth + 1
    BY <2>6 DEF Trees, Continues
  <2>8. a \notin p + 1 .. b - 1
    BY <2>2, <2>6 DEF NoForks
  <2> HIDE DEF p
  <2>9. a \in 1 .. p /\ p \in 1 .. Len(m) /\ p < b
    BY <1>1, <2>1, <2>5, <2>7, <2>8
  <2>10. m[p].depth \in Nat
    BY <2>9, TreeBlock
  <2>11. ~ (m[a].depth <= m[p].depth)
    BY <2>2, <2>4, <2>7, <2>10
  <2>12. p \in S
    BY <2>2, <2>7, <2>9, <2>11
  <2> QED BY <2>9, <2>12
<1>3. S \in SUBSET Nat
  BY <1>1
<1> HIDE DEF S
<1>4. S = {}
  BY <1>2, <1>3, NoLeast
<1> QED BY <1>4 DEF S

\* The last block of each chain is its deepest.
LEMMA StartRooted ==
  ASSUME NEW m, Trees(m), NoForks(m, Len(m))
  PROVE  Rooted(m, 1 .. Len(m),
                [c \in Chain |-> Max({b \in 1 .. Len(m) : m[b].chain = c})])
<1> DEFINE N == Len(m)
           on(c) == {b \in 1 .. N : m[b].chain = c}
           deep == [c \in Chain |-> Max(on(c))]
<1>1. N \in Nat /\ CHAINS \in Nat \ {0} /\ N >= CHAINS
  BY LenProperties, OhieAssumption DEF Trees
<1>2. ASSUME NEW c \in Chain
      PROVE  /\ deep[c] \in 1 .. N /\ m[deep[c]].chain = c
             /\ \A b \in 1 .. N : m[b].chain = c => b <= deep[c]
  <2>1. c \in 1 .. N /\ m[c].chain = c
    BY RootBlock
  <2>2. c \in on(c)
    BY <2>1
  <2>3. on(c) \in SUBSET Nat /\ \A b \in on(c) : b <= N
    BY <1>1
  <2> DEFINE S == on(c)
  <2>4. S \in SUBSET Nat /\ S # {} /\ \A b \in S : b <= N
    BY <2>2, <2>3
  <2>5. Max(S) \in S /\ \A b \in S : b <= Max(S)
    <3> HIDE DEF S, N
    <3> QED BY <1>1, <2>4, MaxIsGreatest
  <2>6. deep[c] = Max(S)
    OBVIOUS
  <2> QED BY <2>5, <2>6
<1>3. deep \in [Chain -> 1 .. N]
  BY <1>2
<1> HIDE DEF deep, N
<1>4. ASSUME NEW b \in 1 .. N
      PROVE  /\ m[b].parent \in (1 .. N) \cup {0}
             /\ m[b].depth <= m[deep[m[b].chain]].depth
  <2>1. m[b].chain \in Chain /\ m[b].parent \in 0 .. b - 1
    BY TreeBlock DEF N
  <2> DEFINE d == deep[m[b].chain]
  <2>2. d \in 1 .. N /\ m[d].chain = m[b].chain /\ b <= d
    BY <1>2, <2>1
  <2>3. b \in 1 .. d
    BY <1>1, <2>2
  <2>4. m[b].depth <= m[d].depth
    BY <2>2, <2>3, LaterIsDeeper DEF N
  <2>5. m[b].parent \in (1 .. N) \cup {0}
    BY <1>1, <2>1
  <2> QED BY <2>4, <2>5
<1>5. Rooted(m, 1 .. N, deep)
  BY <1>2, <1>3, <1>4 DEF Rooted, N
<1> QED BY <1>5 DEF deep, N

-----------------------------------------------------------------------------
(***************************************************************************)
(* The blocks of a node stay rooted.                                       *)
(***************************************************************************)

LEMMA RootedKept ==
  ASSUME NEW m, NEW k, More(m, k), NEW ks, NEW deep, Rooted(m, ks, deep)
  PROVE  Rooted(k, ks, deep)
<1>1. Len(m) \in Nat /\ Len(k) \in Nat /\ Len(m) <= Len(k)
  BY LenProperties DEF More, Trees
<1>2. 1 .. Len(m) \subseteq 1 .. Len(k)
  BY <1>1
<1>3. \A x \in 1 .. Len(m) : k[x] = m[x] /\ m[x].chain \in Chain
  BY TreeBlock DEF More
<1>4. \A c \in Chain : deep[c] \in 1 .. Len(m)
  BY DEF Rooted
<1>5. ks \subseteq 1 .. Len(k) /\ deep \in [Chain -> 1 .. Len(k)]
  BY <1>2 DEF Rooted
<1>6. \A c \in Chain : deep[c] \in ks /\ k[deep[c]].chain = c
  BY <1>3, <1>4 DEF Rooted
<1>7. ASSUME NEW b \in ks
      PROVE  k[b].parent \in ks \cup {0} /\ k[b].depth <= k[deep[k[b].chain]].depth
  <2>1. b \in 1 .. Len(m)
    BY DEF Rooted
  <2>2. k[b] = m[b] /\ m[b].chain \in Chain
    BY <1>3, <2>1
  <2>3. k[deep[m[b].chain]] = m[deep[m[b].chain]]
    BY <1>3, <1>4, <2>2
  <2>4. m[b].parent \in ks \cup {0} /\ m[b].depth <= m[deep[m[b].chain]].depth
    BY DEF Rooted
  <2> QED BY <2>2, <2>3, <2>4
<1> QED BY <1>5, <1>6, <1>7 DEF Rooted

\* A block of chain c below a known block, made the deepest one.
LEMMA RootedDeeper ==
  ASSUME NEW m, Trees(m), NEW ks, NEW deep, Rooted(m, ks, deep),
         NEW b \in 1 .. Len(m), m[b].parent \in ks \cup {0},
         NEW c \in Chain, m[b].chain = c, m[deep[c]].depth < m[b].depth
  PROVE  Rooted(m, ks \cup {b}, [deep EXCEPT ![c] = b])
<1> DEFINE new == [deep EXCEPT ![c] = b]
<1>1. deep \in [Chain -> 1 .. Len(m)] /\ ks \subseteq 1 .. Len(m)
  BY DEF Rooted
<1>2. new \in [Chain -> 1 .. Len(m)] /\ \A d \in Chain : new[d] = IF d = c THEN b ELSE deep[d]
  BY <1>1
<1> HIDE DEF new
<1>3. \A d \in Chain : new[d] \in ks \cup {b} /\ m[new[d]].chain = d
  BY <1>2 DEF Rooted
<1>4. ASSUME NEW x \in ks \cup {b}
      PROVE  m[x].parent \in ks \cup {b} \cup {0} /\ m[x].depth <= m[new[m[x].chain]].depth
  <2>1. x \in 1 .. Len(m)
    BY <1>1
  <2>2. m[x].depth \in Nat /\ m[b].depth \in Nat /\ m[x].chain \in Chain
    BY <2>1, TreeBlock
  <2>3. m[x].parent \in ks \cup {b} \cup {0}
    BY DEF Rooted
  <2>4. CASE x = b
    BY <1>2, <2>2, <2>3, <2>4
  <2>5. CASE x # b /\ m[x].chain = c
    <3>1. m[x].depth <= m[deep[c]].depth
      BY <2>5 DEF Rooted
    <3>2. m[deep[c]].depth \in Nat
      BY <1>1, TreeBlock
    <3>3. m[x].depth <= m[b].depth
      BY <2>2, <3>1, <3>2
    <3> QED BY <1>2, <2>3, <2>5, <3>3
  <2>6. CASE x # b /\ m[x].chain # c
    <3>1. m[x].depth <= m[deep[m[x].chain]].depth
      BY <2>6 DEF Rooted
    <3> QED BY <1>2, <2>2, <2>3, <2>6, <3>1
  <2> QED BY <2>4, <2>5, <2>6
<1>5. ks \cup {b} \subseteq 1 .. Len(m)
  BY <1>1
<1>6. Rooted(m, ks \cup {b}, new)
  BY <1>2, <1>3, <1>4, <1>5 DEF Rooted
<1> QED BY <1>6 DEF new

\* One that is not deeper.
LEMMA RootedBeside ==
  ASSUME NEW m, Trees(m), NEW ks, NEW deep, Rooted(m, ks, deep),
         NEW b \in 1 .. Len(m), m[b].parent \in ks \cup {0},
         ~ (m[b].depth > m[deep[m[b].chain]].depth)
  PROVE  Rooted(m, ks \cup {b}, deep)
<1>1. m[b].chain \in Chain /\ m[b].depth \in Nat
  BY TreeBlock
<1>2. deep[m[b].chain] \in 1 .. Len(m)
  BY <1>1 DEF Rooted
<1>3. m[deep[m[b].chain]].depth \in Nat
  BY <1>2, TreeBlock
<1>4. m[b].depth <= m[deep[m[b].chain]].depth
  BY <1>1, <1>3
<1> QED BY <1>4 DEF Rooted

-----------------------------------------------------------------------------
(***************************************************************************)
(* The types hold initially and after each action.                         *)
(***************************************************************************)

LEMMA FiniteNumbers == IsFiniteSet({b.number : b \in Range(Start)})
<1> DEFINE f == [i \in 1 .. Len(Start) |-> Start[i].number]
           T == {b.number : b \in Range(Start)}
<1>1. Start \in Seq(Records) /\ Len(Start) \in Nat /\ DOMAIN Start = 1 .. Len(Start)
  BY StartAssumption, LenProperties
<1>2. T = {Start[i].number : i \in 1 .. Len(Start)}
  BY <1>1 DEF Range
<1>3. f \in Surjection(1 .. Len(Start), T)
  BY <1>2 DEF Surjection
<1>4. IsFiniteSet(1 .. Len(Start))
  <2>1. 1 \in Int /\ Len(Start) \in Int
    BY <1>1
  <2> QED BY <2>1, FS_Interval
<1> QED BY <1>3, <1>4, FS_Surjection

LEMMA TypedInit == Init => Typed /\ Numbered /\ NoRepeat
<1> SUFFICES ASSUME Init PROVE Typed /\ Numbered /\ NoRepeat
  OBVIOUS
<1> DEFINE N == CHAINS + Len(Start)
           T == {b.number : b \in Range(Start)}
           deep == [c \in Chain |-> Max({b \in 1 .. Len(made) : made[b].chain = c})]
<1>1. made = StartBlocks
  BY DEF Init, StartBlocks
<1>2. Trees(made) /\ NoForks(made, Len(made)) /\ Len(made) = N /\ Len(Start) \in Nat
  BY <1>1, StartIs
<1>3. Initially = 1 .. Len(made) /\ Len(made) \in Nat
  BY <1>2, LenProperties DEF Initially, Trees
<1>4. Rooted(made, 1 .. Len(made), deep)
  BY <1>2, StartRooted
<1>5. /\ left \in Quotas /\ seen = [b \in 1 .. Len(made) |-> {}]
      /\ known = [n \in Node |-> 1 .. Len(made)]
      /\ deepest = [n \in Node |-> deep]
      /\ full = [n \in Node |-> 1 .. Len(made)]
      /\ numbers = [n \in Node |-> T] /\ next = [n \in Node |-> 1]
      /\ committed = [n \in Node |-> {}] /\ reorged = {}
  BY <1>3 DEF Init
<1>6. left \in [Node -> [Chain -> Nat]]
  BY <1>5, OhieAssumption
<1>7. \A r \in Range(Start) : r.number \in Nat
  <2>1. Start \in Seq(Records) /\ DOMAIN Start = 1 .. Len(Start)
    BY StartAssumption, LenProperties
  <2>2. \A i \in 1 .. Len(Start) : Start[i] \in Records
    BY <2>1, ElementOfSeq
  <2>3. \A r \in Range(Start) : r \in Records
    BY <2>1, <2>2 DEF Range
  <2> QED BY <2>3 DEF Records
<1>8. T \in SUBSET Nat /\ IsFiniteSet(T)
  BY <1>7, FiniteNumbers
<1> HIDE DEF T
<1>9. deep \in [Chain -> 1 .. Len(made)]
  BY <1>4 DEF Rooted
<1> HIDE DEF deep
<1>10. Typed
  <2>1. /\ seen \in [1 .. Len(made) -> SUBSET (1 .. Len(made))]
        /\ known \in [Node -> SUBSET (1 .. Len(made))]
        /\ full \in [Node -> SUBSET (1 .. Len(made))]
        /\ committed \in [Node -> SUBSET (1 .. Len(made))]
        /\ reorged \subseteq Node
    BY <1>5
  <2>2. deepest \in [Node -> [Chain -> 1 .. Len(made)]]
    BY <1>5, <1>9
  <2>3. numbers \in [Node -> SUBSET Nat] /\ next \in [Node -> Nat \ {0}]
    BY <1>5, <1>8
  <2>4. \A n \in Node : /\ Rooted(made, known[n], deepest[n])
                        /\ IsFiniteSet(numbers[n])
                        /\ committed[n] \subseteq full[n] /\ full[n] \subseteq known[n]
    BY <1>4, <1>5, <1>8
  <2> QED BY <1>2, <1>6, <2>1, <2>2, <2>3, <2>4 DEF Typed
<1>11. Numbered
  <2> SUFFICES ASSUME NEW n \in Node, NEW b \in full[n], b > CHAINS
               PROVE  made[b].number \in numbers[n]
    BY DEF Numbered
  <2>1. b \in CHAINS + 1 .. CHAINS + Len(Start)
    BY <1>2, <1>5, OhieAssumption
  <2>2. b - CHAINS \in 1 .. Len(Start) /\ made[b] = Start[b - CHAINS]
    BY <1>1, <2>1, StartIs
  <2>3. DOMAIN Start = 1 .. Len(Start)
    BY StartAssumption, LenProperties
  <2>4. made[b] \in Range(Start)
    BY <2>2, <2>3 DEF Range
  <2> QED BY <1>5, <2>4 DEF T
<1>12. NoRepeat
  <2>1. Block = 1 .. Len(made)
    BY <1>10, BlocksAre
  <2> QED BY <1>5, <2>1 DEF NoRepeat
<1> QED BY <1>10, <1>11, <1>12

LEMMA TypedMine ==
  ASSUME Typed, NEW n \in Node, NEW c \in Chain, Mine(n, c)
  PROVE  Typed' /\ More(made, made')
<1> DEFINE N == Len(made)
           b == N + 1
           k == Append(made, Mined(n, c))
<1>1. More(made, k) /\ Len(k) = N + 1 /\ k[b] = Mined(n, c)
  BY MinedGrows
<1>2. /\ k[b].parent = deepest[n][c] /\ k[b].chain = c
      /\ k[b].depth = made[deepest[n][c]].depth + 1 /\ k[b].number = PoolNumber(n)
  BY <1>1, MinedGrows
<1>3. made' = k
  BY DEF Mine
<1> HIDE DEF k
<1>4. N \in Nat /\ N <= Len(k) /\ Trees(k) /\ Len(k) = b
  BY <1>1, LenProperties DEF More, Trees
<1>5. /\ 1 .. N \subseteq 1 .. b /\ b \in 1 .. b /\ b \in Nat
      /\ 1 .. b = (1 .. N) \cup {b}
  BY <1>4
<1>6. left' \in [Node -> [Chain -> Nat]]
  <2>1. left[n][c] - 1 \in Nat /\ left[n] \in [Chain -> Nat]
    BY DEF Mine, Typed
  <2> DEFINE row == [left[n] EXCEPT ![c] = left[n][c] - 1]
  <2>2. row \in [Chain -> Nat]
    BY <2>1
  <2>3. left' = [left EXCEPT ![n] = row]
    BY DEF Mine
  <2> HIDE DEF row
  <2> QED BY <2>2, <2>3 DEF Typed
<1>7. seen' \in [1 .. b -> SUBSET (1 .. b)]
  <2>1. seen \in [1 .. N -> SUBSET (1 .. b)] /\ full[n] \in SUBSET (1 .. b)
    BY <1>5 DEF Typed
  <2>2. seen \in Seq(SUBSET (1 .. b))
    BY <1>4, <2>1, SeqDef
  <2>3. Len(seen) = N
    <3>1. DOMAIN seen = 1 .. N /\ DOMAIN seen = 1 .. Len(seen) /\ Len(seen) \in Nat
      BY <2>1, <2>2, LenProperties
    <3> QED BY <1>4, <3>1
  <2>4. seen' = Append(seen, full[n])
    BY DEF Mine
  <2>5. seen' \in Seq(SUBSET (1 .. b)) /\ Len(seen') = b
    BY <2>1, <2>2, <2>3, <2>4, AppendProperties
  <2>6. DOMAIN seen' = 1 .. b
    BY <2>5, LenProperties
  <2>7. \A x \in 1 .. b : seen'[x] \in SUBSET (1 .. b)
    BY <2>5, ElementOfSeq
  <2>8. seen' = [x \in DOMAIN seen' |-> seen'[x]]
    BY <2>5
  <2> QED BY <2>6, <2>7, <2>8
<1>8. /\ known' = [known EXCEPT ![n] = known[n] \cup {b}]
      /\ full' = [full EXCEPT ![n] = full[n] \cup {b}]
      /\ deepest' = [deepest EXCEPT ![n] = [deepest[n] EXCEPT ![c] = b]]
      /\ next' = [next EXCEPT ![n] = PoolNumber(n) + 1]
      /\ numbers' = numbers /\ committed' = committed /\ reorged' = reorged
  BY DEF Mine
<1>9. PoolNumber(n) \in Nat
  BY NumberIsFree
<1>10. next' \in [Node -> Nat \ {0}] /\ numbers' \in [Node -> SUBSET Nat]
  BY <1>8, <1>9 DEF Typed
<1>11. \A o \in Node : /\ known[o] \subseteq 1 .. N /\ full[o] \subseteq 1 .. N
                       /\ committed[o] \subseteq 1 .. N
                       /\ deepest[o] \in [Chain -> 1 .. N]
  BY DEF Typed
<1>12. /\ known' \in [Node -> SUBSET (1 .. b)] /\ full' \in [Node -> SUBSET (1 .. b)]
       /\ committed' \in [Node -> SUBSET (1 .. b)]
  BY <1>5, <1>8, <1>11 DEF Typed
<1>13. deepest' \in [Node -> [Chain -> 1 .. b]]
  <2>1. [deepest[n] EXCEPT ![c] = b] \in [Chain -> 1 .. b]
    BY <1>5, <1>11
  <2>2. \A o \in Node : deepest[o] \in [Chain -> 1 .. b]
    BY <1>5, <1>11
  <2> QED BY <1>8, <2>1, <2>2 DEF Typed
<1>14. ASSUME NEW o \in Node
       PROVE  /\ Rooted(k, known'[o], deepest'[o])
              /\ IsFiniteSet(numbers'[o])
              /\ committed'[o] \subseteq full'[o] /\ full'[o] \subseteq known'[o]
  <2>1. Rooted(k, known[o], deepest[o])
    <3>1. Rooted(made, known[o], deepest[o])
      BY DEF Typed
    <3> QED BY <1>1, <3>1, RootedKept
  <2>2. CASE o # n
    BY <1>8, <2>1, <2>2 DEF Typed
  <2>3. CASE o = n
    <3>1. known'[n] = known[n] \cup {b} /\ deepest'[n] = [deepest[n] EXCEPT ![c] = b]
      BY <1>8 DEF Typed
    <3>2. b \in 1 .. Len(k)
      BY <1>4, <1>5
    <3>3. k[b].parent \in known[n] \cup {0}
      BY <1>2 DEF Typed, Rooted
    <3>4. k[deepest[n][c]].depth < k[b].depth
      <4>1. deepest[n][c] \in 1 .. N
        BY <1>11
      <4>2. k[deepest[n][c]] = made[deepest[n][c]]
        BY <1>1, <4>1 DEF More
      <4>3. made[deepest[n][c]].depth \in Nat
        BY <4>1, TreeBlock DEF Typed
      <4> QED BY <1>2, <4>2, <4>3
    <3>5. Rooted(k, known[n], deepest[n])
      BY <2>1, <2>3
    <3> DEFINE kn == known[n]
               dn == deepest[n]
    <3>6. Rooted(k, kn \cup {b}, [dn EXCEPT ![c] = b])
      <4>1. /\ Rooted(k, kn, dn) /\ k[b].parent \in kn \cup {0}
            /\ k[dn[c]].depth < k[b].depth
        BY <3>3, <3>4, <3>5
      <4> HIDE DEF kn, dn, b
      <4> QED BY <1>2, <1>4, <3>2, <4>1, RootedDeeper
    <3>7. committed'[n] \subseteq full'[n] /\ full'[n] \subseteq known'[n]
      BY <1>8 DEF Typed
    <3>8. IsFiniteSet(numbers'[n])
      BY <1>8 DEF Typed
    <3> QED BY <2>3, <3>1, <3>6, <3>7, <3>8
  <2> QED BY <2>2, <2>3
<1>15. reorged' \subseteq Node
  BY <1>8 DEF Typed
<1>16. Len(made') = b
  BY <1>3, <1>4
<1> HIDE DEF b
<1>17. Typed'
  BY <1>3, <1>4, <1>6, <1>7, <1>10, <1>12, <1>13, <1>14, <1>15, <1>16 DEF Typed
<1> QED BY <1>1, <1>3, <1>17

LEMMA TypedLearnHeader ==
  ASSUME Typed, NEW n \in Node, NEW b \in Block, LearnHeader(n, b)
  PROVE  Typed'
<1> DEFINE c == made[b].chain
           deeper == made[b].depth > made[deepest[n][c]].depth
           row == IF deeper THEN [deepest[n] EXCEPT ![c] = b] ELSE deepest[n]
<1>1. b \in 1 .. Len(made) /\ Len(made) \in Nat /\ Trees(made)
  BY BlocksAre DEF Typed
<1>2. c \in Chain /\ made[b].depth \in Nat
  BY <1>1, TreeBlock
<1>3. made[b].parent \in known[n] \cup {0}
  BY DEF LearnHeader
<1>4. Rooted(made, known[n], deepest[n])
  BY DEF Typed
<1>5. deepest[n] \in [Chain -> 1 .. Len(made)] /\ deepest[n][c] \in 1 .. Len(made)
  BY <1>2, <1>4 DEF Rooted
<1>6. made[deepest[n][c]].depth \in Nat
  BY <1>1, <1>5, TreeBlock
<1>7. row \in [Chain -> 1 .. Len(made)]
  BY <1>1, <1>2, <1>5
<1>8. Rooted(made, known[n] \cup {b}, row)
  <2>1. CASE deeper
    <3>1. made[deepest[n][c]].depth < made[b].depth
      BY <1>2, <1>6, <2>1
    <3>2. Rooted(made, known[n] \cup {b}, [deepest[n] EXCEPT ![c] = b])
      BY <1>1, <1>2, <1>3, <1>4, <3>1, RootedDeeper
    <3> QED BY <2>1, <3>2
  <2>2. CASE ~ deeper
    <3>1. Rooted(made, known[n] \cup {b}, deepest[n])
      BY <1>1, <1>3, <1>4, <2>2, RootedBeside
    <3> QED BY <2>2, <3>1
  <2> QED BY <2>1, <2>2
<1>9. /\ known' = [known EXCEPT ![n] = known[n] \cup {b}]
      /\ UNCHANGED <<made, left, seen, full, numbers, next, committed>>
  BY DEF LearnHeader
<1>10. reorged' = reorged \cup {n} \/ reorged' = reorged
  BY DEF LearnHeader
<1>11. deepest' = [deepest EXCEPT ![n] = row]
  <2>1. deepest' = IF deeper THEN [deepest EXCEPT ![n] = [deepest[n] EXCEPT ![c] = b]]
                   ELSE deepest
    BY DEF LearnHeader
  <2>2. deepest = [deepest EXCEPT ![n] = deepest[n]]
    BY DEF Typed
  <2> QED BY <2>1, <2>2
<1> HIDE DEF row
<1>12. known' \in [Node -> SUBSET (1 .. Len(made))]
  BY <1>1, <1>9 DEF Typed
<1>13. deepest' \in [Node -> [Chain -> 1 .. Len(made)]]
  BY <1>7, <1>11 DEF Typed
<1>14. reorged' \subseteq Node
  BY <1>10 DEF Typed
<1>15. \A o \in Node : /\ Rooted(made, known'[o], deepest'[o])
                       /\ full[o] \subseteq known'[o]
  BY <1>8, <1>9, <1>11 DEF Typed
<1> QED BY <1>9, <1>12, <1>13, <1>14, <1>15 DEF Typed

LEMMA TypedLearnBody ==
  ASSUME Typed, NEW n \in Node, NEW b \in Block, LearnBody(n, b)
  PROVE  Typed'
<1>1. b \in 1 .. Len(made) /\ b \in known[n]
  BY BlocksAre DEF LearnBody
<1>2. made[b].number \in Nat
  BY <1>1, TreeBlock DEF Typed, Records
<1>3. /\ numbers' = [numbers EXCEPT ![n] = numbers[n] \cup {made[b].number}]
      /\ full' = [full EXCEPT ![n] = full[n] \cup {b}] \/ full' = full
      /\ UNCHANGED <<made, left, seen, known, deepest, next, committed, reorged>>
  BY DEF LearnBody
<1>4. numbers' \in [Node -> SUBSET Nat]
  BY <1>2, <1>3 DEF Typed
<1>5. full' \in [Node -> SUBSET (1 .. Len(made))]
  <2>1. full[n] \cup {b} \in SUBSET (1 .. Len(made))
    BY <1>1 DEF Typed
  <2> QED BY <1>3, <2>1 DEF Typed
<1>6. IsFiniteSet(numbers[n] \cup {made[b].number})
  BY FS_AddElement DEF Typed
<1>7. \A o \in Node : /\ IsFiniteSet(numbers'[o])
                      /\ committed[o] \subseteq full'[o] /\ full'[o] \subseteq known[o]
  BY <1>1, <1>3, <1>6 DEF Typed
<1> QED BY <1>3, <1>4, <1>5, <1>7 DEF Typed

LEMMA TypedCommit ==
  ASSUME Typed, NEW n \in Node, UpdateCommited(n)
  PROVE  Typed'
<1> DEFINE confirmed == Confirmed(n) \cap full[n]
<1>1. /\ committed' = [committed EXCEPT ![n] = committed[n] \cup confirmed]
      /\ UNCHANGED <<made, left, seen, known, deepest, full, numbers, next, reorged>>
  BY DEF UpdateCommited
<1>2. confirmed \subseteq full[n]
  OBVIOUS
<1> HIDE DEF confirmed
<1>3. committed' \in [Node -> SUBSET (1 .. Len(made))]
  BY <1>1, <1>2 DEF Typed
<1>4. \A o \in Node : committed'[o] \subseteq full[o]
  BY <1>1, <1>2 DEF Typed
<1> QED BY <1>1, <1>3, <1>4 DEF Typed

\* The blocks only grow.
LEMMA StepTyped ==
  ASSUME Typed, [Next]_vars
  PROVE  Typed' /\ More(made, made')
<1>1. ASSUME made' = made
      PROVE  More(made, made')
  <2>1. Trees(made) /\ Len(made) \in Nat
    BY LenProperties DEF Typed, Trees
  <2> QED BY <1>1, <2>1 DEF More
<1>2. CASE UNCHANGED vars
  <2>1. made' = made
    BY <1>2 DEF vars
  <2>2. Typed'
    BY <1>2 DEF vars, Typed
  <2> QED BY <1>1, <2>1, <2>2
<1>3. ASSUME NEW n \in Node, NEW c \in Chain, Mine(n, c)
      PROVE  Typed' /\ More(made, made')
  BY <1>3, TypedMine
<1>4. ASSUME NEW n \in Node, NEW b \in Block, LearnHeader(n, b)
      PROVE  Typed' /\ More(made, made')
  <2>1. made' = made
    BY <1>4 DEF LearnHeader
  <2> QED BY <1>1, <1>4, <2>1, TypedLearnHeader
<1>5. ASSUME NEW n \in Node, NEW b \in Block, LearnBody(n, b)
      PROVE  Typed' /\ More(made, made')
  <2>1. made' = made
    BY <1>5 DEF LearnBody
  <2> QED BY <1>1, <1>5, <2>1, TypedLearnBody
<1>6. ASSUME NEW n \in Node, UpdateCommited(n)
      PROVE  Typed' /\ More(made, made')
  <2>1. made' = made
    BY <1>6 DEF UpdateCommited
  <2> QED BY <1>1, <1>6, <2>1, TypedCommit
<1> QED BY <1>2, <1>3, <1>4, <1>5, <1>6 DEF Next

-----------------------------------------------------------------------------
(***************************************************************************)
(* Edges and bar of the blocks m, with the deepest blocks deep.            *)
(***************************************************************************)

EdgesOf(m, deep) == [c \in Chain |-> Above(m, deep[c], T_DISCARD)]
PrefixOf(m, e) == UNION {Line(m, e[c]) : c \in Chain}
BarOf(m, e) == IF \E c \in Chain : e[c] = 0 THEN 0
               ELSE Min({m[e[c]].next_rank : c \in Chain})
ConfirmedOf(m, e) == {b \in PrefixOf(m, e) : m[b].next_rank < BarOf(m, e)}

Edges(n) == EdgesOf(made, deepest[n])

LEMMA ViewIs ==
  ASSUME NEW n \in Node
  PROVE  /\ \A c \in Chain : Edge(n, c) = Edges(n)[c]
         /\ Prefix(n) = PrefixOf(made, Edges(n))
         /\ Bar(n) = BarOf(made, Edges(n))
         /\ Confirmed(n) = ConfirmedOf(made, Edges(n))
<1>1. \A c \in Chain : Edge(n, c) = Edges(n)[c]
  BY PathIsLine DEF Edge, Edges, EdgesOf
<1>2. \A c \in Chain : Path(Edge(n, c)) = Line(made, Edges(n)[c])
  BY <1>1, PathIsLine
<1>3. Prefix(n) = PrefixOf(made, Edges(n))
  BY <1>2 DEF Prefix, PrefixOf
<1>4. Bar(n) = BarOf(made, Edges(n))
  <2>1. {made[Edge(n, c)].next_rank : c \in Chain}
           = {made[Edges(n)[c]].next_rank : c \in Chain}
    BY <1>1
  <2>2. (\E c \in Chain : Edge(n, c) = 0) <=> (\E c \in Chain : Edges(n)[c] = 0)
    BY <1>1
  <2> QED BY <2>1, <2>2 DEF Bar, BarOf
<1> QED BY <1>1, <1>3, <1>4 DEF Confirmed, ConfirmedOf

LEMMA ViewOfNext ==
  ASSUME NEW n \in Node
  PROVE  /\ Edges(n)' = EdgesOf(made', deepest'[n])
         /\ Prefix(n)' = PrefixOf(made', Edges(n)')
         /\ Bar(n)' = BarOf(made', Edges(n)')
         /\ Confirmed(n)' = ConfirmedOf(made', Edges(n)')
<1>1. Edges(n)' = EdgesOf(made', deepest'[n])
  BY DEF Edges
<1>2. \A c \in Chain : Edge(n, c)' = Edges(n)'[c]
  BY <1>1, LineOfNext DEF Edge, EdgesOf
<1>3. \A c \in Chain : Path(Edge(n, c))' = Line(made', Edges(n)'[c])
  BY <1>2 DEF Path, Line
<1>4. Prefix(n)' = PrefixOf(made', Edges(n)')
  BY <1>3 DEF Prefix, PrefixOf
<1>5. Bar(n)' = BarOf(made', Edges(n)')
  <2>1. {made'[Edge(n, c)'].next_rank : c \in Chain}
           = {made'[Edges(n)'[c]].next_rank : c \in Chain}
    BY <1>2
  <2>2. (\E c \in Chain : Edge(n, c)' = 0) <=> (\E c \in Chain : Edges(n)'[c] = 0)
    BY <1>2
  <2> QED BY <2>1, <2>2 DEF Bar, BarOf
<1> QED BY <1>1, <1>4, <1>5 DEF Confirmed, ConfirmedOf

\* x is the bar of the edges e: nothing when one is missing, and the lowest else.
IsBar(m, e, x) ==
    /\ x \in Nat
    /\ \A c \in Chain : IF e[c] = 0 THEN x = 0 ELSE x <= m[e[c]].next_rank
    /\ \E c \in Chain : x = IF e[c] = 0 THEN 0 ELSE m[e[c]].next_rank

LEMMA BarIs ==
  ASSUME NEW m, Trees(m), NEW e \in [Chain -> 0 .. Len(m)]
  PROVE  IsBar(m, e, BarOf(m, e))
<1>1. 1 \in Chain /\ Len(m) \in Nat
  BY OhieAssumption, LenProperties DEF Chain, Trees
<1>2. ASSUME NEW d \in Chain, e[d] = 0
      PROVE  IsBar(m, e, BarOf(m, e))
  <2>1. BarOf(m, e) = 0
    BY <1>2 DEF BarOf
  <2>2. \A c \in Chain : e[c] # 0 => m[e[c]].next_rank \in Nat
    <3>1. \A c \in Chain : e[c] # 0 => e[c] \in 1 .. Len(m)
      BY <1>1
    <3> QED BY <3>1, TreeBlock
  <2>3. \A c \in Chain : e[c] # 0 => 0 <= m[e[c]].next_rank
    BY <2>2
  <2> QED BY <1>2, <2>1, <2>3 DEF IsBar
<1>3. ASSUME \A c \in Chain : e[c] # 0
      PROVE  IsBar(m, e, BarOf(m, e))
  <2> DEFINE S == {m[e[c]].next_rank : c \in Chain}
  <2>1. \A c \in Chain : e[c] \in 1 .. Len(m)
    BY <1>1, <1>3
  <2>2. \A c \in Chain : m[e[c]].next_rank \in Nat
    BY <2>1, TreeBlock
  <2>3. S \in SUBSET Nat /\ S # {}
    BY <1>1, <2>2
  <2>4. Min(S) \in S /\ \A y \in S : Min(S) <= y
    <3> HIDE DEF S
    <3> QED BY <2>3, MinIsLeast
  <2>5. BarOf(m, e) = Min(S)
    BY <1>3 DEF BarOf
  <2>6. PICK c \in Chain : Min(S) = m[e[c]].next_rank
    BY <2>4
  <2> DEFINE x == Min(S)
  <2>7. x \in Nat /\ (\A d \in Chain : x <= m[e[d]].next_rank) /\ x = m[e[c]].next_rank
    BY <2>3, <2>4, <2>6
  <2> HIDE DEF x
  <2>8. IsBar(m, e, x)
    BY <1>3, <2>7 DEF IsBar
  <2> QED BY <2>5, <2>8 DEF x
<1> QED BY <1>2, <1>3

LEMMA EdgeIsBlock ==
  ASSUME Typed, NEW n \in Node
  PROVE  /\ Edges(n) \in [Chain -> 0 .. Len(made)]
         /\ \A c \in Chain : Edges(n)[c] # 0 =>
               Edges(n)[c] \in 1 .. Len(made) /\ Edges(n)[c] \in Line(made, deepest[n][c])
<1>1. Trees(made) /\ T_DISCARD \in Nat /\ Len(made) \in Nat
  BY OhieAssumption, LenProperties DEF Typed, Trees
<1>2. ASSUME NEW c \in Chain
      PROVE  LET s == Edges(n)[c]
             IN  s = 0 \/ (s \in 1 .. Len(made) /\ s \in Line(made, deepest[n][c]))
  <2>1. deepest[n][c] \in 1 .. Len(made)
    BY DEF Typed
  <2> DEFINE s == Above(made, deepest[n][c], T_DISCARD)
  <2>2. AboveIn(made, deepest[n][c], T_DISCARD, s)
    BY <1>1, <2>1, AboveShape
  <2>3. Edges(n)[c] = s
    BY DEF Edges, EdgesOf
  <2> HIDE DEF s
  <2> QED BY <2>2, <2>3 DEF AboveIn
<1>3. \A c \in Chain : Edges(n)[c] \in 0 .. Len(made)
  BY <1>1, <1>2
<1>4. Edges(n) \in [Chain -> 0 .. Len(made)]
  BY <1>3 DEF Edges, EdgesOf
<1> QED BY <1>2, <1>4

LEMMA EdgeIsBlockNext ==
  ASSUME Typed', NEW n \in Node
  PROVE  Edges(n)' \in [Chain -> 0 .. Len(made')]
<1>1. Trees(made') /\ T_DISCARD \in Nat /\ Len(made') \in Nat
  BY OhieAssumption, LenProperties DEF Typed, Trees
<1>2. ASSUME NEW c \in Chain
      PROVE  Edges(n)'[c] \in 0 .. Len(made')
  <2>1. deepest'[n][c] \in 1 .. Len(made')
    BY DEF Typed
  <2> DEFINE s == Above(made', deepest'[n][c], T_DISCARD)
  <2>2. AboveIn(made', deepest'[n][c], T_DISCARD, s)
    BY <1>1, <2>1, AboveShape
  <2>3. Edges(n)'[c] = s
    BY DEF Edges, EdgesOf
  <2> HIDE DEF s
  <2> QED BY <1>1, <2>2, <2>3 DEF AboveIn
<1> QED BY <1>2 DEF Edges, EdgesOf

-----------------------------------------------------------------------------
(***************************************************************************)
(* What is settled stays so.                                               *)
(***************************************************************************)

\* The path to the deepest block of a chain keeps what was settled.
DeepestMoves(m, k, d0, d1) ==
    \/ d1 = d0
    \/ /\ k[d0].depth <= k[d1].depth
       /\ Above(m, d0, T_DISCARD) \in Line(k, d1) \cup {0}

LEMMA StepMoves ==
  ASSUME Typed, [Next]_vars, NEW n \in Node, n \notin reorged', NEW c \in Chain
  PROVE  DeepestMoves(made, made', deepest[n][c], deepest'[n][c])
<1> DEFINE d == deepest[n][c]
           s == Above(made, d, T_DISCARD)
<1>1. d \in 1 .. Len(made) /\ Trees(made) /\ made[d].depth \in Nat /\ T_DISCARD \in Nat
      /\ Len(made) \in Nat
  <2>1. d \in 1 .. Len(made) /\ Trees(made)
    BY DEF Typed
  <2>2. made[d].depth \in Nat
    BY <2>1, TreeBlock
  <2>3. T_DISCARD \in Nat /\ Len(made) \in Nat
    BY <2>1, OhieAssumption, LenProperties DEF Trees
  <2> QED BY <2>1, <2>2, <2>3
<1>2. CASE deepest'[n][c] = deepest[n][c]
  BY <1>2 DEF DeepestMoves
<1>3. ASSUME NEW o \in Node, NEW e \in Chain, Mine(o, e), deepest'[n][c] # deepest[n][c]
      PROVE  DeepestMoves(made, made', d, deepest'[n][c])
  <2> DEFINE b == Len(made) + 1
             k == made'
  <2>1. deepest' = [deepest EXCEPT ![o] = [deepest[o] EXCEPT ![e] = b]]
    BY <1>3 DEF Mine
  <2>2. o = n /\ e = c /\ deepest'[n][c] = b
    BY <1>3, <2>1 DEF Typed
  <2>3. k = Append(made, Mined(n, c))
    BY <1>3, <2>2 DEF Mine
  <2>4. /\ More(made, k) /\ Len(k) = Len(made) + 1
        /\ k[b].parent = d /\ k[b].depth = made[d].depth + 1
    BY <2>3, MinedGrows
  <2> HIDE DEF k, d
  <2>5. b \in 1 .. Len(k) /\ Trees(k) /\ k[d] = made[d]
    BY <1>1, <2>4 DEF More
  <2>6. k[d].depth <= k[b].depth
    BY <1>1, <2>4, <2>5
  <2>7. Line(k, d) \subseteq Line(k, b)
    BY <2>4, <2>5, LineParent
  <2>8. Line(k, d) = Line(made, d)
    <3>1. d \in 0 .. Len(made)
      BY <1>1
    <3> QED BY <2>4, <3>1, MoreLine
  <2>9. AboveIn(made, d, T_DISCARD, s)
    BY <1>1, AboveShape
  <2>10. s \in Line(made, d) \cup {0}
    BY <2>9 DEF AboveIn
  <2> QED BY <2>2, <2>6, <2>7, <2>8, <2>10 DEF DeepestMoves, k
<1>4. ASSUME NEW o \in Node, NEW b \in Block, LearnHeader(o, b),
             deepest'[n][c] # deepest[n][c]
      PROVE  DeepestMoves(made, made', d, deepest'[n][c])
  <2> DEFINE e == made[b].chain
             deeper == made[b].depth > made[deepest[o][e]].depth
  <2>1. deepest' = IF deeper THEN [deepest EXCEPT ![o] = [deepest[o] EXCEPT ![e] = b]]
                   ELSE deepest
    BY <1>4 DEF LearnHeader
  <2>2. b \in 1 .. Len(made)
    BY BlocksAre
  <2>3. e \in Chain /\ made[b].depth \in Nat
    BY <1>1, <2>2, TreeBlock
  <2> HIDE DEF e
  <2>4. deeper /\ o = n /\ e = c /\ deepest'[n][c] = b
    BY <1>4, <2>1, <2>3 DEF Typed
  <2>5. made[d].depth <= made[b].depth
    BY <1>1, <2>3, <2>4
  <2>6. Settled(d) \in Path(b) \cup {0}
    <3>1. reorged' = IF deeper /\ Settled(deepest[o][e]) \notin Path(b) \cup {0}
                     THEN reorged \cup {o} ELSE reorged
      BY <1>4 DEF LearnHeader, e
    <3> QED BY <2>4, <3>1
  <2>7. s \in Line(made, b) \cup {0}
    BY <2>6, PathIsLine
  <2>8. made' = made
    BY <1>4 DEF LearnHeader
  <2> QED BY <2>4, <2>5, <2>7, <2>8 DEF DeepestMoves
<1>5. ASSUME NEW o \in Node, NEW b \in Block, LearnBody(o, b)
      PROVE  deepest' = deepest
  BY <1>5 DEF LearnBody
<1>6. ASSUME NEW o \in Node, UpdateCommited(o)
      PROVE  deepest' = deepest
  BY <1>6 DEF UpdateCommited
<1>7. CASE UNCHANGED vars
  <2>1. deepest' = deepest
    BY <1>7 DEF vars
  <2> QED BY <1>2, <2>1
<1> QED BY <1>2, <1>3, <1>4, <1>5, <1>6, <1>7 DEF Next

LEMMA EdgeFollows ==
  ASSUME NEW m, NEW k, More(m, k), NEW d0 \in 1 .. Len(m), NEW d1 \in 1 .. Len(k),
         DeepestMoves(m, k, d0, d1)
  PROVE  Follows(k, Above(m, d0, T_DISCARD), Above(k, d1, T_DISCARD))
<1>1. Trees(k) /\ T_DISCARD \in Nat /\ Len(m) \in Nat /\ Len(k) \in Nat /\ Len(m) <= Len(k)
  BY OhieAssumption, LenProperties DEF More, Trees
<1>2. d0 \in 1 .. Len(k)
  BY <1>1
<1>3. Above(m, d0, T_DISCARD) = Above(k, d0, T_DISCARD)
  BY <1>1, AboveKept
<1>4. CASE d1 = d0
  <2> DEFINE s == Above(k, d0, T_DISCARD)
  <2>1. AboveIn(k, d0, T_DISCARD, s)
    BY <1>1, <1>2, AboveShape
  <2> HIDE DEF s
  <2>2. s # 0 => s \in 1 .. Len(k)
    BY <2>1 DEF AboveIn
  <2>3. s # 0 => s \in Line(k, s) /\ k[s].next_rank \in Nat
    BY <1>1, <2>2, LineParent, TreeBlock
  <2>4. s # 0 => k[s].next_rank <= k[s].next_rank
    BY <2>3
  <2>5. Follows(k, s, s)
    BY <2>2, <2>3, <2>4 DEF Follows
  <2> QED BY <1>3, <1>4, <2>5 DEF s
<1>5. CASE d1 # d0
  <2>1. k[d0].depth <= k[d1].depth /\ Above(k, d0, T_DISCARD) \in Line(k, d1) \cup {0}
    BY <1>3, <1>5 DEF DeepestMoves
  <2>2. Follows(k, Above(k, d0, T_DISCARD), Above(k, d1, T_DISCARD))
    BY <1>1, <1>2, <2>1, SettledFollows
  <2> QED BY <1>3, <2>2
<1> QED BY <1>4, <1>5

\* Bars and what is below them only grow when the edges do.
LEMMA BarFollows ==
  ASSUME NEW m, NEW k, More(m, k), NEW e0 \in [Chain -> 0 .. Len(m)],
         NEW e1 \in [Chain -> 0 .. Len(k)],
         \A c \in Chain : Follows(k, e0[c], e1[c])
  PROVE  /\ BarOf(m, e0) \in Nat /\ BarOf(k, e1) \in Nat
         /\ BarOf(m, e0) <= BarOf(k, e1)
         /\ ConfirmedOf(m, e0) \subseteq ConfirmedOf(k, e1)
<1> DEFINE x == BarOf(m, e0)
           y == BarOf(k, e1)
<1>1. Trees(m) /\ Trees(k) /\ Len(m) \in Nat /\ Len(k) \in Nat /\ Len(m) <= Len(k)
  BY LenProperties DEF More, Trees
<1>2. IsBar(m, e0, x) /\ IsBar(k, e1, y)
  BY <1>1, BarIs
<1> HIDE DEF x, y
<1>3. \A b \in 1 .. Len(m) : k[b] = m[b] /\ b \in 1 .. Len(k) /\ m[b].next_rank \in Nat
  BY <1>1, TreeBlock DEF More
<1>4. \A c \in Chain : e0[c] # 0 => e0[c] \in 1 .. Len(m)
  BY <1>1
<1>5. x \in Nat /\ y \in Nat
  BY <1>2 DEF IsBar
<1>6. x <= y
  <2>1. PICK c \in Chain : y = IF e1[c] = 0 THEN 0 ELSE k[e1[c]].next_rank
    BY <1>2 DEF IsBar
  <2>2. CASE e0[c] = 0
    <3>1. x = 0
      BY <1>2, <2>2 DEF IsBar
    <3> QED BY <1>5, <3>1
  <2>3. CASE e0[c] # 0
    <3>1. /\ e1[c] \in 1 .. Len(k)
          /\ k[e0[c]].next_rank <= k[e1[c]].next_rank
      BY <2>3 DEF Follows
    <3>2. e1[c] # 0
      BY <3>1
    <3>3. x <= m[e0[c]].next_rank
      BY <1>2, <2>3 DEF IsBar
    <3>4. /\ k[e0[c]] = m[e0[c]] /\ m[e0[c]].next_rank \in Nat
      BY <1>3, <1>4, <2>3
    <3>5. y = k[e1[c]].next_rank
      BY <2>1, <3>2
    <3> QED BY <1>5, <3>1, <3>3, <3>4, <3>5
  <2> QED BY <2>2, <2>3
<1>7. ASSUME NEW b \in ConfirmedOf(m, e0)
      PROVE  b \in ConfirmedOf(k, e1)
  <2>1. PICK c \in Chain : b \in Line(m, e0[c])
    BY DEF ConfirmedOf, PrefixOf
  <2>2. m[b].next_rank < x
    BY DEF ConfirmedOf, x
  <2>3. e0[c] # 0
    <3> SUFFICES ASSUME e0[c] = 0 PROVE FALSE
      OBVIOUS
    <3>1. 0 \in 0 .. Len(m)
      BY <1>1
    <3>2. Line(m, 0) = {}
      BY <1>1, <3>1, LineValue
    <3> QED BY <2>1, <3>2
  <2>4. e0[c] \in 1 .. Len(m) /\ e0[c] \in 0 .. Len(m)
    BY <1>4, <2>3
  <2>5. b \in Line(k, e0[c])
    BY <2>1, <2>4, MoreLine
  <2>6. e1[c] \in 1 .. Len(k) /\ e0[c] \in Line(k, e1[c])
    BY <2>3 DEF Follows
  <2>7. b \in Line(k, e1[c])
    BY <1>1, <2>5, <2>6, LineInLine
  <2>8. b \in 1 .. Len(m)
    <3>1. OnLine(m, b, e0[c])
      BY <1>1, <2>1, <2>4, LineShape
    <3> QED BY <1>1, <2>4, <3>1 DEF OnLine
  <2>9. k[b].next_rank < y
    <3>1. k[b] = m[b] /\ m[b].next_rank \in Nat
      BY <1>3, <2>8
    <3> QED BY <1>5, <1>6, <2>2, <3>1
  <2> QED BY <2>7, <2>9 DEF ConfirmedOf, PrefixOf, y
<1> QED BY <1>5, <1>6, <1>7 DEF x, y

\* A node that has not lost settled blocks keeps its bar and what it confirms.
LEMMA NodeKeeps ==
  ASSUME Typed, [Next]_vars, NEW n \in Node, n \notin reorged'
  PROVE  /\ Bar(n) \in Nat /\ Bar(n)' \in Nat /\ Bar(n) <= Bar(n)'
         /\ Confirmed(n) \subseteq Confirmed(n)'
<1>1. Typed' /\ More(made, made')
  BY StepTyped
<1>2. Edges(n) \in [Chain -> 0 .. Len(made)] /\ Edges(n)' \in [Chain -> 0 .. Len(made')]
  BY <1>1, EdgeIsBlock, EdgeIsBlockNext
<1>3. \A c \in Chain : Edges(n)[c] = Above(made, deepest[n][c], T_DISCARD)
  BY DEF Edges, EdgesOf
<1>4. \A c \in Chain : Edges(n)'[c] = Above(made', deepest'[n][c], T_DISCARD)
  BY ViewOfNext DEF EdgesOf
<1>5. ASSUME NEW c \in Chain
      PROVE  Follows(made', Edges(n)[c], Edges(n)'[c])
  <2>1. deepest[n][c] \in 1 .. Len(made)
    BY DEF Typed
  <2>2. deepest'[n][c] \in 1 .. Len(made')
    BY <1>1 DEF Typed
  <2>3. DeepestMoves(made, made', deepest[n][c], deepest'[n][c])
    BY StepMoves
  <2> QED BY <1>1, <1>3, <1>4, <2>1, <2>2, <2>3, EdgeFollows
<1> DEFINE m == made
           k == made'
           e0 == Edges(n)
           e1 == Edges(n)'
<1>6. /\ More(m, k) /\ e0 \in [Chain -> 0 .. Len(m)] /\ e1 \in [Chain -> 0 .. Len(k)]
      /\ \A c \in Chain : Follows(k, e0[c], e1[c])
  BY <1>1, <1>2, <1>5
<1>7. /\ Bar(n) = BarOf(m, e0) /\ Bar(n)' = BarOf(k, e1)
      /\ Confirmed(n) = ConfirmedOf(m, e0) /\ Confirmed(n)' = ConfirmedOf(k, e1)
  BY ViewIs, ViewOfNext
<1> HIDE DEF m, k, e0, e1
<1> QED BY <1>6, <1>7, BarFollows

-----------------------------------------------------------------------------
(***************************************************************************)
(* The theorems.                                                           *)
(***************************************************************************)

\* A node keeps what it has committed among what its edges confirm.
Kept == \A n \in Node \ reorged : committed[n] \subseteq Confirmed(n)

IInv == Typed /\ Numbered /\ NoRepeat /\ Kept

LEMMA StepNumbered ==
  ASSUME Typed, Numbered, NoRepeat, [Next]_vars
  PROVE  Numbered' /\ NoRepeat'
<1>1. Block = 1 .. Len(made) /\ Len(made) \in Nat
  BY BlocksAre
<1>2. CASE UNCHANGED vars
  BY <1>2 DEF vars, Numbered, NoRepeat, Block
<1>3. ASSUME NEW n \in Node, NEW c \in Chain, Mine(n, c)
      PROVE  Numbered' /\ NoRepeat'
  <2> DEFINE N == Len(made)
             b == N + 1
  <2>1. made' = Append(made, Mined(n, c))
    BY <1>3 DEF Mine
  <2>2. More(made, made') /\ Len(made') = b /\ made'[b].number = PoolNumber(n)
    BY <2>1, MinedGrows
  <2>3. \A x \in 1 .. N : made'[x] = made[x]
    BY <2>2 DEF More
  <2>4. /\ PoolNumber(n) \in Nat /\ PoolNumber(n) >= next[n]
        /\ PoolNumber(n) \notin numbers[n] /\ next \in [Node -> Nat \ {0}]
    BY NumberIsFree DEF Typed
  <2>5. /\ full' = [full EXCEPT ![n] = full[n] \cup {b}]
        /\ next' = [next EXCEPT ![n] = PoolNumber(n) + 1]
        /\ numbers' = numbers /\ seen' = Append(seen, full[n])
    BY <1>3 DEF Mine
  <2>6. \A o \in Node : full[o] \subseteq 1 .. N
    BY DEF Typed
  <2>7. \A x \in 1 .. N : made[x].number \in Nat
    BY TreeBlock DEF Typed, Records
  <2>8. ASSUME NEW o \in Node, NEW x \in full'[o], x > CHAINS
        PROVE  made'[x].number \in numbers'[o] \/ made'[x].number < next'[o]
    <3>1. CASE x \in full[o]
      <4>1. made'[x].number = made[x].number /\ made[x].number \in Nat
        BY <2>3, <2>6, <2>7, <3>1
      <4>2. made[x].number \in numbers[o] \/ made[x].number < next[o]
        BY <2>8, <3>1 DEF Numbered
      <4>3. next[o] \in Nat /\ next'[o] \in Nat /\ next[o] <= next'[o]
        BY <2>4, <2>5
      <4> QED BY <2>5, <4>1, <4>2, <4>3
    <3>2. CASE x \notin full[o]
      <4>1. o = n /\ x = b
        BY <2>5, <2>8, <3>2 DEF Typed
      <4> QED BY <2>2, <2>4, <2>5, <4>1
    <3> QED BY <3>1, <3>2
  <2>9. Numbered'
    BY <2>8 DEF Numbered
  <2>10. DOMAIN made' = 1 .. b
    BY <2>2, LenProperties DEF More, Trees
  <2>11. /\ \A x \in 1 .. N : seen'[x] = seen[x] /\ seen[x] \subseteq 1 .. N
         /\ seen'[b] = full[n]
    <3>1. seen \in [1 .. N -> SUBSET (1 .. N)] /\ full[n] \in SUBSET (1 .. N)
      BY DEF Typed
    <3>2. seen \in Seq(SUBSET (1 .. N))
      BY <1>1, <3>1, SeqDef
    <3>3. Len(seen) = N
      <4>1. DOMAIN seen = 1 .. N /\ DOMAIN seen = 1 .. Len(seen) /\ Len(seen) \in Nat
        BY <3>1, <3>2, LenProperties
      <4> QED BY <1>1, <4>1
    <3>4. /\ \A x \in 1 .. N : seen'[x] = seen[x]
          /\ seen'[N + 1] = full[n]
      BY <2>5, <3>1, <3>2, <3>3, AppendProperties
    <3> QED BY <3>1, <3>4
  <2>12. ASSUME NEW x \in 1 .. b, NEW y \in seen'[x], y > CHAINS
         PROVE  made'[x].number # made'[y].number
    <3>1. CASE x \in 1 .. N
      <4>1. y \in seen[x] /\ y \in 1 .. N
        BY <2>11, <3>1
      <4>2. made[x].number # made[y].number
        BY <1>1, <2>12, <3>1, <4>1 DEF NoRepeat
      <4> QED BY <2>3, <3>1, <4>1, <4>2
    <3>2. CASE x \notin 1 .. N
      <4>1. x = b
        BY <1>1, <3>2
      <4>2. y \in full[n] /\ y \in 1 .. N
        BY <2>6, <2>11, <4>1
      <4>3. made[y].number \in numbers[n] \/ made[y].number < next[n]
        BY <2>12, <4>2 DEF Numbered
      <4>4. made[y].number \in Nat /\ next[n] \in Nat
        BY <2>4, <2>7, <4>2
      <4>5. PoolNumber(n) # made[y].number
        BY <2>4, <4>3, <4>4
      <4> QED BY <2>2, <2>3, <4>1, <4>2, <4>5
    <3> QED BY <3>1, <3>2
  <2>13. NoRepeat'
    BY <2>10, <2>12 DEF NoRepeat, Block
  <2> QED BY <2>9, <2>13
<1>4. ASSUME NEW n \in Node, NEW b \in Block, LearnHeader(n, b)
      PROVE  Numbered' /\ NoRepeat'
  BY <1>4 DEF LearnHeader, Numbered, NoRepeat, Block
<1>5. ASSUME NEW n \in Node, NEW b \in Block, LearnBody(n, b)
      PROVE  Numbered' /\ NoRepeat'
  <2>1. /\ numbers' = [numbers EXCEPT ![n] = numbers[n] \cup {made[b].number}]
        /\ full' = [full EXCEPT ![n] = full[n] \cup {b}] \/ full' = full
        /\ UNCHANGED <<made, seen, next>>
    BY <1>5 DEF LearnBody
  <2>2. \A o \in Node : numbers[o] \subseteq numbers'[o]
    BY <2>1 DEF Typed
  <2>3. made[b].number \in numbers'[n]
    BY <2>1 DEF Typed
  <2>4. \A o \in Node : \A x \in full'[o] : x \in full[o] \/ (o = n /\ x = b)
    BY <2>1 DEF Typed
  <2>5. Numbered'
    BY <2>1, <2>2, <2>3, <2>4 DEF Numbered
  <2>6. NoRepeat'
    BY <2>1 DEF NoRepeat, Block
  <2> QED BY <2>5, <2>6
<1>6. ASSUME NEW n \in Node, UpdateCommited(n)
      PROVE  Numbered' /\ NoRepeat'
  BY <1>6 DEF UpdateCommited, Numbered, NoRepeat, Block
<1> QED BY <1>2, <1>3, <1>4, <1>5, <1>6 DEF Next

LEMMA StepKept ==
  ASSUME Typed, Kept, [Next]_vars
  PROVE  Kept'
<1> SUFFICES ASSUME NEW n \in Node, n \notin reorged'
             PROVE  committed'[n] \subseteq Confirmed(n)'
  BY DEF Kept
<1>1. Confirmed(n) \subseteq Confirmed(n)'
  BY NodeKeeps
<1>2. reorged \subseteq reorged'
  BY DEF Next, vars, Mine, LearnHeader, LearnBody, UpdateCommited
<1>3. committed[n] \subseteq Confirmed(n)
  BY <1>2 DEF Kept
<1>4. committed'[n] \subseteq committed[n] \cup Confirmed(n)
  <2>1. ASSUME NEW o \in Node, UpdateCommited(o)
        PROVE  committed'[n] \subseteq committed[n] \cup Confirmed(n)
    <3>1. committed' = [committed EXCEPT ![o] = committed[o] \cup (Confirmed(o) \cap full[o])]
      BY <2>1 DEF UpdateCommited
    <3>2. committed'[n] = IF n = o THEN committed[n] \cup (Confirmed(n) \cap full[n])
                          ELSE committed[n]
      BY <3>1 DEF Typed
    <3> QED BY <3>2
  <2>2. CASE UNCHANGED vars
    BY <2>2 DEF vars
  <2>3. ASSUME NEW o \in Node, NEW c \in Chain, Mine(o, c)
        PROVE  committed' = committed
    BY <2>3 DEF Mine
  <2>4. ASSUME NEW o \in Node, NEW b \in Block, LearnHeader(o, b) \/ LearnBody(o, b)
        PROVE  committed' = committed
    BY <2>4 DEF LearnHeader, LearnBody
  <2> QED BY <2>1, <2>2, <2>3, <2>4 DEF Next
<1> QED BY <1>1, <1>3, <1>4

LEMMA IInvInit == Init => IInv
<1> SUFFICES ASSUME Init PROVE IInv
  OBVIOUS
<1>1. Typed /\ Numbered /\ NoRepeat
  BY TypedInit
<1>2. Kept
  BY DEF Init, Kept
<1> QED BY <1>1, <1>2 DEF IInv

LEMMA IInvStep == IInv /\ [Next]_vars => IInv'
<1> SUFFICES ASSUME IInv, [Next]_vars PROVE IInv'
  OBVIOUS
<1>1. Typed /\ Numbered /\ NoRepeat /\ Kept
  BY DEF IInv
<1>2. Typed'
  BY <1>1, StepTyped
<1>3. Numbered' /\ NoRepeat'
  BY <1>1, StepNumbered
<1>4. Kept'
  BY <1>1, StepKept
<1> QED BY <1>2, <1>3, <1>4 DEF IInv

LEMMA Invariant == Spec => []IInv
<1>1. Init => IInv
  BY IInvInit
<1>2. IInv /\ [Next]_vars => IInv'
  BY IInvStep
<1> QED BY <1>1, <1>2, PTL DEF Spec

\* Every node holds its blocks with all their parents, and no block of a chain is
\* deeper than the deepest one: Blockchain.cpp, add_received_block.
THEOREM OhieTypes == Spec => []TypeOK
<1>1. IInv => TypeOK
  <2> SUFFICES ASSUME Typed PROVE TypeOK
    BY DEF IInv
  <2>1. Block = 1 .. Len(made)
    BY BlocksAre
  <2>2. /\ made \in Seq(Records) /\ seen \in [Block -> SUBSET Block]
        /\ known \in [Node -> SUBSET Block] /\ deepest \in [Node -> [Chain -> Block]]
        /\ numbers \in [Node -> SUBSET Nat] /\ next \in [Node -> Nat \ {0}]
        /\ reorged \subseteq Node
    BY <2>1 DEF Typed, Trees
  <2>3. \A n \in Node :
           /\ committed[n] \subseteq full[n] /\ full[n] \subseteq known[n]
           /\ \A b \in known[n] :
                /\ made[b].parent \in known[n] \cup {0}
                /\ made[b].depth <= made[deepest[n][made[b].chain]].depth
    BY DEF Typed, Rooted
  <2> QED BY <2>2, <2>3 DEF TypeOK
<1> QED BY <1>1, Invariant, PTL

\* The block a node mines never reuses a file of the pool that a block it holds
\* in full has used: miner.cpp, get_number_of_pool_block with what #full_block
\* put into received_numbers_of_pool.
THEOREM PoolFilesNotReused == Spec => []NoRepeat
<1>1. IInv => NoRepeat
  BY DEF IInv
<1> QED BY <1>1, Invariant, PTL

LEMMA BelowBar ==
  ASSUME Typed, NEW n \in Node, NEW c \in Chain
  PROVE  /\ Bar(n) \in Nat
         /\ Edge(n, c) = 0 => Bar(n) = 0
         /\ Edge(n, c) # 0 => /\ Edge(n, c) \in 1 .. Len(made)
                              /\ Edge(n, c) \in Path(deepest[n][c])
                              /\ Bar(n) <= made[Edge(n, c)].next_rank
<1>1. Edges(n) \in [Chain -> 0 .. Len(made)] /\ Trees(made)
  BY EdgeIsBlock DEF Typed
<1> DEFINE e == Edges(n)
<1>2. IsBar(made, e, BarOf(made, e))
  <2> HIDE DEF e
  <2>1. e \in [Chain -> 0 .. Len(made)]
    BY <1>1 DEF e
  <2> QED BY <1>1, <2>1, BarIs
<1>3. Edge(n, c) = e[c] /\ Bar(n) = BarOf(made, e)
  BY ViewIs
<1>4. e[c] # 0 => e[c] \in 1 .. Len(made) /\ e[c] \in Line(made, deepest[n][c])
  BY EdgeIsBlock
<1>5. Path(deepest[n][c]) = Line(made, deepest[n][c])
  BY PathIsLine
<1> HIDE DEF e
<1> QED BY <1>2, <1>3, <1>4, <1>5 DEF IsBar

\* Blockchain.cpp, update_blocks_commited_time: as long as no chain of a node has
\* lost a settled block, what it has committed stays confirmed, and every block
\* that is still to settle comes after all of it.
THEOREM CommittedIsFinal == Spec => []CommittedSettled
<1>1. IInv => CommittedSettled
  <2> SUFFICES ASSUME Typed, Kept PROVE CommittedSettled
    BY DEF IInv
  <2>1. ASSUME NEW n \in Node \ reorged, NEW c \in Chain,
               NEW b \in Path(deepest[n][c]) \ Prefix(n), NEW d \in committed[n]
        PROVE  made[b].next_rank > made[d].next_rank
    <3> DEFINE e == Edge(n, c)
               top == deepest[n][c]
    <3>1. d \in Confirmed(n)
      BY DEF Kept
    <3>2. made[d].next_rank < Bar(n) /\ Bar(n) \in Nat
      BY <3>1, BelowBar DEF Confirmed
    <3>3. d \in 1 .. Len(made) /\ made[d].next_rank \in Nat
      <4>1. d \in 1 .. Len(made)
        BY DEF Typed
      <4> QED BY <4>1, TreeBlock DEF Typed
    <3>4. e # 0 /\ e \in 1 .. Len(made) /\ e \in Path(top) /\ Bar(n) <= made[e].next_rank
      <4>1. Bar(n) # 0
        BY <3>2, <3>3
      <4> QED BY <4>1, BelowBar
    <3>5. b \notin Path(e) /\ b \in Path(top)
      BY DEF Prefix
    <3>6. Trees(made) /\ top \in 1 .. Len(made)
      BY DEF Typed
    <3> HIDE DEF e, top
    <3>7. b \in Line(made, top) /\ e \in Line(made, top) /\ b \notin Line(made, e)
      BY <3>4, <3>5, PathIsLine
    <3>8. made[e].next_rank < made[b].next_rank /\ b \in 1 .. Len(made)
      BY <3>6, <3>7, LineOrder
    <3>9. made[e].next_rank \in Nat /\ made[b].next_rank \in Nat
      BY <3>4, <3>6, <3>8, TreeBlock
    <3> QED BY <3>2, <3>3, <3>4, <3>8, <3>9
  <2> QED BY <2>1 DEF CommittedSettled, Kept
<1> QED BY <1>1, Invariant, PTL

\* Two nodes whose settled parts are prefixes of one another in every chain order
\* them alike: what is below both bars is confirmed by both or by neither.
THEOREM NodesAgree == Spec => []OrderAgreed
<1>1. IInv => OrderAgreed
  <2> SUFFICES ASSUME Typed PROVE OrderAgreed
    BY DEF IInv
  <2>1. Trees(made) /\ Len(made) \in Nat
    BY LenProperties DEF Typed, Trees
  <2>2. ASSUME NEW n \in Node, NEW m \in Node, Comparable(n, m),
               NEW b \in Confirmed(n), made[b].next_rank < Bar(m)
        PROVE  b \in Confirmed(m)
    <3>1. PICK c \in Chain : b \in Path(Edge(n, c))
      BY DEF Confirmed, Prefix
    <3> DEFINE en == Edge(n, c)
               em == Edge(m, c)
    <3>2. b \in Path(em) => b \in Confirmed(m)
      BY <2>2 DEF Confirmed, Prefix
    <3>3. Path(en) \subseteq Path(em) \/ Path(em) \subseteq Path(en)
      BY <2>2 DEF Comparable
    <3>4. /\ Bar(m) \in Nat
          /\ em = 0 => Bar(m) = 0
          /\ em # 0 => em \in 1 .. Len(made) /\ Bar(m) <= made[em].next_rank
          /\ en # 0 => en \in 1 .. Len(made)
      BY BelowBar
    <3>5. b \in Line(made, en)
      BY <3>1, PathIsLine
    <3> HIDE DEF en, em
    <3>6. en # 0
      <4> SUFFICES ASSUME en = 0 PROVE FALSE
        OBVIOUS
      <4>1. 0 \in 0 .. Len(made)
        BY <2>1
      <4>2. Line(made, 0) = {}
        BY <2>1, <4>1, LineValue
      <4> QED BY <3>5, <4>2
    <3>7. en \in 1 .. Len(made)
      BY <3>4, <3>6
    <3>8. b \in 1 .. Len(made)
      BY <2>1, <3>5, <3>7, LineOrder
    <3>9. made[b].next_rank \in Nat
      BY <2>1, <3>8, TreeBlock
    <3>10. em # 0
      BY <2>2, <3>4, <3>9
    <3>11. CASE Path(en) \subseteq Path(em)
      BY <3>1, <3>2, <3>11 DEF en
    <3>12. CASE Path(em) \subseteq Path(en)
      <4>1. em \in 1 .. Len(made) /\ Bar(m) <= made[em].next_rank
        BY <3>4, <3>10
      <4>2. em \in Line(made, em)
        BY <2>1, <4>1, LineParent
      <4>3. em \in Line(made, en)
        BY <3>12, <4>2, PathIsLine
      <4>4. b \in Line(made, em) \/ made[em].next_rank < made[b].next_rank
        BY <2>1, <3>5, <3>7, <4>3, LineOrder
      <4>5. made[em].next_rank \in Nat
        BY <2>1, <4>1, TreeBlock
      <4>6. ~ (made[em].next_rank < made[b].next_rank)
        BY <2>2, <3>4, <3>9, <4>1, <4>5
      <4>7. b \in Path(em)
        BY <4>4, <4>6, PathIsLine
      <4> QED BY <3>2, <4>7
    <3> QED BY <3>3, <3>11, <3>12
  <2>3. ASSUME NEW n \in Node, NEW m \in Node, Comparable(n, m)
        PROVE  LET bar == Min({Bar(n), Bar(m)})
               IN  {b \in Confirmed(n) : made[b].next_rank < bar}
                     = {b \in Confirmed(m) : made[b].next_rank < bar}
    <3> DEFINE bar == Min({Bar(n), Bar(m)})
    <3>1. Bar(n) \in Nat /\ Bar(m) \in Nat
      <4>1. 1 \in Chain
        BY OhieAssumption DEF Chain
      <4> QED BY <4>1, BelowBar
    <3>2. bar \in Nat /\ bar <= Bar(n) /\ bar <= Bar(m)
      <4> DEFINE S == {Bar(n), Bar(m)}
      <4>1. S \in SUBSET Nat /\ S # {} /\ Bar(n) \in S /\ Bar(m) \in S
        BY <3>1
      <4>2. Min(S) \in S /\ \A y \in S : Min(S) <= y
        <5> HIDE DEF S
        <5> QED BY <4>1, MinIsLeast
      <4> QED BY <4>1, <4>2
    <3>3. Comparable(m, n)
      BY <2>3 DEF Comparable
    <3> HIDE DEF bar
    <3>4. ASSUME NEW o \in {n, m}, NEW b \in Confirmed(o)
          PROVE  made[b].next_rank \in Nat
      <4>1. PICK c \in Chain : b \in Path(Edge(o, c))
        BY DEF Confirmed, Prefix
      <4>2. b \in Line(made, Edge(o, c))
        BY <4>1, PathIsLine
      <4>3. Edge(o, c) # 0
        <5> SUFFICES ASSUME Edge(o, c) = 0 PROVE FALSE
          OBVIOUS
        <5>1. 0 \in 0 .. Len(made)
          BY <2>1
        <5>2. Line(made, 0) = {}
          BY <2>1, <5>1, LineValue
        <5> QED BY <4>2, <5>2
      <4>4. Edge(o, c) \in 1 .. Len(made)
        BY <4>3, BelowBar
      <4>5. b \in 1 .. Len(made)
        BY <2>1, <4>2, <4>4, LineOrder
      <4> QED BY <2>1, <4>5, TreeBlock
    <3>5. \A b \in Confirmed(n) : made[b].next_rank < bar => b \in Confirmed(m)
      <4> SUFFICES ASSUME NEW b \in Confirmed(n), made[b].next_rank < bar
                   PROVE  b \in Confirmed(m)
        OBVIOUS
      <4>1. made[b].next_rank < Bar(m)
        BY <3>1, <3>2, <3>4
      <4> QED BY <2>2, <2>3, <4>1
    <3>6. \A b \in Confirmed(m) : made[b].next_rank < bar => b \in Confirmed(n)
      <4> SUFFICES ASSUME NEW b \in Confirmed(m), made[b].next_rank < bar
                   PROVE  b \in Confirmed(n)
        OBVIOUS
      <4>1. made[b].next_rank < Bar(n)
        BY <3>1, <3>2, <3>4
      <4> QED BY <2>2, <3>3, <4>1
    <3> QED BY <3>5, <3>6 DEF bar
  <2> QED BY <2>3 DEF OrderAgreed
<1> QED BY <1>1, Invariant, PTL

\* The bar of update_blocks_commited_time goes down only when a longer fork took
\* a settled block from a chain.
THEOREM BarNeverFalls == Spec => BarGrows
<1>1. IInv /\ [Next]_vars =>
        [\A n \in Node : n \notin reorged' => Bar(n)' >= Bar(n)]_vars
  <2> SUFFICES ASSUME IInv, [Next]_vars
               PROVE  \A n \in Node : n \notin reorged' => Bar(n)' >= Bar(n)
    OBVIOUS
  <2>1. ASSUME NEW n \in Node, n \notin reorged'
        PROVE  Bar(n)' >= Bar(n)
    <3>1. Bar(n) \in Nat /\ Bar(n)' \in Nat /\ Bar(n) <= Bar(n)'
      BY <2>1, NodeKeeps DEF IInv
    <3> QED BY <3>1
  <2> QED BY <2>1
<1> QED BY <1>1, Invariant, PTL DEF Spec, BarGrows
=============================================================================
