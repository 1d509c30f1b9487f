-------------------------- MODULE AlgorithmsProofs --------------------------
(***************************************************************************)
(* Theorems about the three algorithms: for any number of chains, any      *)
(* hashes and blocks to insert, any size of the pool and of the blocks.    *)
(***************************************************************************)
EXTENDS Algorithms, FiniteSetTheorems, SequenceTheorems, WellFoundedInduction, TLAPS

Earlier == {ss \in Nat \X Nat : ss[1] < ss[2]}

\* A set of numbers has a least one.
LEMMA LeastNumber ==
  ASSUME NEW S \in SUBSET Nat, S # {}
  PROVE  \E x \in S : \A y \in S : x <= y
<1>1. IsWellFoundedOn(Earlier, Nat)
  BY NatLessThanWellFounded DEF Earlier, OpToRel
<1>2. PICK x \in S : \A y \in S : <<y, x>> \notin Earlier
  BY <1>1, WFMin
<1>3. ASSUME NEW y \in S, y < x
      PROVE  FALSE
  <2>1. <<y, x>> \in Earlier
    BY <1>3 DEF Earlier
  <2> QED BY <1>2, <2>1
<1> QED BY <1>3

\* No number is a counterexample if none is the first one.
LEMMA NoFirst ==
  ASSUME NEW S \in SUBSET Nat,
         \A x \in S : \E y \in S : y < x
  PROVE  S = {}
<1> SUFFICES ASSUME S # {} PROVE FALSE
  OBVIOUS
<1>1. PICK x \in S : \A y \in S : x <= y
  BY LeastNumber
<1>2. PICK y \in S : y < x
  OBVIOUS
<1>3. x \in Nat /\ y \in Nat /\ x <= y
  BY <1>1, <1>2
<1> QED BY <1>2, <1>3

-----------------------------------------------------------------------------
(***************************************************************************)
(* Sequences.                                                              *)
(***************************************************************************)

\* A sequence of no particular elements.
IsList(s) == \E T : s \in Seq(T)

LEMMA ListAppend ==
  ASSUME NEW s, IsList(s), NEW e
  PROVE  /\ IsList(Append(s, e)) /\ Len(Append(s, e)) = Len(s) + 1
         /\ Append(s, e)[Len(s) + 1] = e
         /\ \A i \in 1 .. Len(s) : Append(s, e)[i] = s[i]
<1>1. PICK T : s \in Seq(T)
  BY DEF IsList
<1> DEFINE U == T \cup {e}
<1>2. s \in Seq(U) /\ e \in U
  <2>1. Len(s) \in Nat /\ \A i \in 1 .. Len(s) : s[i] \in T
    BY <1>1, ElementOfSeq
  <2> QED BY <1>1, <2>1, SeqDef
<1> HIDE DEF U
<1>3. /\ Append(s, e) \in Seq(U) /\ Len(Append(s, e)) = Len(s) + 1
      /\ \A i \in 1 .. Len(s) : Append(s, e)[i] = s[i]
      /\ Append(s, e)[Len(s) + 1] = e
  BY <1>2, AppendProperties
<1> QED BY <1>3 DEF IsList

\* A function on 1 .. n is a sequence of length n.
LEMMA RowLen ==
  ASSUME NEW n \in Nat, NEW s, DOMAIN s = 1 .. n, s = [i \in 1 .. n |-> s[i]]
  PROVE  IsList(s) /\ Len(s) = n
<1> DEFINE T == {s[i] : i \in 1 .. n}
<1>1. s \in [1 .. n -> T]
  OBVIOUS
<1> HIDE DEF T
<1>2. s \in Seq(T)
  BY <1>1, SeqDef
<1>3. Len(s) \in Nat /\ DOMAIN s = 1 .. Len(s)
  BY <1>2, LenProperties
<1>4. Len(s) = n
  BY <1>3
<1> QED BY <1>2, <1>4 DEF IsList

-----------------------------------------------------------------------------
(***************************************************************************)
(* The Merkle proof: the tree.                                             *)
(***************************************************************************)

\* f holds the sizes of the trees of up to n chains.
IsSize(f, n) == f = [k \in 1 .. n |-> IF k = 1 THEN 1 ELSE 2 * f[(k + 1) \div 2]]

LEMMA SizeIs == size = CHOOSE f : IsSize(f, MaxChains)
BY DEF size, IsSize

\* One half, rounded up, of a number above 1 is a smaller one.
LEMMA HalfUp ==
  ASSUME NEW k \in Nat, k > 1
  PROVE  (k + 1) \div 2 \in 1 .. k - 1 /\ 2 * ((k + 1) \div 2) >= k
OBVIOUS

LEMMA SizeExists == ASSUME NEW n \in Nat PROVE \E f : IsSize(f, n)
<1> DEFINE S == {k \in Nat : ~ \E f : IsSize(f, k)}
<1>1. \A k \in S : \E m \in S : m < k
  <2> SUFFICES ASSUME NEW k \in S PROVE \E m \in S : m < k
    OBVIOUS
  <2>1. k # 0
    <3> DEFINE f == [i \in 1 .. 0 |-> 0]
    <3>1. IsSize(f, 0)
      BY DEF IsSize
    <3> QED BY <3>1
  <2>2. k - 1 \in Nat /\ k - 1 < k /\ k \in Nat
    BY <2>1
  <2>3. ASSUME NEW h, IsSize(h, k - 1)
        PROVE  FALSE
    <3> DEFINE f == [i \in 1 .. k |-> IF i = k
                       THEN IF k = 1 THEN 1 ELSE 2 * h[(k + 1) \div 2] ELSE h[i]]
    <3>1. h = [i \in 1 .. k - 1 |-> IF i = 1 THEN 1 ELSE 2 * h[(i + 1) \div 2]]
      BY <2>3 DEF IsSize
    <3>2. ASSUME NEW i \in 1 .. k, i # 1
          PROVE  f[(i + 1) \div 2] = h[(i + 1) \div 2]
      <4>1. (i + 1) \div 2 \in 1 .. i - 1
        BY <3>2, HalfUp
      <4>2. (i + 1) \div 2 \in 1 .. k /\ (i + 1) \div 2 # k
        BY <2>2, <4>1
      <4> QED BY <4>2
    <3>3. ASSUME NEW i \in 1 .. k
          PROVE  f[i] = IF i = 1 THEN 1 ELSE 2 * f[(i + 1) \div 2]
      <4>1. CASE i = k
        BY <3>2, <4>1
      <4>2. CASE i # k
        <5>1. i \in 1 .. k - 1 /\ f[i] = h[i]
          BY <2>2, <4>2
        <5>2. h[i] = IF i = 1 THEN 1 ELSE 2 * h[(i + 1) \div 2]
          BY <3>1, <5>1
        <5> QED BY <3>2, <5>1, <5>2
      <4> QED BY <4>1, <4>2
    <3>4. f = [i \in 1 .. k |-> f[i]]
      OBVIOUS
    <3> HIDE DEF f
    <3>5. IsSize(f, k)
      BY <3>3, <3>4 DEF IsSize
    <3> QED BY <3>5
  <2> QED BY <2>2, <2>3
<1>2. S \in SUBSET Nat
  OBVIOUS
<1> HIDE DEF S
<1>3. S = {}
  BY <1>1, <1>2, NoFirst
<1> QED BY <1>3 DEF S

LEMMA SizeStep ==
  ASSUME NEW n \in 1 .. MaxChains
  PROVE  size[n] = IF n = 1 THEN 1 ELSE 2 * size[(n + 1) \div 2]
<1>1. IsSize(size, MaxChains)
  <2>1. \E f : IsSize(f, MaxChains)
    BY MerkleAssumption, SizeExists
  <2> QED BY <2>1, SizeIs
<1>2. size = [k \in 1 .. MaxChains |-> IF k = 1 THEN 1 ELSE 2 * size[(k + 1) \div 2]]
  BY <1>1 DEF IsSize
<1> QED BY <1>2

\* The tree has a leaf for each chain, and is halved down to its root.
LEMMA SizeFits ==
  ASSUME NEW n \in 1 .. MaxChains
  PROVE  /\ size[n] \in Nat /\ size[n] >= n
         /\ size[n] > 1 => \E m \in 1 .. MaxChains : size[n] = 2 * size[m]
<1> DEFINE S == {k \in 1 .. MaxChains : ~ (size[k] \in Nat /\ size[k] >= k)}
<1>0. MaxChains \in Nat
  BY MerkleAssumption
<1>1. \A k \in 1 .. MaxChains : k > 1 =>
         /\ (k + 1) \div 2 \in 1 .. MaxChains /\ (k + 1) \div 2 < k
         /\ 2 * ((k + 1) \div 2) >= k /\ size[k] = 2 * size[(k + 1) \div 2]
  <2> SUFFICES ASSUME NEW k \in 1 .. MaxChains, k > 1
               PROVE  /\ (k + 1) \div 2 \in 1 .. MaxChains /\ (k + 1) \div 2 < k
                      /\ 2 * ((k + 1) \div 2) >= k /\ size[k] = 2 * size[(k + 1) \div 2]
    OBVIOUS
  <2>1. (k + 1) \div 2 \in 1 .. k - 1 /\ 2 * ((k + 1) \div 2) >= k
    BY <1>0, HalfUp
  <2> QED BY <1>0, <2>1, SizeStep
<1>2. \A k \in S : \E m \in S : m < k
  <2> SUFFICES ASSUME NEW k \in S PROVE \E m \in S : m < k
    OBVIOUS
  <2>1. k > 1
    <3>1. k = 1 => size[k] = 1
      BY SizeStep
    <3> QED BY <1>0, <3>1
  <2> DEFINE m == (k + 1) \div 2
  <2>2. m \in 1 .. MaxChains /\ m < k /\ 2 * m >= k /\ size[k] = 2 * size[m]
    BY <1>1, <2>1
  <2>3. m \notin S => FALSE
    <3> HIDE DEF m
    <3> QED BY <1>0, <2>2
  <2> QED BY <2>2, <2>3
<1>3. S \in SUBSET Nat
  BY <1>0
<1> HIDE DEF S
<1>4. S = {}
  BY <1>2, <1>3, NoFirst
<1>5. size[n] \in Nat /\ size[n] >= n
  BY <1>4 DEF S
<1>6. n = 1 => size[n] = 1
  BY SizeStep
<1> QED BY <1>0, <1>1, <1>5, <1>6

-----------------------------------------------------------------------------
(***************************************************************************)
(* The Merkle proof: the way from a chain to the root.                     *)
(***************************************************************************)

\* What is hashed for the node above node and its sibling s.
Joined(at, node, s) == IF at % 2 = 1 THEN <<s, node>> ELSE <<node, s>>

\* hi is a level above lo, whose sibling is s.
Above(lo, hi, s) ==
    /\ lo.width = 2 * hi.width /\ hi.at = lo.at \div 2
    /\ hi.node = Joined(lo.at, lo.node, s)
    /\ s # lo.node

\* x describes the first k levels of the way of chain c to the root: the node, its
\* place, and the width of the level.  The proof p has the siblings.
Trail(x, k, p, c) ==
    /\ k \in Nat \ {0}
    /\ x[1].node = p[1] /\ x[1].at = c
    /\ \A i \in 1 .. k : /\ x[i].width \in Nat /\ x[i].at \in Nat
                         /\ x[i].at < x[i].width
    /\ \A i \in 1 .. k - 1 : Above(x[i], x[i + 1], p[i + 1])

\* The node that is proved differs from all others of its level.
Single(r, i) == \A j \in 1 .. Len(r) : j # i + 1 => r[j] # r[i + 1]

Claimed ==
    /\ made[2] \in Nat /\ made = <<made[2] + 1, made[2]>>
    /\ claim[2] \in Nat /\ claim = <<claim[1], claim[2]>>

\* While the proof is made, it follows the chain it is made for.
Proving ==
    verdict = "proving" =>
      /\ IsList(proof) /\ step = 2
      /\ proof[1] = Leaf(made[1]) /\ hash = Leaf(claim[1])
      /\ \E n \in 1 .. MaxChains : Len(row) = size[n]
      /\ Single(row, index)
      /\ \E x : /\ Trail(x, Len(proof), proof, made[2])
                /\ x[Len(proof)] = [node |-> row[index + 1], at |-> index,
                                    width |-> Len(row)]
                /\ claim[2] < x[1].width

\* While it is checked, what is claimed follows the same way if it is true, and
\* never comes to it from somewhere else.
Checking ==
    verdict = "checking" =>
      /\ IsList(proof) /\ step \in 2 .. Len(proof)
      /\ \E x : /\ Trail(x, Len(proof) - 1, proof, made[2])
                /\ x[Len(proof) - 1].node = row[1] /\ x[Len(proof) - 1].width = 1
                /\ row[1] = proof[Len(proof)]
                /\ index \in Nat /\ index < x[step - 1].width
                /\ hash = x[step - 1].node /\ index = x[step - 1].at
                   <=> claim = made

MerkleInv == IF running = "merkle" THEN Claimed /\ Proving /\ Checking /\ ProofBinds
                                  ELSE verdict = "none"

\* A level more.
LEMMA TrailGrows ==
  ASSUME NEW p, IsList(p), NEW x, NEW c, Trail(x, Len(p), p, c),
         NEW s, NEW hi, hi.at \in Nat, hi.width \in Nat, hi.at < hi.width,
         Above(x[Len(p)], hi, s)
  PROVE  \E y : /\ Trail(y, Len(p) + 1, Append(p, s), c)
                /\ y[Len(p) + 1] = hi /\ y[1] = x[1]
<1> DEFINE k == Len(p)
           y == [i \in 1 .. k + 1 |-> IF i = k + 1 THEN hi ELSE x[i]]
           q == Append(p, s)
<1>1. k \in Nat \ {0}
  BY DEF Trail
<1>2. q[k + 1] = s /\ \A i \in 1 .. k : q[i] = p[i]
  BY ListAppend
<1>3. y[k + 1] = hi /\ \A i \in 1 .. k : y[i] = x[i]
  BY <1>1
<1>5. Above(x[k], hi, s)
  OBVIOUS
<1>6. /\ x[1].node = p[1] /\ x[1].at = c
      /\ \A i \in 1 .. k : x[i].width \in Nat /\ x[i].at \in Nat /\ x[i].at < x[i].width
      /\ \A i \in 1 .. k - 1 : Above(x[i], x[i + 1], p[i + 1])
  BY DEF Trail
<1> HIDE DEF k, y, q
<1>7. \A i \in 1 .. k + 1 : y[i].width \in Nat /\ y[i].at \in Nat /\ y[i].at < y[i].width
  <2> TAKE i \in 1 .. k + 1
  <2>1. CASE i = k + 1
    BY <1>3, <2>1
  <2>2. CASE i # k + 1
    <3>1. i \in 1 .. k
      BY <1>1, <2>2
    <3> QED BY <1>3, <1>6, <3>1
  <2> QED BY <2>1, <2>2
<1>8. \A i \in 1 .. (k + 1) - 1 : Above(y[i], y[i + 1], q[i + 1])
  <2> TAKE i \in 1 .. (k + 1) - 1
  <2>1. CASE i = k
    BY <1>1, <1>2, <1>3, <1>5, <2>1
  <2>2. CASE i # k
    <3>1. i \in 1 .. k - 1 /\ i \in 1 .. k /\ i + 1 \in 1 .. k
      BY <1>1, <2>2
    <3>2. Above(x[i], x[i + 1], p[i + 1])
      BY <1>6, <3>1
    <3> QED BY <1>2, <1>3, <3>1, <3>2
  <2> QED BY <2>1, <2>2
<1>9. 1 \in 1 .. k /\ k + 1 \in Nat \ {0}
  BY <1>1
<1>10. Trail(y, k + 1, q, c)
  BY <1>2, <1>3, <1>6, <1>7, <1>8, <1>9 DEF Trail
<1>11. y[k + 1] = hi /\ y[1] = x[1]
  BY <1>3, <1>9
<1> QED BY <1>10, <1>11 DEF k, q

\* The trail is the same for a proof with the same siblings.
LEMMA TrailSame ==
  ASSUME NEW x, NEW k, NEW p, NEW c, Trail(x, k, p, c), NEW q,
         \A i \in 1 .. k : q[i] = p[i]
  PROVE  Trail(x, k, q, c)
<1>1. k \in Nat \ {0} /\ \A i \in 1 .. k - 1 : i + 1 \in 1 .. k
  BY DEF Trail
<1>2. 1 \in 1 .. k
  BY <1>1
<1>3. \A i \in 1 .. k - 1 : q[i + 1] = p[i + 1]
  BY <1>1
<1> QED BY <1>1, <1>2, <1>3 DEF Trail

\* Two nodes above one sibling are the same only if the nodes below are, on the same side.
LEMMA JoinedOnce ==
  ASSUME NEW a \in Nat, NEW b \in Nat, NEW h, NEW n, NEW s, s # n
  PROVE  /\ Joined(a, h, s) = Joined(b, n, s) <=> h = n /\ a % 2 = b % 2
         /\ a % 2 = b % 2 /\ a \div 2 = b \div 2 <=> a = b
<1>1. a % 2 \in {0, 1} /\ b % 2 \in {0, 1}
  OBVIOUS
<1>2. Joined(a, h, s) = Joined(b, n, s) <=> h = n /\ a % 2 = b % 2
  BY <1>1 DEF Joined
<1>3. a % 2 = b % 2 /\ a \div 2 = b \div 2 <=> a = b
  OBVIOUS
<1> QED BY <1>2, <1>3

\* The place of the sibling of i.
Sibling(i) == IF i % 2 = 1 THEN i - 1 ELSE i + 1

\* One level of compute_merkle_tree_root: the node above the one that is proved is
\* the only one of its level again.
LEMMA PairsLevel ==
  ASSUME NEW r, \E n \in 1 .. MaxChains : Len(r) = size[n], Len(r) > 1,
         NEW i \in Nat, i < Len(r), Single(r, i)
  PROVE  /\ \E m \in 1 .. MaxChains : Len(Pairs(r)) = size[m]
         /\ Len(r) = 2 * Len(Pairs(r))
         /\ i \div 2 \in Nat /\ i \div 2 < Len(Pairs(r))
         /\ Pairs(r)[i \div 2 + 1] = Joined(i, r[i + 1], r[Sibling(i) + 1])
         /\ r[Sibling(i) + 1] # r[i + 1]
         /\ Single(Pairs(r), i \div 2)
<1> DEFINE q == Pairs(r)
           h == i \div 2
           s == Sibling(i)
<1>0. s = IF i % 2 = 1 THEN i - 1 ELSE i + 1
  BY DEF Sibling
<1> HIDE DEF s
<1>1. PICK m \in 1 .. MaxChains : Len(r) = 2 * size[m] /\ size[m] \in Nat
  BY SizeFits
<1>2. Len(r) \div 2 = size[m]
  BY <1>1
<1>3. q = [j \in 1 .. size[m] |-> <<r[2 * j - 1], r[2 * j]>>]
  BY <1>2 DEF Pairs
<1> HIDE DEF q
<1>4. Len(q) = size[m]
  <2>1. DOMAIN q = 1 .. size[m] /\ q = [j \in 1 .. size[m] |-> q[j]]
    BY <1>3
  <2> QED BY <1>1, <2>1, RowLen
<1>5. h \in Nat /\ h < size[m] /\ (i % 2 = 1 => i = 2 * h + 1) /\ (i % 2 # 1 => i = 2 * h)
  BY <1>1
<1> HIDE DEF h
<1>6. h + 1 \in 1 .. size[m]
  BY <1>1, <1>5
<1>7. q[h + 1] = <<r[2 * h + 1], r[2 * h + 2]>>
  <2>1. q[h + 1] = <<r[2 * (h + 1) - 1], r[2 * (h + 1)]>>
    BY <1>3, <1>6
  <2>2. 2 * (h + 1) - 1 = 2 * h + 1 /\ 2 * (h + 1) = 2 * h + 2
    BY <1>5
  <2> QED BY <2>1, <2>2
<1>8. CASE i % 2 = 1
  <2>1. i + 1 = 2 * h + 2 /\ s + 1 = 2 * h + 1
    BY <1>0, <1>5, <1>8
  <2>2. q[h + 1] = Joined(i, r[i + 1], r[s + 1])
    BY <1>7, <1>8, <2>1 DEF Joined
  <2>3. r[s + 1] # r[i + 1]
    <3>1. s + 1 \in 1 .. Len(r) /\ s + 1 # i + 1
      BY <1>1, <1>5, <1>6, <2>1
    <3> QED BY <3>1 DEF Single
  <2>4. ASSUME NEW j \in 1 .. size[m], j # h + 1
        PROVE  q[j] # q[h + 1]
    <3>1. q[j] = <<r[2 * j - 1], r[2 * j]>>
      BY <1>3
    <3>2. 2 * j \in 1 .. Len(r) /\ 2 * j # i + 1
      BY <1>1, <1>5, <2>1, <2>4
    <3>3. r[2 * j] # r[i + 1]
      BY <3>2 DEF Single
    <3> QED BY <1>7, <2>1, <3>1, <3>3
  <2> QED BY <1>1, <1>4, <1>5, <2>2, <2>3, <2>4 DEF h, q, s, Single
<1>9. CASE i % 2 # 1
  <2>1. i + 1 = 2 * h + 1 /\ s + 1 = 2 * h + 2
    BY <1>0, <1>5, <1>9
  <2>2. q[h + 1] = Joined(i, r[i + 1], r[s + 1])
    BY <1>7, <1>9, <2>1 DEF Joined
  <2>3. r[s + 1] # r[i + 1]
    <3>1. s + 1 \in 1 .. Len(r) /\ s + 1 # i + 1
      BY <1>1, <1>5, <1>6, <2>1
    <3> QED BY <3>1 DEF Single
  <2>4. ASSUME NEW j \in 1 .. size[m], j # h + 1
        PROVE  q[j] # q[h + 1]
    <3>1. q[j] = <<r[2 * j - 1], r[2 * j]>>
      BY <1>3
    <3>2. 2 * j - 1 \in 1 .. Len(r) /\ 2 * j - 1 # i + 1
      BY <1>1, <1>5, <2>1, <2>4
    <3>3. r[2 * j - 1] # r[i + 1]
      BY <3>2 DEF Single
    <3> QED BY <1>7, <2>1, <3>1, <3>3
  <2> QED BY <1>1, <1>4, <1>5, <2>2, <2>3, <2>4 DEF h, q, s, Single
<1> QED BY <1>8, <1>9

LEMMA ProveLevelKeeps ==
  ASSUME Claimed, Proving, ProveLevel
  PROVE  Claimed' /\ Proving' /\ Checking' /\ ProofBinds'
<1> DEFINE s == Sibling(index)
           k == Len(proof)
           sib == row[s + 1]
<1>1. /\ verdict = "proving" /\ Len(row) > 1
      /\ proof' = Append(proof, sib) /\ row' = Pairs(row) /\ index' = index \div 2
      /\ UNCHANGED <<claim, hash, step, verdict, made>>
  BY DEF ProveLevel, Sibling
<1>2. /\ IsList(proof) /\ step = 2 /\ proof[1] = Leaf(made[1]) /\ hash = Leaf(claim[1])
      /\ Single(row, index)
  BY <1>1 DEF Proving
<1>3. PICK n \in 1 .. MaxChains : Len(row) = size[n]
  BY <1>1 DEF Proving
<1>4. PICK x : /\ Trail(x, k, proof, made[2])
               /\ x[k] = [node |-> row[index + 1], at |-> index, width |-> Len(row)]
               /\ claim[2] < x[1].width
  BY <1>1 DEF Proving
<1>5. k \in Nat \ {0} /\ index \in Nat /\ index < Len(row)
  <2>1. k \in Nat \ {0} /\ k \in 1 .. k
    BY <1>4 DEF Trail
  <2>2. x[k].at \in Nat /\ x[k].at < x[k].width
    BY <1>4, <2>1 DEF Trail
  <2> QED BY <1>4, <2>1, <2>2
<1>6. /\ \E m \in 1 .. MaxChains : Len(row') = size[m]
      /\ Len(row) = 2 * Len(row')
      /\ index' \in Nat /\ index' < Len(row')
      /\ row'[index' + 1] = Joined(index, row[index + 1], sib)
      /\ sib # row[index + 1]
      /\ Single(row', index')
  <2>2. /\ \E m \in 1 .. MaxChains : Len(Pairs(row)) = size[m]
        /\ Len(row) = 2 * Len(Pairs(row))
        /\ index \div 2 \in Nat /\ index \div 2 < Len(Pairs(row))
        /\ Pairs(row)[index \div 2 + 1] = Joined(index, row[index + 1], row[s + 1])
        /\ row[s + 1] # row[index + 1]
        /\ Single(Pairs(row), index \div 2)
    BY <1>1, <1>2, <1>3, <1>5, PairsLevel
  <2> QED BY <1>1, <2>2
<1>7. Len(row') \in Nat
  <2>1. PICK m \in 1 .. MaxChains : Len(row') = size[m]
    BY <1>6
  <2> QED BY <2>1, SizeFits
<1> DEFINE hi == [node |-> row'[index' + 1], at |-> index', width |-> Len(row')]
<1> HIDE DEF s, sib
<1>8. Above(x[k], hi, sib)
  <2>1. x[k].width = Len(row) /\ x[k].at = index /\ x[k].node = row[index + 1]
    BY <1>4
  <2>2. hi.width = Len(row') /\ hi.at = index \div 2
        /\ hi.node = Joined(index, row[index + 1], sib)
    BY <1>1, <1>6
  <2> HIDE DEF hi
  <2> QED BY <1>6, <2>1, <2>2 DEF Above
<1>9. PICK y : /\ Trail(y, k + 1, Append(proof, sib), made[2])
               /\ y[k + 1] = hi /\ y[1] = x[1]
  <2>1. hi.at \in Nat /\ hi.width \in Nat /\ hi.at < hi.width
    BY <1>6, <1>7
  <2> HIDE DEF hi
  <2> QED BY <1>2, <1>4, <1>8, <2>1, TrailGrows
<1>10. /\ IsList(proof') /\ Len(proof') = k + 1 /\ proof'[1] = proof[1]
  BY <1>1, <1>2, <1>5, ListAppend
<1>11. Proving'
  <2>1. /\ IsList(proof') /\ step' = 2
        /\ proof'[1] = Leaf(made'[1]) /\ hash' = Leaf(claim'[1])
    BY <1>1, <1>2, <1>10
  <2>2. /\ Trail(y, Len(proof'), proof', made'[2])
        /\ y[Len(proof')] = hi /\ claim'[2] < y[1].width
    BY <1>1, <1>4, <1>9, <1>10
  <2> QED BY <1>6, <2>1, <2>2 DEF Proving
<1>12. Claimed' /\ Checking' /\ ProofBinds'
  BY <1>1 DEF Checking, ProofBinds, Claimed
<1> QED BY <1>11, <1>12


\* The leaf of the block that is claimed is one of the two the proof starts with only
\* if it is the right one or the sibling of the chain.
LEMMA ProvedKeeps ==
  ASSUME Claimed, Proving, Proved
  PROVE  Claimed' /\ Proving' /\ Checking' /\ ProofBinds'
<1> DEFINE k == Len(proof)
<1>1. /\ verdict = "proving" /\ Len(row) = 1
      /\ proof' = Append(proof, row[1]) /\ index' = claim[2]
      /\ verdict' = IF hash \in {proof'[1], proof'[2]} THEN "checking" ELSE "false"
      /\ UNCHANGED <<row, claim, hash, step, made>>
  BY DEF Proved
<1>2. /\ IsList(proof) /\ step = 2 /\ proof[1] = Leaf(made[1]) /\ hash = Leaf(claim[1])
  BY <1>1 DEF Proving
<1>3. PICK x : /\ Trail(x, k, proof, made[2])
               /\ x[k] = [node |-> row[index + 1], at |-> index, width |-> Len(row)]
               /\ claim[2] < x[1].width
  BY <1>1 DEF Proving
<1>4. k \in Nat \ {0} /\ 1 \in 1 .. k /\ k \in 1 .. k
  BY <1>3 DEF Trail
<1>5. x[k].at \in Nat /\ x[k].at < x[k].width
  BY <1>3, <1>4 DEF Trail
<1>6. index = 0 /\ x[k].node = row[1] /\ x[k].width = 1
  BY <1>1, <1>3, <1>5
<1>7. /\ IsList(proof') /\ Len(proof') = k + 1 /\ proof'[k + 1] = row[1]
      /\ \A i \in 1 .. k : proof'[i] = proof[i]
  BY <1>1, <1>2, ListAppend
<1>8. proof'[1] = Leaf(made[1]) /\ Trail(x, k, proof', made[2])
  BY <1>2, <1>3, <1>4, <1>7, TrailSame
<1>9. x[1].node = Leaf(made[1]) /\ x[1].at = made[2]
  BY <1>8 DEF Trail
<1>10. /\ made[2] \in Nat /\ made = <<made[2] + 1, made[2]>>
       /\ claim[2] \in Nat /\ claim = <<claim[1], claim[2]>>
  BY DEF Claimed
<1>11. hash = x[1].node /\ claim[2] = x[1].at <=> claim = made
  <2>1. hash = x[1].node <=> claim[1] = made[1]
    BY <1>2, <1>9 DEF Leaf
  <2> QED BY <1>9, <1>10, <2>1
<1>12. Checking'
  <2>1. step' = 2 /\ step' \in 2 .. Len(proof') /\ step' - 1 = 1 /\ Len(proof') - 1 = k
    BY <1>1, <1>2, <1>4, <1>7
  <2>2. row'[1] = proof'[Len(proof')] /\ x[k].node = row'[1]
    BY <1>1, <1>6, <1>7
  <2>3. index' \in Nat /\ index' < x[step' - 1].width
    BY <1>1, <1>3, <1>10, <2>1
  <2>4. hash' = x[step' - 1].node /\ index' = x[step' - 1].at <=> claim' = made'
    BY <1>1, <1>11, <2>1
  <2>5. Trail(x, Len(proof') - 1, proof', made'[2])
    BY <1>1, <1>8, <2>1
  <2>6. x[Len(proof') - 1].node = row'[1] /\ x[Len(proof') - 1].width = 1
    BY <1>6, <2>1, <2>2
  <2> QED BY <1>7, <2>1, <2>2, <2>3, <2>4, <2>5, <2>6 DEF Checking
<1>13. ProofBinds'
  <2>1. ASSUME claim = made
        PROVE  hash = proof'[1]
    BY <1>2, <1>8, <2>1
  <2> QED BY <1>1, <2>1 DEF ProofBinds
<1>14. Claimed' /\ Proving'
  BY <1>1 DEF Claimed, Proving
<1> QED BY <1>12, <1>13, <1>14

LEMMA CheckLevelKeeps ==
  ASSUME Claimed, Checking, CheckLevel
  PROVE  Claimed' /\ Proving' /\ Checking' /\ ProofBinds'
<1>1. /\ verdict = "checking" /\ step < Len(proof)
      /\ hash' = IF index % 2 = 1 THEN <<proof[step], hash>> ELSE <<hash, proof[step]>>
      /\ step' = step + 1 /\ index' = index \div 2
      /\ UNCHANGED <<row, proof, claim, verdict, made>>
  BY DEF CheckLevel
<1>2. PICK x : /\ Trail(x, Len(proof) - 1, proof, made[2])
               /\ x[Len(proof) - 1].node = row[1] /\ x[Len(proof) - 1].width = 1
               /\ row[1] = proof[Len(proof)]
               /\ index \in Nat /\ index < x[step - 1].width
               /\ hash = x[step - 1].node /\ index = x[step - 1].at <=> claim = made
  BY <1>1 DEF Checking
<1>3. IsList(proof) /\ step \in 2 .. Len(proof) /\ Len(proof) \in Nat
  <2>1. IsList(proof) /\ step \in 2 .. Len(proof) /\ Len(proof) - 1 \in Nat
    BY <1>1, <1>2 DEF Checking, Trail
  <2>2. PICK T : proof \in Seq(T)
    BY <2>1 DEF IsList
  <2> QED BY <2>1, <2>2, LenProperties
<1> DEFINE k == Len(proof) - 1
           lo == x[step - 1]
           hi == x[step]
           sib == proof[step]
<1>4. step - 1 \in 1 .. k - 1 /\ step - 1 \in 1 .. k /\ step \in 1 .. k /\ (step - 1) + 1 = step
  BY <1>1, <1>3
<1>5. Above(lo, hi, sib)
  BY <1>2, <1>4 DEF Trail
<1>6. /\ lo.width \in Nat /\ lo.at \in Nat /\ lo.at < lo.width
      /\ hi.width \in Nat /\ hi.at \in Nat /\ hi.at < hi.width
  BY <1>2, <1>4 DEF Trail
<1>7. hash' = Joined(index, hash, sib)
  BY <1>1 DEF Joined
<1> HIDE DEF k, lo, hi, sib
<1>8. /\ lo.width = 2 * hi.width /\ hi.at = lo.at \div 2
      /\ hi.node = Joined(lo.at, lo.node, sib) /\ sib # lo.node
  BY <1>5 DEF Above
<1>9. index \in Nat /\ index < lo.width /\ (hash = lo.node /\ index = lo.at <=> claim = made)
  BY <1>2 DEF lo
<1>10. hash' = hi.node /\ index' = hi.at <=> claim = made
  <2>1. Joined(index, hash, sib) = Joined(lo.at, lo.node, sib)
          <=> hash = lo.node /\ index % 2 = lo.at % 2
    BY <1>6, <1>8, <1>9, JoinedOnce
  <2>2. index % 2 = lo.at % 2 /\ index \div 2 = lo.at \div 2 <=> index = lo.at
    BY <1>6, <1>9
  <2> QED BY <1>1, <1>7, <1>8, <1>9, <2>1, <2>2
<1>11. index' \in Nat /\ index' < hi.width
  BY <1>1, <1>6, <1>8, <1>9
<1>12. Checking'
  <2>1. step' \in 2 .. Len(proof') /\ step' - 1 = step
    BY <1>1, <1>3
  <2>2. x[step' - 1] = hi
    BY <2>1 DEF hi
  <2> QED BY <1>1, <1>2, <1>3, <1>10, <1>11, <2>1, <2>2 DEF Checking
<1>13. Claimed' /\ Proving' /\ ProofBinds'
  BY <1>1 DEF Claimed, Proving, ProofBinds
<1> QED BY <1>12, <1>13

LEMMA CheckedKeeps ==
  ASSUME Claimed, Checking, Checked
  PROVE  Claimed' /\ Proving' /\ Checking' /\ ProofBinds'
<1>1. /\ verdict = "checking" /\ step = Len(proof)
      /\ verdict' = IF proof[step] = hash /\ row[1] = hash THEN "true" ELSE "false"
      /\ UNCHANGED <<row, index, proof, claim, hash, step, made>>
  BY DEF Checked
<1>2. PICK x : /\ Trail(x, Len(proof) - 1, proof, made[2])
               /\ x[Len(proof) - 1].node = row[1] /\ x[Len(proof) - 1].width = 1
               /\ row[1] = proof[Len(proof)]
               /\ index \in Nat /\ index < x[step - 1].width
               /\ hash = x[step - 1].node /\ index = x[step - 1].at <=> claim = made
  BY <1>1 DEF Checking
<1>3. /\ x[step - 1].node = row[1] /\ x[step - 1].width = 1 /\ row[1] = proof[step]
  BY <1>1, <1>2
<1>4. x[step - 1].at = 0 /\ index = 0
  <2>1. step - 1 \in Nat \ {0} /\ step - 1 \in 1 .. step - 1
    BY <1>1, <1>2 DEF Trail
  <2>2. x[step - 1].at \in Nat /\ x[step - 1].at < x[step - 1].width
    BY <1>1, <1>2, <2>1 DEF Trail
  <2> QED BY <1>2, <1>3, <2>2
<1>5. hash = row[1] <=> claim = made
  BY <1>2, <1>3, <1>4
<1>6. ProofBinds'
  BY <1>1, <1>3, <1>5 DEF ProofBinds
<1> QED BY <1>1, <1>6 DEF Claimed, Proving, Checking


LEMMA MerkleStarts == ASSUME MerkleInit PROVE Claimed /\ Proving /\ Checking /\ ProofBinds
<1>1. PICK n \in 1 .. MaxChains : \E c, d \in 0 .. n - 1 : \E b \in 1 .. n + 1 :
        /\ row = Leaves(n) /\ index = c /\ proof = <<Leaves(n)[c + 1]>>
        /\ claim = <<b, d>> /\ hash = Leaf(b) /\ step = 2
        /\ verdict = "proving" /\ made = <<c + 1, c>>
  BY DEF MerkleInit
<1>2. PICK c \in 0 .. n - 1, d \in 0 .. n - 1, b \in 1 .. n + 1 :
        /\ row = Leaves(n) /\ index = c /\ proof = <<Leaves(n)[c + 1]>>
        /\ claim = <<b, d>> /\ hash = Leaf(b) /\ step = 2
        /\ verdict = "proving" /\ made = <<c + 1, c>>
  <2>1. PICK c \in 0 .. n - 1, d \in 0 .. n - 1 : \E b \in 1 .. n + 1 :
          /\ row = Leaves(n) /\ index = c /\ proof = <<Leaves(n)[c + 1]>>
          /\ claim = <<b, d>> /\ hash = Leaf(b) /\ step = 2
          /\ verdict = "proving" /\ made = <<c + 1, c>>
    BY <1>1
  <2> QED BY <2>1
<1>3. n \in Nat /\ c \in Nat /\ d \in Nat /\ c < n /\ d < n
  BY MerkleAssumption
<1>4. size[n] \in Nat /\ size[n] >= n
  BY SizeFits
<1>5. \A i \in 1 .. size[n] : row[i] = IF i <= n THEN <<i>> ELSE <<0>>
  BY <1>2 DEF Leaves, Leaf, EMPTY_LEAF
<1>6. Len(row) = size[n]
  <2>1. DOMAIN row = 1 .. size[n] /\ row = [i \in 1 .. size[n] |-> row[i]]
    BY <1>2 DEF Leaves
  <2> QED BY <1>4, <2>1, RowLen
<1>7. c + 1 \in 1 .. size[n] /\ c + 1 <= n /\ row[c + 1] = <<c + 1>>
  <2>1. c + 1 \in 1 .. size[n] /\ c + 1 <= n
    BY <1>3, <1>4
  <2> QED BY <1>5, <2>1
<1>8. Single(row, index)
  <2> SUFFICES ASSUME NEW j \in 1 .. size[n], j # c + 1
               PROVE  row[j] # row[c + 1]
    BY <1>2, <1>6 DEF Single
  <2>1. row[j] = <<j>> \/ row[j] = <<0>>
    BY <1>5
  <2> QED BY <1>3, <1>7, <2>1
<1>9. proof = <<row[c + 1]>> /\ IsList(proof) /\ Len(proof) = 1 /\ proof[1] = row[c + 1]
  <2>1. proof \in Seq({row[c + 1]})
    BY <1>2
  <2> QED BY <1>2, <2>1 DEF IsList
<1> DEFINE e == [node |-> row[index + 1], at |-> index, width |-> Len(row)]
           x == <<e>>
<1>10. x[1] = e /\ e.node = proof[1] /\ e.at = c /\ e.width = size[n]
  BY <1>2, <1>6, <1>9
<1> HIDE DEF e, x
<1>11. Trail(x, 1, proof, made[2])
  BY <1>2, <1>3, <1>4, <1>10 DEF Trail
<1>12. claim[2] < x[1].width
  BY <1>2, <1>3, <1>4, <1>10
<1>13. Proving
  <2>1. x[Len(proof)] = [node |-> row[index + 1], at |-> index, width |-> Len(row)]
    BY <1>9, <1>10 DEF e
  <2>2. proof[1] = Leaf(made[1]) /\ hash = Leaf(claim[1])
    BY <1>2, <1>7, <1>9 DEF Leaf
  <2> QED BY <1>2, <1>6, <1>8, <1>9, <1>11, <1>12, <2>1, <2>2 DEF Proving
<1>14. Claimed /\ Checking /\ ProofBinds
  BY <1>2, <1>3 DEF Claimed, Checking, ProofBinds
<1> QED BY <1>13, <1>14

LEMMA MerkleInvKept == Spec => []MerkleInv
<1>1. Init => MerkleInv
  BY MerkleStarts DEF Init, NoMerkle, MerkleInv
<1>2. MerkleInv /\ [Next]_vars => MerkleInv'
  <2> SUFFICES ASSUME MerkleInv, [Next]_vars PROVE MerkleInv'
    OBVIOUS
  <2> USE DEF MerkleInv
  <2>1. CASE running = "merkle"
    <3>1. running' = "merkle" /\ (MerkleNext \/ UNCHANGED merkleVars)
      BY <2>1 DEF Next, vars
    <3>2. CASE MerkleNext
      BY <2>1, <3>1, <3>2, ProveLevelKeeps, ProvedKeeps, CheckLevelKeeps, CheckedKeeps
         DEF MerkleNext
    <3>3. CASE UNCHANGED merkleVars
      BY <2>1, <3>1, <3>3 DEF merkleVars, Claimed, Proving, Checking, ProofBinds
    <3> QED BY <3>1, <3>2, <3>3
  <2>2. CASE running # "merkle"
    <3>1. running' = running /\ verdict' = verdict
      BY <2>2 DEF Next, vars, merkleVars
    <3> QED BY <2>2, <3>1
  <2> QED BY <2>1, <2>2
<1> QED BY <1>1, <1>2, PTL DEF Spec

\* A proof is accepted for the block and the chain it was made for and for no other, for
\* any number of chains (compute_merkle_proof, verify_merkle_proof).
THEOREM ProofBindsHolds == Spec => []ProofBinds
<1>1. MerkleInv => ProofBinds
  BY DEF MerkleInv, ProofBinds
<1> QED BY <1>1, MerkleInvKept, PTL


-----------------------------------------------------------------------------
(***************************************************************************)
(* The search tree: what is reached.                                       *)
(***************************************************************************)

\* A set of pointers that the search for h, or that any way down, does not leave.
SearchClosed(S, h) ==
    root \in S /\ \A y \in S \ {0, h} : child[y][IF y > h THEN "left" ELSE "right"] \in S
Closed(S) == root \in S /\ \A y \in S \ {0} : \A s \in Side : child[y][s] \in S

TreeType ==
    /\ root \in Hashes
    /\ child \in [Hashes -> [Side -> Hashes \cup {0}]]
    /\ todo \in [Thread -> Seq(Hashes)]
    /\ path \in [Thread -> Seq([node : Hashes, side : Side, read : Hashes \cup {0}])]
    /\ phase \in [Thread -> {"idle", "down", "up"}]
    /\ value \in [Thread -> Hashes \cup {0}]
    /\ added \in SUBSET Hashes
    /\ clashed \in BOOLEAN

LEMMA NoZero == 0 \notin Hashes /\ \A h \in Hashes : h \in Nat
BY TreeAssumption

LEMMA RootReached == ASSUME TreeType PROVE root \in Reachable
BY DEF TreeType, Reachable

\* What a node that is reached points to is reached.
LEMMA ReachedOn ==
  ASSUME TreeType, NEW x \in Reachable, NEW s \in Side, child[x][s] # 0
  PROVE  child[x][s] \in Reachable
<1>1. x \in Hashes /\ child[x][s] \in Hashes
  BY DEF TreeType, Reachable
<1>2. ASSUME NEW S \in SUBSET (Hashes \cup {0}), Closed(S)
      PROVE  child[x][s] \in S
  <2>1. x \in S
    BY <1>2 DEF Reachable, Closed
  <2> QED BY <1>1, <1>2, <2>1, NoZero DEF Closed
<1> QED BY <1>1, <1>2 DEF Reachable, Closed

\* As long as pointers are only set where there were none, all nodes stay reached.
LEMMA ReachedStay ==
  ASSUME TreeType, root' = root,
         \A h \in Hashes, s \in Side : child[h][s] = 0 \/ child'[h][s] = child[h][s]
  PROVE  Reachable \subseteq Reachable'
<1> SUFFICES ASSUME NEW x \in Reachable, NEW S \in SUBSET (Hashes \cup {0}), Closed(S)'
             PROVE  x \in S
  BY DEF Reachable, Closed
<1> DEFINE U == S \cup {0}
<1>1. root \in U /\ U \in SUBSET (Hashes \cup {0})
  BY DEF Closed
<1>2. \A y \in U \ {0} : \A s \in Side : child[y][s] \in U
  <2> TAKE y \in U \ {0}
  <2> TAKE s \in Side
  <2>1. y \in Hashes /\ child'[y][s] \in S
    BY DEF Closed
  <2> QED BY <2>1
<1> HIDE DEF U
<1>3. x \in U /\ x # 0
  BY <1>1, <1>2, NoZero DEF Reachable
<1> QED BY <1>3 DEF U

-----------------------------------------------------------------------------
(***************************************************************************)
(* The search tree: its places.  A place is the set of the nodes above it, *)
(* each with the side on which the way to the place leaves it.  A node     *)
(* gets its place A[h] when its insertion comes to a null pointer, and     *)
(* keeps it: two nodes may have the same place, and a pointer may be       *)
(* overwritten, but only by a node of the same place.  P has the nodes     *)
(* that have a place.                                                      *)
(***************************************************************************)

\* h belongs at place B or below it.
Belongs(h, B) == \A a \in B : a[1] # h /\ SideOf(a[1], h) = a[2]

Placed(A, P) ==
    /\ A \in [Hashes -> SUBSET (Hashes \X Side)] /\ P \in SUBSET Hashes
    /\ root \in P /\ A[root] = {}
    /\ \A y \in P : Belongs(y, A[y])
    /\ \A u \in Hashes, s \in Side : child[u][s] # 0 =>
          u \in P /\ child[u][s] \in P /\ A[child[u][s]] = A[u] \cup {<<u, s>>}

\* What thread t has gone to, or comes back from, by the i-th pointer of its path.
Under(t, i) == IF i = Len(path[t]) THEN value[t] ELSE path[t][i + 1].node

\* Thread t brings back the node it inserts.
Brings(t) == value[t] = Head(todo[t]) /\ path[t][Len(path[t])].read = 0

\* The way of t goes from place to place.
Way(A, P, t) ==
    /\ phase[t] = "idle" => path[t] = <<>>
    /\ phase[t] # "idle" => todo[t] # <<>> /\ value[t] \in P
    /\ phase[t] = "down" => Belongs(Head(todo[t]), A[value[t]])
    /\ \A i \in 1 .. Len(path[t]) :
          /\ path[t][i].node \in P
          /\ A[Under(t, i)] = A[path[t][i].node] \cup {<<path[t][i].node, path[t][i].side>>}
          /\ \/ path[t][i].read = Under(t, i)
             \/ i = Len(path[t]) /\ phase[t] = "up" /\ Brings(t)

\* What t has still to insert has no place yet.
Fresh(P, t) == \A i \in 1 .. Len(todo[t]) : (i = 1 => phase[t] # "up") => todo[t][i] \notin P

\* Without a clash, the nodes on the way are reached, and what is inserted is once it
\* is written.
Along(t) ==
    /\ \A i \in 1 .. Len(path[t]) : path[t][i].node \in Reachable
    /\ phase[t] = "down" => value[t] \in Reachable
    /\ phase[t] = "up" => \/ Head(todo[t]) \in Reachable
                          \/ path[t] # <<>> /\ Brings(t)

Distinct ==
    \A t, u \in Thread : \A i \in 1 .. Len(todo[t]), j \in 1 .. Len(todo[u]) :
       todo[t][i] = todo[u][j] => t = u /\ i = j

Steady(A, P) ==
    /\ TreeType /\ Distinct /\ Placed(A, P)
    /\ \A t \in Thread : Way(A, P, t) /\ Fresh(P, t)
    /\ ~clashed => added \subseteq Reachable /\ \A t \in Thread : Along(t)

TreeInv == running = "tree" => \E A, P : Steady(A, P)

\* The search for h comes to all nodes h belongs below, and so to h.
LEMMA PlacedFound ==
  ASSUME TreeType, NEW A, NEW P, Placed(A, P), NEW h \in Reachable
  PROVE  Visits(h, h)
<1> DEFINE G == {x \in P : \A y \in Hashes : Belongs(y, A[x]) => Visits(y, x)}
<1>1. root \in G
  BY DEF Placed, Visits
<1>2. ASSUME NEW x \in G, NEW s \in Side, child[x][s] # 0
      PROVE  child[x][s] \in G
  <2> DEFINE v == child[x][s]
  <2>1. x \in P /\ x \in Hashes /\ v \in P /\ A[v] = A[x] \cup {<<x, s>>}
    BY <1>2 DEF Placed
  <2>2. ASSUME NEW y \in Hashes, Belongs(y, A[v]), NEW S \in SUBSET (Hashes \cup {0}),
               SearchClosed(S, y)
        PROVE  v \in S
    <3>1. Belongs(y, A[x]) /\ x # y /\ SideOf(x, y) = s
      <4>1. <<x, s>> \in A[v] /\ A[x] \subseteq A[v]
        BY <2>1
      <4> HIDE DEF v
      <4> QED BY <2>2, <4>1 DEF Belongs
    <3>2. x \in S
      BY <1>2, <2>2, <3>1 DEF Visits, SearchClosed
    <3>3. s = IF x > y THEN "left" ELSE "right"
      BY <2>1, <3>1, NoZero DEF SideOf
    <3> QED BY <2>1, <2>2, <3>1, <3>2, <3>3, NoZero DEF SearchClosed
  <2>3. \A y \in Hashes : Belongs(y, A[v]) => Visits(y, v)
    <3> HIDE DEF v
    <3> QED BY <2>2 DEF Visits, SearchClosed
  <2> QED BY <2>1, <2>3
<1> DEFINE U == G \cup {0}
<1>3. Closed(U) /\ U \in SUBSET (Hashes \cup {0})
  <2>1. G \in SUBSET Hashes /\ root \in U
    BY <1>1 DEF Placed
  <2>2. \A y \in U \ {0} : \A s \in Side : child[y][s] \in U
    BY <1>2
  <2> QED BY <2>1, <2>2 DEF Closed
<1> HIDE DEF U, G
<1>4. h \in U
  BY <1>3 DEF Reachable, Closed
<1>5. h \in G
  BY <1>4, NoZero DEF U, Reachable
<1>6. h \in P /\ h \in Hashes /\ (Belongs(h, A[h]) => Visits(h, h))
  BY <1>5 DEF G, Reachable
<1> QED BY <1>6 DEF Placed


-----------------------------------------------------------------------------
(***************************************************************************)
(* The search tree: its steps.                                             *)
(***************************************************************************)

\* What a step of one thread leaves of the way of another.
LEMMA WayStays ==
  ASSUME NEW A, NEW P, NEW B, NEW Q, NEW t \in Thread, TreeType,
         Way(A, P, t), P \subseteq Q, \A x \in P : B[x] = A[x],
         todo'[t] = todo[t], path'[t] = path[t], phase'[t] = phase[t], value'[t] = value[t]
  PROVE  Way(B, Q, t)'
<1>1. /\ phase[t] = "idle" => path[t] = <<>>
      /\ phase[t] # "idle" => todo[t] # <<>> /\ value[t] \in P
      /\ phase[t] = "down" => Belongs(Head(todo[t]), A[value[t]])
      /\ \A i \in 1 .. Len(path[t]) :
            /\ path[t][i].node \in P
            /\ A[Under(t, i)] = A[path[t][i].node] \cup {<<path[t][i].node, path[t][i].side>>}
            /\ \/ path[t][i].read = Under(t, i)
               \/ i = Len(path[t]) /\ phase[t] = "up" /\ Brings(t)
  BY DEF Way
<1>2. Brings(t)' <=> Brings(t)
  BY DEF Brings
<1>3. \A i \in 1 .. Len(path[t]) : Under(t, i)' = Under(t, i)
  BY DEF Under
<1>4. \A i \in 1 .. Len(path[t]) : Under(t, i) \in P
  <2> TAKE i \in 1 .. Len(path[t])
  <2>1. Len(path[t]) \in Nat
    BY LenProperties DEF TreeType
  <2>2. CASE i = Len(path[t])
    <3>1. phase[t] # "idle"
      <4> SUFFICES ASSUME path[t] = <<>> PROVE FALSE
        BY <1>1
      <4> QED BY EmptySeq
    <3> QED BY <1>1, <2>2, <3>1 DEF Under
  <2>3. CASE i # Len(path[t])
    <3>1. i + 1 \in 1 .. Len(path[t])
      BY <2>1, <2>3
    <3> QED BY <1>1, <2>3, <3>1 DEF Under
  <2> QED BY <2>2, <2>3
<1>5. \A i \in 1 .. Len(path'[t]) :
         /\ path'[t][i].node \in Q
         /\ B[Under(t, i)'] = B[path'[t][i].node] \cup {<<path'[t][i].node, path'[t][i].side>>}
         /\ \/ path'[t][i].read = Under(t, i)'
            \/ i = Len(path'[t]) /\ phase'[t] = "up" /\ Brings(t)'
  <2> TAKE i \in 1 .. Len(path'[t])
  <2>1. i \in 1 .. Len(path[t]) /\ path'[t][i] = path[t][i] /\ Under(t, i)' = Under(t, i)
        /\ Under(t, i) \in P /\ path[t][i].node \in P
    BY <1>1, <1>3, <1>4
  <2> QED BY <1>1, <1>2, <2>1
<1>6. phase'[t] = "down" => Belongs(Head(todo'[t]), B[value'[t]])
  <2> SUFFICES ASSUME phase[t] = "down" PROVE Belongs(Head(todo[t]), B[value[t]])
    BY DEF Belongs, SideOf
  <2>1. value[t] \in P
    BY <1>1
  <2> QED BY <1>1, <2>1
<1>7. /\ phase'[t] = "idle" => path'[t] = <<>>
      /\ phase'[t] # "idle" => todo'[t] # <<>> /\ value'[t] \in Q
  BY <1>1
<1> QED BY <1>5, <1>6, <1>7 DEF Way, Belongs, SideOf

LEMMA AlongStays ==
  ASSUME NEW t \in Thread, Along(t), Reachable \subseteq Reachable',
         todo'[t] = todo[t], path'[t] = path[t], phase'[t] = phase[t], value'[t] = value[t]
  PROVE  Along(t)'
<1>1. Brings(t)' <=> Brings(t)
  BY DEF Brings
<1> QED BY <1>1 DEF Along

LEMMA BeginKeeps ==
  ASSUME NEW A, NEW P, Steady(A, P), NEW t \in Thread, Begin(t)
  PROVE  Steady(A, P)'
<1>1. /\ phase[t] = "idle" /\ todo[t] # <<>>
      /\ phase' = [phase EXCEPT ![t] = "down"]
      /\ value' = [value EXCEPT ![t] = root]
      /\ UNCHANGED <<root, child, todo, path, added, clashed>>
  BY DEF Begin
<1>2. TreeType /\ Placed(A, P) /\ Distinct
  BY DEF Steady
<1>3. TreeType'
  BY <1>1, <1>2 DEF TreeType
<1>4. Placed(A, P)' /\ Distinct'
  <2>1. Placed(A, P)'
    BY <1>1, <1>2 DEF Placed, Belongs, SideOf
  <2> QED BY <1>1, <1>2, <2>1 DEF Distinct
<1>5. Reachable' = Reachable
  BY <1>1 DEF Reachable
<1>6. phase'[t] = "down" /\ value'[t] = root /\ path'[t] = <<>>
  BY <1>1, <1>2 DEF TreeType, Steady, Way
<1>7. Way(A, P, t)' /\ Fresh(P, t)'
  <2>1. Way(A, P, t)'
    <3>1. root \in P /\ A[root] = {}
      BY <1>2 DEF Placed
    <3> QED BY <1>1, <1>6, <3>1 DEF Way, Belongs
  <2>2. Fresh(P, t)'
    BY <1>1, <1>6 DEF Steady, Fresh
  <2> QED BY <2>1, <2>2
<1>8. ASSUME NEW u \in Thread, u # t
      PROVE  Way(A, P, u)' /\ Fresh(P, u)'
  <2>1. phase'[u] = phase[u] /\ value'[u] = value[u] /\ path'[u] = path[u] /\ todo'[u] = todo[u]
    BY <1>1, <1>2, <1>8 DEF TreeType
  <2>2. Way(A, P, u) /\ Fresh(P, u)
    BY DEF Steady
  <2> QED BY <1>2, <2>1, <2>2, WayStays DEF Fresh
<1>9. ASSUME ~clashed', NEW u \in Thread
      PROVE  Along(u)'
  <2>1. Along(u)
    BY <1>1, <1>9 DEF Steady
  <2>2. CASE u = t
    BY <1>2, <1>5, <1>6, <2>2, RootReached DEF Along
  <2>3. CASE u # t
    <3>1. phase'[u] = phase[u] /\ value'[u] = value[u] /\ path'[u] = path[u] /\ todo'[u] = todo[u]
      BY <1>1, <1>2, <2>3 DEF TreeType
    <3> QED BY <1>5, <2>1, <3>1, AlongStays
  <2> QED BY <2>2, <2>3
<1>10. ~clashed' => added' \subseteq Reachable'
  BY <1>1, <1>5 DEF Steady
<1> QED BY <1>3, <1>4, <1>7, <1>8, <1>9, <1>10 DEF Steady


LEMMA DownKeeps ==
  ASSUME NEW A, NEW P, Steady(A, P), NEW t \in Thread, Down(t)
  PROVE  \E B, Q : Steady(B, Q)'
<1>a. PICK h, r, k : h = Head(todo[t]) /\ r = value[t] /\ k = Len(path[t])
  OBVIOUS
<1>b. PICK s : s = SideOf(r, h)
  OBVIOUS
<1>c. PICK c : c = child[r][s]
  OBVIOUS
<1>d. PICK e, next : e = [node |-> r, side |-> s, read |-> c] /\ next = IF c = 0 THEN h ELSE c
  OBVIOUS
<1>e. PICK B, Q : /\ B = IF c = 0 THEN [A EXCEPT ![h] = A[r] \cup {<<r, s>>}] ELSE A
                  /\ Q = IF c = 0 THEN P \cup {h} ELSE P
  OBVIOUS
<1>1. /\ phase[t] = "down"
      /\ path' = [path EXCEPT ![t] = Append(@, e)]
      /\ value' = [value EXCEPT ![t] = next]
      /\ phase' = [phase EXCEPT ![t] = IF c = 0 THEN "up" ELSE "down"]
      /\ UNCHANGED <<root, child, todo, added, clashed>>
  BY <1>a, <1>b, <1>c, <1>d DEF Down
<1>2. TreeType /\ Placed(A, P) /\ Distinct /\ Way(A, P, t) /\ Fresh(P, t)
  BY DEF Steady
<1>3. /\ todo[t] # <<>> /\ r \in P /\ Belongs(h, A[r])
      /\ \A i \in 1 .. k :
            /\ path[t][i].node \in P
            /\ A[Under(t, i)] = A[path[t][i].node] \cup {<<path[t][i].node, path[t][i].side>>}
            /\ path[t][i].read = Under(t, i)
  BY <1>1, <1>2, <1>a DEF Way
<1>4. Len(todo[t]) \in Nat \ {0} /\ h = todo[t][1] /\ h \in Hashes /\ 1 \in 1 .. Len(todo[t])
  <2>1. todo[t] \in Seq(Hashes)
    BY <1>2 DEF TreeType
  <2>2. Len(todo[t]) \in Nat \ {0} /\ h = todo[t][1] /\ h \in Hashes
    BY <1>3, <1>a, <2>1, EmptySeq, HeadTailProperties
  <2> QED BY <2>2
<1>5. h \notin P
  BY <1>1, <1>2, <1>4 DEF Fresh
<1>6. /\ r \in Hashes /\ s \in Side /\ c \in Hashes \cup {0}
      /\ c # 0 => c \in P /\ A[c] = A[r] \cup {<<r, s>>}
  <2>1. r \in Hashes /\ s \in Side
    BY <1>2, <1>3, <1>b DEF Placed, SideOf, Side
  <2> QED BY <1>2, <1>c, <2>1 DEF Placed, TreeType
<1>7. /\ path[t] \in Seq([node : Hashes, side : Side, read : Hashes \cup {0}])
      /\ e \in [node : Hashes, side : Side, read : Hashes \cup {0}]
  BY <1>2, <1>6, <1>d DEF TreeType
<1>8. /\ k \in Nat /\ Len(path'[t]) = k + 1 /\ path'[t][k + 1] = e
      /\ \A i \in 1 .. k : path'[t][i] = path[t][i]
      /\ path'[t] \in Seq([node : Hashes, side : Side, read : Hashes \cup {0}])
  <2>1. path'[t] = Append(path[t], e)
    BY <1>1, <1>2 DEF TreeType
  <2> QED BY <1>7, <1>a, <2>1, AppendProperties, LenProperties
<1>9. /\ value'[t] = next /\ phase'[t] = IF c = 0 THEN "up" ELSE "down"
      /\ \A u \in Thread \ {t} : /\ phase'[u] = phase[u] /\ value'[u] = value[u]
                                 /\ path'[u] = path[u] /\ todo'[u] = todo[u]
  BY <1>1, <1>2 DEF TreeType
<1>10. e.node = r /\ e.side = s /\ e.read = c
  BY <1>d
<1>11. next \in Hashes /\ (c # 0 => next = c) /\ (c = 0 => next = h)
  BY <1>4, <1>6, <1>d
<1>12. TreeType'
  <2>1. path' \in [Thread -> Seq([node : Hashes, side : Side, read : Hashes \cup {0}])]
    BY <1>1, <1>2, <1>8 DEF TreeType
  <2>2. value' \in [Thread -> Hashes \cup {0}]
    BY <1>1, <1>2, <1>11 DEF TreeType
  <2> QED BY <1>1, <1>2, <2>1, <2>2 DEF TreeType
<1>13. /\ P \subseteq Q /\ \A x \in P : B[x] = A[x]
       /\ Q \in SUBSET Hashes /\ B \in [Hashes -> SUBSET (Hashes \X Side)]
       /\ next \in Q /\ B[next] = A[r] \cup {<<r, s>>}
       /\ \A x \in Q : x \in P \/ (x = h /\ c = 0)
  <2>1. A \in [Hashes -> SUBSET (Hashes \X Side)] /\ P \in SUBSET Hashes
    BY <1>2 DEF Placed
  <2>2. CASE c = 0
    <3>1. B = [A EXCEPT ![h] = A[r] \cup {<<r, s>>}] /\ Q = P \cup {h} /\ next = h
      BY <1>11, <1>e, <2>2
    <3>2. A[r] \cup {<<r, s>>} \in SUBSET (Hashes \X Side)
      BY <1>6, <2>1
    <3>3. B \in [Hashes -> SUBSET (Hashes \X Side)] /\ B[h] = A[r] \cup {<<r, s>>}
          /\ \A x \in Hashes : x # h => B[x] = A[x]
      BY <1>4, <2>1, <3>1, <3>2
    <3> QED BY <1>4, <1>5, <2>1, <2>2, <3>1, <3>3
  <2>3. CASE c # 0
    BY <1>6, <1>11, <1>e, <2>1, <2>3
  <2> QED BY <2>2, <2>3
<1>14. Belongs(h, A[r] \cup {<<r, s>>})
  <2>1. r # h
    BY <1>3, <1>5
  <2> SUFFICES ASSUME NEW a \in A[r] \cup {<<r, s>>}
               PROVE  a[1] # h /\ SideOf(a[1], h) = a[2]
    BY DEF Belongs
  <2>2. CASE a \in A[r]
    BY <1>3, <2>2 DEF Belongs
  <2>3. CASE a = <<r, s>>
    BY <1>b, <2>1, <2>3
  <2> QED BY <2>2, <2>3
<1>15. Placed(B, Q)'
  <2>1. root' \in Q /\ B[root'] = {}
    BY <1>1, <1>2, <1>13 DEF Placed
  <2>2. \A y \in Q : Belongs(y, B[y])
    BY <1>2, <1>11, <1>13, <1>14 DEF Placed
  <2>3. ASSUME NEW u \in Hashes, NEW d \in Side, child[u][d] # 0
        PROVE  u \in Q /\ child[u][d] \in Q /\ B[child[u][d]] = B[u] \cup {<<u, d>>}
    <3>1. u \in P /\ child[u][d] \in P /\ A[child[u][d]] = A[u] \cup {<<u, d>>}
      BY <1>2, <2>3 DEF Placed
    <3> QED BY <1>13, <3>1
  <2> QED BY <1>1, <1>13, <2>1, <2>2, <2>3 DEF Placed, Belongs, SideOf
<1>16. \A i \in 1 .. k : Under(t, i)' = Under(t, i)
  <2> TAKE i \in 1 .. k
  <2>1. i # Len(path'[t]) /\ Under(t, i)' = path'[t][i + 1].node
    BY <1>8 DEF Under
  <2>2. CASE i = k
    BY <1>8, <1>10, <1>a, <2>1, <2>2 DEF Under
  <2>3. CASE i # k
    <3>1. i + 1 \in 1 .. k
      BY <1>8, <2>3
    <3> QED BY <1>8, <1>a, <2>1, <2>3, <3>1 DEF Under
  <2> QED BY <2>2, <2>3
<1>17. Under(t, k + 1)' = next
  BY <1>8, <1>9 DEF Under
<1>18. \A i \in 1 .. k : Under(t, i) \in P
  <2> TAKE i \in 1 .. k
  <2>1. CASE i = k
    BY <1>3, <1>a, <2>1 DEF Under
  <2>2. CASE i # k
    <3>1. i + 1 \in 1 .. k
      BY <1>8, <2>2
    <3> QED BY <1>3, <1>a, <2>2, <3>1 DEF Under
  <2> QED BY <2>1, <2>2
<1>19. todo' = todo /\ Head(todo'[t]) = h
  BY <1>1, <1>a
<1>20. Way(B, Q, t)'
  <2>1. phase'[t] # "idle" /\ todo'[t] # <<>> /\ value'[t] \in Q
    BY <1>1, <1>3, <1>9, <1>13
  <2>2. ASSUME phase'[t] = "down" PROVE Belongs(h, B[value'[t]])
    BY <1>9, <1>13, <1>14, <2>2
  <2>3. ASSUME NEW i \in 1 .. Len(path'[t])
        PROVE  /\ path'[t][i].node \in Q
               /\ B[Under(t, i)'] = B[path'[t][i].node] \cup {<<path'[t][i].node, path'[t][i].side>>}
               /\ \/ path'[t][i].read = Under(t, i)'
                  \/ i = Len(path'[t]) /\ phase'[t] = "up" /\ Brings(t)'
    <3>1. CASE i \in 1 .. k
      BY <1>3, <1>8, <1>13, <1>16, <1>18, <3>1
    <3>2. CASE i = k + 1
      <4>1. path'[t][i].node = r /\ path'[t][i].side = s /\ path'[t][i].read = c
        BY <1>8, <1>10, <3>2
      <4>2. c = 0 => phase'[t] = "up" /\ Brings(t)'
        BY <1>8, <1>9, <1>11, <1>19, <3>2, <4>1 DEF Brings
      <4> QED BY <1>3, <1>8, <1>11, <1>13, <1>17, <3>2, <4>1, <4>2
    <3> QED BY <1>8, <3>1, <3>2
  <2> QED BY <1>19, <2>1, <2>2, <2>3 DEF Way, Belongs, SideOf
<1>21. Fresh(Q, t)'
  <2> SUFFICES ASSUME NEW i \in 1 .. Len(todo[t]), i = 1 => phase'[t] # "up"
               PROVE  todo[t][i] \notin Q
    BY <1>19 DEF Fresh
  <2>1. todo[t][i] \notin P
    BY <1>1, <1>2 DEF Fresh
  <2>2. c = 0 => todo[t][i] # h
    BY <1>2, <1>4, <1>9 DEF Distinct
  <2> QED BY <1>13, <2>1, <2>2
<1>22. ASSUME NEW u \in Thread, u # t
       PROVE  Way(B, Q, u)' /\ Fresh(Q, u)'
  <2>1. Way(A, P, u) /\ Fresh(P, u)
    BY DEF Steady
  <2>2. Way(B, Q, u)'
    BY <1>2, <1>9, <1>13, <1>22, <2>1, WayStays
  <2>3. ASSUME NEW i \in 1 .. Len(todo[u]) PROVE todo[u][i] # h
    BY <1>2, <1>4, <1>22 DEF Distinct
  <2>4. Fresh(Q, u)'
    BY <1>9, <1>13, <1>22, <2>1, <2>3 DEF Fresh
  <2> QED BY <2>2, <2>4
<1>23. Reachable' = Reachable
  BY <1>1 DEF Reachable
<1>24. ASSUME ~clashed', NEW u \in Thread
       PROVE  Along(u)'
  <2>1. Along(u)
    BY <1>1, <1>24 DEF Steady
  <2>2. CASE u # t
    BY <1>9, <1>23, <2>1, <2>2, AlongStays
  <2>3. CASE u = t
    <3>1. r \in Reachable /\ \A i \in 1 .. k : path[t][i].node \in Reachable
      BY <1>1, <1>a, <2>1, <2>3 DEF Along
    <3>2. c # 0 => c \in Reachable
      BY <1>2, <1>6, <1>c, <3>1, ReachedOn
    <3>3. \A i \in 1 .. Len(path'[t]) : path'[t][i].node \in Reachable
      <4> TAKE i \in 1 .. Len(path'[t])
      <4> QED BY <1>8, <1>10, <3>1
    <3>4. c = 0 => phase'[t] = "up" /\ path'[t] # <<>> /\ Brings(t)'
      <4>1. Len(path'[t]) # 0
        BY <1>8
      <4>2. path'[t] # <<>>
        BY <4>1
      <4> QED BY <1>8, <1>9, <1>10, <1>11, <1>19, <4>2 DEF Brings
    <3>5. c # 0 => phase'[t] = "down" /\ value'[t] = c
      BY <1>9, <1>11
    <3> QED BY <1>9, <1>23, <2>3, <3>2, <3>3, <3>4, <3>5 DEF Along
  <2> QED BY <2>2, <2>3
<1>25. Distinct' /\ (~clashed' => added' \subseteq Reachable')
  BY <1>1, <1>2, <1>23 DEF Distinct, Steady
<1>26. Steady(B, Q)'
  BY <1>12, <1>15, <1>20, <1>21, <1>22, <1>24, <1>25 DEF Steady
<1> QED BY <1>26


\* What is written to a node that is reached is reached.
LEMMA WrittenReached ==
  ASSUME NEW x \in Reachable', NEW s \in Side, child'[x][s] \in Hashes
  PROVE  child'[x][s] \in Reachable'
<1>1. ASSUME NEW S \in SUBSET (Hashes \cup {0}), Closed(S)'
      PROVE  child'[x][s] \in S
  <2>1. x \in S /\ x \in Hashes
    BY <1>1 DEF Reachable, Closed
  <2> QED BY <1>1, <2>1, NoZero DEF Closed
<1> QED BY <1>1 DEF Reachable, Closed

\* The path without its last pointer.
LEMMA FrontOfPath ==
  ASSUME NEW S, NEW p \in Seq(S), p # <<>>
  PROVE  /\ Len(p) \in Nat \ {0} /\ Last(p) = p[Len(p)] /\ Last(p) \in S
         /\ Front(p) \in Seq(S) /\ Len(Front(p)) = Len(p) - 1
         /\ \A i \in 1 .. Len(p) - 1 : Front(p)[i] = p[i]
<1>1. Len(p) \in Nat \ {0}
  BY EmptySeq
<1>2. Last(p) = p[Len(p)] /\ Last(p) \in S
  BY <1>1, ElementOfSeq DEF Last
<1> DEFINE n == Len(p) - 1
<1>3. n \in Nat /\ n \in Int /\ 1 \in Int /\ \A i \in 1 .. n : p[i] \in S
  BY <1>1, ElementOfSeq
<1>4. Front(p) = SubSeq(p, 1, n)
  BY DEF Front
<1> HIDE DEF n
<1>5. /\ SubSeq(p, 1, n) \in Seq(S)
      /\ Len(SubSeq(p, 1, n)) = IF 1 <= n THEN n - 1 + 1 ELSE 0
      /\ \A i \in 1 .. n - 1 + 1 : SubSeq(p, 1, n)[i] = p[1 + i - 1]
  BY <1>3, SubSeqProperties
<1>6. Len(Front(p)) = n
  BY <1>3, <1>4, <1>5
<1>7. \A i \in 1 .. n : i \in 1 .. n - 1 + 1 /\ 1 + i - 1 = i
  BY <1>3
<1>8. \A i \in 1 .. n : Front(p)[i] = p[i]
  <2> TAKE i \in 1 .. n
  <2>1. i \in 1 .. n - 1 + 1 /\ 1 + i - 1 = i
    BY <1>7
  <2>2. SubSeq(p, 1, n)[i] = p[1 + i - 1]
    BY <1>5, <2>1
  <2> QED BY <1>4, <2>1, <2>2
<1> QED BY <1>1, <1>2, <1>4, <1>5, <1>6, <1>8 DEF n

LEMMA UpKeeps ==
  ASSUME NEW A, NEW P, Steady(A, P), NEW t \in Thread, Up(t)
  PROVE  Steady(A, P)'
<1>a. PICK e, k, v : e = Last(path[t]) /\ k = Len(path[t]) /\ v = value[t]
  OBVIOUS
<1>1. /\ phase[t] = "up" /\ path[t] # <<>>
      /\ child' = [child EXCEPT ![e.node][e.side] = v]
      /\ clashed' = (clashed \/ child[e.node][e.side] # e.read)
      /\ value' = [value EXCEPT ![t] = e.node]
      /\ path' = [path EXCEPT ![t] = Front(@)]
      /\ UNCHANGED <<root, todo, phase, added>>
  BY <1>a DEF Up
<1>2. TreeType /\ Placed(A, P) /\ Distinct /\ Way(A, P, t) /\ Fresh(P, t)
  BY DEF Steady
<1>3. /\ todo[t] # <<>> /\ v \in P
      /\ \A i \in 1 .. k :
            /\ path[t][i].node \in P
            /\ A[Under(t, i)] = A[path[t][i].node] \cup {<<path[t][i].node, path[t][i].side>>}
            /\ path[t][i].read = Under(t, i) \/ (i = k /\ Brings(t))
  BY <1>1, <1>2, <1>a DEF Way
<1> DEFINE Entry == [node : Hashes, side : Side, read : Hashes \cup {0}]
<1>4. /\ k \in Nat \ {0} /\ e = path[t][k] /\ e \in Entry /\ k \in 1 .. k
      /\ path'[t] \in Seq(Entry) /\ Len(path'[t]) = k - 1
      /\ \A i \in 1 .. k - 1 : path'[t][i] = path[t][i]
  <2>1. path[t] \in Seq(Entry) /\ path'[t] = Front(path[t])
    BY <1>1, <1>2 DEF TreeType
  <2> HIDE DEF Entry
  <2>2. PICK p : p = path[t]
    OBVIOUS
  <2>3. p \in Seq(Entry) /\ p # <<>>
    BY <1>1, <2>1, <2>2
  <2>4. /\ Len(p) \in Nat \ {0} /\ Last(p) = p[Len(p)] /\ Last(p) \in Entry
        /\ Front(p) \in Seq(Entry) /\ Len(Front(p)) = Len(p) - 1
        /\ \A i \in 1 .. Len(p) - 1 : Front(p)[i] = p[i]
    BY <2>3, FrontOfPath
  <2> QED BY <1>a, <2>1, <2>2, <2>4
<1>5. e.node \in Hashes /\ e.side \in Side /\ e.node \in P /\ v \in Hashes
  BY <1>2, <1>3, <1>4, <1>a DEF Placed
<1>6. /\ A[v] = A[e.node] \cup {<<e.node, e.side>>}
      /\ e.read = v \/ Brings(t)
  BY <1>3, <1>4, <1>a DEF Under
<1>7. TreeType'
  <2>1. path' \in [Thread -> Seq(Entry)]
    BY <1>1, <1>2, <1>4 DEF TreeType
  <2>2. value' \in [Thread -> Hashes \cup {0}]
    BY <1>1, <1>2, <1>5 DEF TreeType
  <2>3. child' \in [Hashes -> [Side -> Hashes \cup {0}]]
    BY <1>1, <1>2, <1>5 DEF TreeType
  <2>4. clashed' \in BOOLEAN
    BY <1>1, <1>2 DEF TreeType
  <2> QED BY <1>1, <1>2, <2>1, <2>2, <2>3, <2>4 DEF TreeType
<1>8. /\ child'[e.node][e.side] = v
      /\ \A u \in Hashes, s \in Side : u # e.node \/ s # e.side => child'[u][s] = child[u][s]
  BY <1>1, <1>2, <1>5 DEF TreeType
<1>9. Placed(A, P)'
  <2>1. ASSUME NEW u \in Hashes, NEW s \in Side, child'[u][s] # 0
        PROVE  u \in P /\ child'[u][s] \in P /\ A[child'[u][s]] = A[u] \cup {<<u, s>>}
    <3>1. CASE u = e.node /\ s = e.side
      BY <1>3, <1>5, <1>6, <1>8, <3>1
    <3>2. CASE u # e.node \/ s # e.side
      BY <1>2, <1>8, <2>1, <3>2 DEF Placed
    <3> QED BY <3>1, <3>2
  <2> QED BY <1>1, <1>2, <2>1 DEF Placed, Belongs, SideOf
<1>10. /\ value'[t] = e.node /\ phase'[t] = "up" /\ todo' = todo
       /\ \A u \in Thread \ {t} : /\ phase'[u] = phase[u] /\ value'[u] = value[u]
                                  /\ path'[u] = path[u] /\ todo'[u] = todo[u]
  BY <1>1, <1>2 DEF TreeType
<1>11. \A i \in 1 .. k - 1 : Under(t, i)' = Under(t, i)
  <2> TAKE i \in 1 .. k - 1
  <2>1. i # k /\ Under(t, i) = path[t][i + 1].node
    BY <1>4, <1>a DEF Under
  <2>2. CASE i = k - 1
    <3>1. i + 1 = k /\ Under(t, i)' = e.node
      BY <1>4, <1>10, <2>2 DEF Under
    <3> QED BY <1>4, <2>1, <3>1
  <2>3. CASE i # k - 1
    <3>1. i + 1 \in 1 .. k - 1
      BY <1>4, <2>3
    <3> QED BY <1>4, <2>1, <2>3, <3>1 DEF Under
  <2> QED BY <2>2, <2>3
<1>12. Way(A, P, t)'
  <2> SUFFICES ASSUME NEW i \in 1 .. k - 1
               PROVE  /\ path'[t][i].node \in P
                      /\ A[Under(t, i)'] = A[path'[t][i].node]
                                             \cup {<<path'[t][i].node, path'[t][i].side>>}
                      /\ path'[t][i].read = Under(t, i)'
    BY <1>3, <1>4, <1>5, <1>10 DEF Way
  <2>1. i \in 1 .. k /\ i # k
    BY <1>4
  <2> QED BY <1>3, <1>4, <1>11, <2>1
<1>13. ASSUME NEW u \in Thread
       PROVE  Way(A, P, u)' /\ Fresh(P, u)'
  <2>1. Way(A, P, u) /\ Fresh(P, u)
    BY DEF Steady
  <2>2. Fresh(P, u)'
    BY <1>1, <2>1 DEF Fresh
  <2>3. u # t => Way(A, P, u)'
    BY <1>2, <1>10, <2>1, WayStays
  <2> QED BY <1>12, <2>2, <2>3
<1>14. ~clashed' => Reachable \subseteq Reachable'
  <2> SUFFICES ASSUME ~clashed' PROVE Reachable \subseteq Reachable'
    OBVIOUS
  <2>1. child[e.node][e.side] = e.read
    BY <1>1
  <2>2. e.read = 0 \/ e.read = v
    BY <1>4, <1>6, <1>a DEF Brings
  <2>3. \A u \in Hashes, s \in Side : child[u][s] = 0 \/ child'[u][s] = child[u][s]
    BY <1>8, <2>1, <2>2
  <2> QED BY <1>1, <1>2, <2>3, ReachedStay
<1>15. ASSUME ~clashed', NEW u \in Thread
       PROVE  Along(u)'
  <2>1. Along(u) /\ Reachable \subseteq Reachable'
    BY <1>1, <1>14, <1>15 DEF Steady
  <2>2. CASE u # t
    BY <1>10, <2>1, <2>2, AlongStays
  <2>3. CASE u = t
    <3>1. e.node \in Reachable /\ \A i \in 1 .. k - 1 : path'[t][i].node \in Reachable
      <4>1. \A i \in 1 .. k : path[t][i].node \in Reachable
        BY <1>a, <2>1, <2>3 DEF Along
      <4>2. \A i \in 1 .. k - 1 : i \in 1 .. k
        BY <1>4
      <4> QED BY <1>4, <4>1, <4>2
    <3>2. v \in Reachable'
      <4>1. e.node \in Reachable' /\ e.side \in Side /\ child'[e.node][e.side] \in Hashes
        BY <1>5, <1>8, <2>1, <3>1
      <4> QED BY <1>8, <4>1, WrittenReached
    <3>3. Head(todo[t]) \in Reachable'
      BY <1>1, <1>a, <2>1, <2>3, <3>2 DEF Along, Brings
    <3> QED BY <1>4, <1>10, <2>1, <2>3, <3>1, <3>3 DEF Along
  <2> QED BY <2>2, <2>3
<1>16. ~clashed' => added' \subseteq Reachable'
  BY <1>1, <1>14 DEF Steady
<1>17. Distinct'
  BY <1>1, <1>2 DEF Distinct
<1> QED BY <1>7, <1>9, <1>13, <1>15, <1>16, <1>17 DEF Steady


LEMMA InsertedKeeps ==
  ASSUME NEW A, NEW P, Steady(A, P), NEW t \in Thread, Inserted(t)
  PROVE  Steady(A, P)'
<1>1. /\ phase[t] = "up" /\ path[t] = <<>>
      /\ phase' = [phase EXCEPT ![t] = "idle"]
      /\ todo' = [todo EXCEPT ![t] = Tail(@)]
      /\ added' = added \cup {Head(todo[t])}
      /\ UNCHANGED <<root, child, path, value, clashed>>
  BY DEF Inserted
<1>2. TreeType /\ Placed(A, P) /\ Distinct /\ Way(A, P, t) /\ Fresh(P, t)
  BY DEF Steady
<1>3. todo[t] # <<>> /\ todo[t] \in Seq(Hashes)
  BY <1>1, <1>2 DEF Way, TreeType
<1>4. /\ Len(todo[t]) \in Nat \ {0} /\ Head(todo[t]) \in Hashes
      /\ todo'[t] = Tail(todo[t]) /\ todo'[t] \in Seq(Hashes) /\ Len(todo'[t]) = Len(todo[t]) - 1
      /\ \A i \in 1 .. Len(todo'[t]) : todo'[t][i] = todo[t][i + 1]
  <2>1. PICK s : s = todo[t]
    OBVIOUS
  <2>2. todo'[t] = Tail(s)
    BY <1>1, <1>2, <2>1 DEF TreeType
  <2>3. s \in Seq(Hashes) /\ s # <<>>
    BY <1>3, <2>1
  <2>4. /\ Len(s) \in Nat \ {0} /\ Head(s) \in Hashes /\ Tail(s) \in Seq(Hashes)
        /\ Len(Tail(s)) = Len(s) - 1 /\ \A i \in 1 .. Len(Tail(s)) : Tail(s)[i] = s[i + 1]
    BY <2>3, EmptySeq, HeadTailProperties
  <2> QED BY <2>1, <2>2, <2>4
<1>5. TreeType'
  <2>1. todo' \in [Thread -> Seq(Hashes)]
    BY <1>1, <1>2, <1>4 DEF TreeType
  <2>2. phase' \in [Thread -> {"idle", "down", "up"}] /\ added' \in SUBSET Hashes
    BY <1>1, <1>2, <1>4 DEF TreeType
  <2> QED BY <1>1, <1>2, <2>1, <2>2 DEF TreeType
<1>6. /\ phase'[t] = "idle" /\ path'[t] = <<>>
      /\ \A u \in Thread \ {t} : /\ phase'[u] = phase[u] /\ value'[u] = value[u]
                                 /\ path'[u] = path[u] /\ todo'[u] = todo[u]
  BY <1>1, <1>2 DEF TreeType
<1>7. \A i \in 1 .. Len(todo'[t]) : i + 1 \in 1 .. Len(todo[t]) /\ i + 1 # 1
  BY <1>4
<1>8. Placed(A, P)' /\ Reachable' = Reachable
  <2>1. Placed(A, P)'
    BY <1>1, <1>2 DEF Placed, Belongs, SideOf
  <2>2. Reachable' = Reachable
    BY <1>1 DEF Reachable
  <2> QED BY <2>1, <2>2
<1>9. Distinct'
  <2> SUFFICES ASSUME NEW u \in Thread, NEW w \in Thread,
                      NEW i \in 1 .. Len(todo'[u]), NEW j \in 1 .. Len(todo'[w]),
                      todo'[u][i] = todo'[w][j]
               PROVE  u = w /\ i = j
    BY DEF Distinct
  <2>1. PICK a : a \in 1 .. Len(todo[u]) /\ todo'[u][i] = todo[u][a]
                 /\ a = IF u = t THEN i + 1 ELSE i
    BY <1>4, <1>6, <1>7
  <2>2. PICK b : b \in 1 .. Len(todo[w]) /\ todo'[w][j] = todo[w][b]
                 /\ b = IF w = t THEN j + 1 ELSE j
    BY <1>4, <1>6, <1>7
  <2>3. u = w /\ a = b
    <3>1. todo[u][a] = todo[w][b] /\ a \in 1 .. Len(todo[u]) /\ b \in 1 .. Len(todo[w])
      BY <2>1, <2>2
    <3> QED BY <1>2, <3>1 DEF Distinct
  <2>4. Len(todo'[u]) \in Nat /\ Len(todo'[w]) \in Nat
    BY <1>5, LenProperties DEF TreeType
  <2> QED BY <2>1, <2>2, <2>3, <2>4
<1>10. Way(A, P, t)' /\ Fresh(P, t)'
  <2>1. Way(A, P, t)'
    <3>1. Len(path'[t]) = 0
      BY <1>6
    <3> QED BY <1>6, <3>1 DEF Way
  <2>2. Fresh(P, t)'
    BY <1>2, <1>4, <1>7 DEF Fresh
  <2> QED BY <2>1, <2>2
<1>11. ASSUME NEW u \in Thread, u # t
       PROVE  Way(A, P, u)' /\ Fresh(P, u)'
  <2>1. Way(A, P, u) /\ Fresh(P, u)
    BY DEF Steady
  <2>2. Way(A, P, u)'
    BY <1>2, <1>6, <1>11, <2>1, WayStays
  <2>3. Fresh(P, u)'
    BY <1>6, <1>11, <2>1 DEF Fresh
  <2> QED BY <2>2, <2>3
<1>12. ASSUME ~clashed', NEW u \in Thread
       PROVE  Along(u)'
  <2>1. Along(u)
    BY <1>1, <1>12 DEF Steady
  <2>2. CASE u # t
    BY <1>6, <1>8, <2>1, <2>2, AlongStays
  <2>3. CASE u = t
    <3>1. Len(path'[t]) = 0
      BY <1>6
    <3> QED BY <1>6, <2>3, <3>1 DEF Along
  <2> QED BY <2>2, <2>3
<1>13. ~clashed' => added' \subseteq Reachable'
  <2> SUFFICES ASSUME ~clashed PROVE added' \subseteq Reachable
    BY <1>1, <1>8
  <2>1. added \subseteq Reachable /\ Along(t)
    BY DEF Steady
  <2>2. Head(todo[t]) \in Reachable
    BY <1>1, <2>1 DEF Along
  <2> QED BY <1>1, <2>1, <2>2
<1> QED BY <1>5, <1>8, <1>9, <1>10, <1>11, <1>12, <1>13 DEF Steady

LEMMA TreeStarts == ASSUME TreeInit PROVE \E A, P : Steady(A, P)
<1>0. PICK r \in Hashes :
        \E m \in [1 .. MinerInserts -> Hashes \ {r}], s \in [1 .. NetworkInserts -> Hashes \ {r}] :
        /\ IsInjective(m) /\ IsInjective(s) /\ Range(m) \cap Range(s) = {}
        /\ root = r
        /\ child = [h \in Hashes |-> NoChild]
        /\ todo = [t \in Thread |-> IF t = "miner" THEN m ELSE s]
        /\ path = [t \in Thread |-> <<>>]
        /\ phase = [t \in Thread |-> "idle"]
        /\ value = [t \in Thread |-> 0]
        /\ added = {r}
        /\ clashed = FALSE
  BY DEF TreeInit
<1>1. PICK m \in [1 .. MinerInserts -> Hashes \ {r}], s \in [1 .. NetworkInserts -> Hashes \ {r}] :
        /\ IsInjective(m) /\ IsInjective(s) /\ Range(m) \cap Range(s) = {}
        /\ root = r
        /\ child = [h \in Hashes |-> NoChild]
        /\ todo = [t \in Thread |-> IF t = "miner" THEN m ELSE s]
        /\ path = [t \in Thread |-> <<>>]
        /\ phase = [t \in Thread |-> "idle"]
        /\ value = [t \in Thread |-> 0]
        /\ added = {r}
        /\ clashed = FALSE
  BY <1>0
<1> DEFINE A == [h \in Hashes |-> {}]
           P == {r}
<1>2. MinerInserts \in Nat /\ NetworkInserts \in Nat
  BY TreeAssumption
<1>3. /\ m \in Seq(Hashes) /\ Len(m) = MinerInserts /\ DOMAIN m = 1 .. MinerInserts
      /\ s \in Seq(Hashes) /\ Len(s) = NetworkInserts /\ DOMAIN s = 1 .. NetworkInserts
  <2>1. m \in [1 .. MinerInserts -> Hashes] /\ s \in [1 .. NetworkInserts -> Hashes]
    OBVIOUS
  <2>2. m \in Seq(Hashes) /\ s \in Seq(Hashes)
    BY <1>2, <2>1, SeqDef
  <2>3. /\ Len(m) \in Nat /\ DOMAIN m = 1 .. Len(m)
        /\ Len(s) \in Nat /\ DOMAIN s = 1 .. Len(s)
    BY <2>2, LenProperties
  <2> QED BY <1>2, <2>2, <2>3
<1>4. TreeType
  <2>1. child \in [Hashes -> [Side -> Hashes \cup {0}]]
    BY <1>1 DEF NoChild
  <2>2. todo \in [Thread -> Seq(Hashes)]
    BY <1>1, <1>3
  <2>3. path \in [Thread -> Seq([node : Hashes, side : Side, read : Hashes \cup {0}])]
    BY <1>1, EmptySeq
  <2> QED BY <1>1, <2>1, <2>2, <2>3 DEF TreeType
<1>5. Distinct
  <2> SUFFICES ASSUME NEW t \in Thread, NEW u \in Thread,
                      NEW i \in 1 .. Len(todo[t]), NEW j \in 1 .. Len(todo[u]),
                      todo[t][i] = todo[u][j]
               PROVE  t = u /\ i = j
    BY DEF Distinct
  <2>1. \A a \in DOMAIN m, b \in DOMAIN s : m[a] # s[b]
    BY <1>1 DEF Range
  <2>2. todo["miner"] = m /\ todo["network"] = s /\ {t, u} \subseteq {"miner", "network"}
    BY <1>1 DEF Thread
  <2>3. CASE t = u
    BY <1>1, <1>3, <2>2, <2>3 DEF IsInjective
  <2>4. CASE t # u
    BY <1>3, <2>1, <2>2, <2>4
  <2> QED BY <2>3, <2>4
<1>6. Placed(A, P)
  BY <1>1 DEF Placed, Belongs, NoChild
<1>7. ASSUME NEW t \in Thread
      PROVE  Way(A, P, t) /\ Fresh(P, t) /\ Along(t)
  <2>1. phase[t] = "idle" /\ path[t] = <<>> /\ Len(path[t]) = 0
    BY <1>1
  <2>2. \A i \in 1 .. Len(todo[t]) : todo[t][i] # r
    BY <1>1, <1>3 DEF Thread
  <2> QED BY <2>1, <2>2 DEF Way, Fresh, Along
<1>8. added \subseteq Reachable
  BY <1>1, <1>4, RootReached
<1>9. Steady(A, P)
  <2> HIDE DEF A, P
  <2> QED BY <1>4, <1>5, <1>6, <1>7, <1>8 DEF Steady
<1> QED BY <1>9

\* Whatever the two threads do to each other, a node that is in the tree is found, and
\* an inserted one is in the tree unless a pointer was written that had changed since it
\* was read: for any hashes and any number of insertions (insert_block_only_by_hash,
\* insert_subtree_by_hash, find_block_by_hash).
THEOREM SearchableHolds == Spec => []Searchable
<1>1. Init => TreeInv
  BY TreeStarts DEF Init, TreeInv
<1>2. TreeInv /\ [Next]_vars => TreeInv'
  <2> SUFFICES ASSUME TreeInv, [Next]_vars, running' = "tree"
               PROVE  \E A, P : Steady(A, P)'
    BY DEF TreeInv
  <2>1. running = "tree" /\ (TreeNext \/ UNCHANGED treeVars)
    BY DEF Next, vars
  <2>2. PICK A, P : Steady(A, P)
    BY <2>1 DEF TreeInv
  <2>3. CASE UNCHANGED treeVars
    <3>1. Steady(A, P)'
      <4>1. /\ root' = root /\ child' = child /\ todo' = todo /\ path' = path
            /\ phase' = phase /\ value' = value /\ added' = added /\ clashed' = clashed
        BY <2>3 DEF treeVars
      <4>2. TreeType' /\ Distinct' /\ Placed(A, P)'
        <5>1. TreeType /\ Distinct /\ Placed(A, P)
          BY <2>2 DEF Steady
        <5>2. TreeType'
          BY <4>1, <5>1 DEF TreeType
        <5>3. Distinct'
          BY <4>1, <5>1 DEF Distinct
        <5>4. Placed(A, P)'
          BY <4>1, <5>1 DEF Placed, Belongs, SideOf
        <5> QED BY <5>2, <5>3, <5>4
      <4>3. Reachable' = Reachable
        BY <4>1 DEF Reachable
      <4>4. ASSUME NEW t \in Thread
            PROVE  Way(A, P, t)' /\ Fresh(P, t)' /\ (~clashed' => Along(t)')
        <5>1. TreeType /\ Way(A, P, t) /\ Fresh(P, t) /\ (~clashed => Along(t))
          BY <2>2 DEF Steady
        <5>2. Way(A, P, t)'
          <6>1. P \subseteq P /\ \A x \in P : A[x] = A[x]
            OBVIOUS
          <6> QED BY <4>1, <5>1, <6>1, WayStays
        <5>3. Fresh(P, t)'
          BY <4>1, <5>1 DEF Fresh
        <5>4. ASSUME Along(t) PROVE Along(t)'
          BY <4>1, <4>3, <5>4, AlongStays
        <5> QED BY <4>1, <5>1, <5>2, <5>3, <5>4
      <4> QED BY <2>2, <4>1, <4>2, <4>3, <4>4 DEF Steady
    <3> QED BY <3>1
  <2>4. CASE TreeNext
    <3>1. PICK t \in Thread : Begin(t) \/ Down(t) \/ Up(t) \/ Inserted(t)
      BY <2>4 DEF TreeNext
    <3>2. CASE Down(t)
      BY <2>2, <3>2, DownKeeps
    <3>3. CASE Begin(t) \/ Up(t) \/ Inserted(t)
      <4>1. Steady(A, P)'
        BY <2>2, <3>3, BeginKeeps, UpKeeps, InsertedKeeps
      <4> QED BY <4>1
    <3> QED BY <3>1, <3>2, <3>3
  <2> QED BY <2>1, <2>3, <2>4
<1>3. TreeInv => Searchable
  <2> SUFFICES ASSUME TreeInv, running = "tree" PROVE TreeSearchable
    BY DEF Searchable
  <2>1. PICK A, P : Steady(A, P)
    BY DEF TreeInv
  <2>2. \A h \in Reachable : Visits(h, h)
    BY <2>1, PlacedFound DEF Steady
  <2> QED BY <2>1, <2>2 DEF Steady, TreeSearchable
<1> QED BY <1>1, <1>2, <1>3, PTL DEF Spec


-----------------------------------------------------------------------------
(***************************************************************************)
(* Arranging the pool.                                                     *)
(***************************************************************************)

\* Before arranges S: it is a strict total order of S.
Arranges(S, Before) ==
    /\ \A x, y \in S : x # y => <<x, y>> \in Before \/ <<y, x>> \in Before
    /\ \A x \in S : <<x, x>> \notin Before
    /\ \A x, y, z \in S : <<x, y>> \in Before /\ <<y, z>> \in Before => <<x, z>> \in Before

\* Every place of the arrangement is taken: the numbers of elements before those of S
\* differ, and are below the number of all.
LEMMA RankTaken ==
  ASSUME NEW S, IsFiniteSet(S), NEW B, Arranges(S, B), NEW i \in 1 .. Cardinality(S)
  PROVE  \E x \in S : Cardinality({y \in S : <<y, x>> \in B}) = i - 1
<1> DEFINE before(x) == {y \in S : <<y, x>> \in B}
           card == Cardinality(S)
<1>0. card \in Nat
  BY FS_CardinalityType
<1>1. PICK number : number = [x \in S |-> Cardinality(before(x))]
  OBVIOUS
<1>2. ASSUME NEW x \in S
      PROVE  IsFiniteSet(before(x)) /\ number[x] = Cardinality(before(x)) /\ number[x] \in 0 .. card - 1
  <2>1. before(x) \in SUBSET S /\ x \notin before(x)
    BY DEF Arranges
  <2>2. number[x] = Cardinality(before(x))
    BY <1>1
  <2> HIDE DEF before
  <2>3. IsFiniteSet(before(x)) /\ number[x] <= card /\ number[x] # card
    BY <2>1, <2>2, FS_Subset
  <2>4. number[x] \in Nat
    BY <2>2, <2>3, FS_CardinalityType
  <2> QED BY <1>0, <2>2, <2>3, <2>4
<1>3. ASSUME NEW x \in S, NEW z \in S, <<x, z>> \in B
      PROVE  number[x] # number[z]
  <2>1. before(x) \in SUBSET before(z) /\ x \in before(z) /\ x \notin before(x)
    BY <1>3 DEF Arranges
  <2> HIDE DEF before
  <2> QED BY <1>2, <2>1, FS_Subset
<1>4. ASSUME NEW x \in S, NEW z \in S, x # z
      PROVE  number[x] # number[z]
  <2>1. CASE <<x, z>> \in B
    BY <1>3, <2>1
  <2>2. CASE <<z, x>> \in B
    BY <1>3, <2>2
  <2> QED BY <1>4, <2>1, <2>2 DEF Arranges
<1> HIDE DEF before
<1>5. PICK rank : rank = [x \in S |-> number[x] + 1]
  OBVIOUS
<1>6. \A x \in S : rank[x] = number[x] + 1 /\ number[x] \in 0 .. card - 1
  BY <1>2, <1>5
<1>7. rank \in [S -> 1 .. card]
  BY <1>0, <1>5, <1>6
<1>8. \A x, z \in S : rank[x] = rank[z] => x = z
  BY <1>4, <1>6
<1>9. IsFiniteSet(1 .. card) /\ Cardinality(1 .. card) = card
  BY <1>0, FS_Interval
<1>10. rank \in Injection(S, 1 .. card)
  BY <1>7, <1>8 DEF Injection, IsInjective
<1>11. rank \in Surjection(S, 1 .. card)
  BY <1>9, <1>10, FS_Injection
<1>12. PICK x \in S : rank[x] = i
  BY <1>11 DEF Surjection
<1>13. number[x] = i - 1 /\ number[x] = Cardinality(before(x))
  BY <1>0, <1>2, <1>6, <1>12
<1> QED BY <1>13 DEF before

\* An arrangement has as many transactions as there are places, and they are from there.
LEMMA ArrangedType ==
  ASSUME NEW T, pool \in Seq(T), NEW S \in SUBSET Places, NEW B, Arranges(S, B)
  PROVE  /\ Arranged(S, B) \in Seq(T)
         /\ IsFiniteSet(S) /\ Cardinality(S) \in Nat
         /\ Len(Arranged(S, B)) = Cardinality(S)
         /\ \A i \in 1 .. Cardinality(S) : \E x \in S : Arranged(S, B)[i] = pool[x]
<1>1. Len(pool) \in Nat /\ pool \in [1 .. Len(pool) -> T]
  BY LenProperties
<1>2. IsFiniteSet(S) /\ Cardinality(S) \in Nat
  <2>1. IsFiniteSet(Places)
    BY <1>1, FS_Interval DEF Places
  <2> QED BY <2>1, FS_Subset, FS_CardinalityType
<1> DEFINE at(i) == CHOOSE x \in S : Cardinality({y \in S : <<y, x>> \in B}) = i - 1
           card == Cardinality(S)
<1>3. \A i \in 1 .. card : at(i) \in S
  BY <1>2, RankTaken
<1>4. Arranged(S, B) = [i \in 1 .. card |-> pool[at(i)]]
  BY DEF Arranged
<1> HIDE DEF at
<1>5. \A i \in 1 .. card : pool[at(i)] \in T
  BY <1>1, <1>3 DEF Places
<1>6. Arranged(S, B) \in [1 .. card -> T] /\ DOMAIN Arranged(S, B) = 1 .. card
  BY <1>4, <1>5
<1>7. Arranged(S, B) \in Seq(T)
  BY <1>2, <1>6, SeqDef
<1>8. Len(Arranged(S, B)) = card
  <2>1. DOMAIN Arranged(S, B) = 1 .. Len(Arranged(S, B)) /\ Len(Arranged(S, B)) \in Nat
    BY <1>7, LenProperties
  <2> QED BY <1>2, <1>6, <2>1
<1> QED BY <1>2, <1>3, <1>4, <1>7, <1>8

\* What is packed, and what is in the pool, is a transaction.
Tx == [number : Nat, fee : Nat, digit : Nat]

LEMMA TransactionType ==
  ASSUME NEW n \in Nat
  PROVE  Transaction(n) \in Tx /\ Transaction(n).number = n
<1>1. (n * 3) % 4 \in Nat /\ n % Digits \in Nat
  BY PackAssumption
<1> QED BY <1>1 DEF Transaction, Tx

\* The two relations of the packaging arrange the places of the pool.
LEMMA PoolOrders ==
  ASSUME pool \in Seq(Tx), NEW S \in SUBSET Places
  PROVE  Arranges(S, Upwards) /\ Arranges(S, FeeOrder)
<1>1. Len(pool) \in Nat /\ \A i \in Places : pool[i] \in Tx
  BY LenProperties, ElementOfSeq DEF Places
<1>2. \A i \in Places : i \in Nat /\ pool[i].fee \in Nat
  BY <1>1 DEF Places, Tx
<1>3. /\ \A x, y \in Places : <<x, y>> \in Upwards <=> x < y
      /\ \A x, y \in Places : <<x, y>> \in FeeOrder <=>
            (pool[x].fee > pool[y].fee \/ (pool[x].fee = pool[y].fee /\ x < y))
  BY DEF Upwards, FeeOrder
<1>4. Arranges(S, Upwards)
  <2>1. \A x \in S : x \in Places /\ x \in Nat
    BY <1>2
  <2> QED BY <1>3, <2>1 DEF Arranges
<1>5. Arranges(S, FeeOrder)
  <2>1. \A x \in S : x \in Places /\ x \in Nat /\ pool[x].fee \in Nat
    BY <1>2
  <2>2. PICK fee : fee = [x \in S |-> pool[x].fee]
    OBVIOUS
  <2>3. /\ \A x, y \in S : <<x, y>> \in FeeOrder <=>
               (fee[x] > fee[y] \/ (fee[x] = fee[y] /\ x < y))
        /\ \A x \in S : fee[x] \in Nat /\ x \in Nat
    <3>1. \A x \in S : fee[x] = pool[x].fee /\ fee[x] \in Nat /\ x \in Nat /\ x \in Places
      BY <2>1, <2>2
    <3>2. ASSUME NEW x \in S, NEW y \in S
          PROVE  <<x, y>> \in FeeOrder <=> (fee[x] > fee[y] \/ (fee[x] = fee[y] /\ x < y))
      <4>1. x \in Places /\ y \in Places /\ fee[x] = pool[x].fee /\ fee[y] = pool[y].fee
        BY <3>1
      <4> QED BY <1>3, <4>1
    <3> QED BY <3>1, <3>2
  <2> QED BY <2>3 DEF Arranges
<1> QED BY <1>4, <1>5


-----------------------------------------------------------------------------
(***************************************************************************)
(* Packaging.                                                              *)
(***************************************************************************)

\* The state of a packaging: the times are in order, the pool is full, the scan is
\* between the first block that is not delivered and the last.
PackType ==
    /\ times \in [1 .. Blocks -> Nat]
    /\ \A i, j \in 1 .. Blocks : i <= j => times[i] <= times[j]
    /\ pool \in Seq(Tx) /\ Len(pool) = PoolSize
    /\ packed \in Seq(Seq(Tx)) /\ Len(packed) <= Blocks
    /\ first \in Nat \ {0} /\ look \in Nat /\ first <= look /\ look <= Len(packed) + 1
    /\ numbers \in Nat

\* A transaction made later has a number of its own.
Numbers ==
    /\ \A i \in 1 .. Len(pool) : pool[i].number <= numbers
    /\ \A j \in 1 .. Len(packed) : \A x \in ToSet(packed[j]) : x.number <= numbers

\* The blocks before the first are delivered: nothing of them is in the pool.
Delivered == \A j \in 1 .. first - 1 : ToSet(packed[j]) \cap ToSet(pool) = {}

\* The blocks that the scan has passed since are not: they are too close.
Passed ==
    Len(packed) < Blocks =>
       \A j \in first .. look - 1 : times[Len(packed) + 1] - times[j] < 2

\* With the mapping strategy a block holds transactions of its miner's digit.
Mapped ==
    strategy = "mapping" =>
       \A j \in 1 .. Len(packed) : \A x \in ToSet(packed[j]) : x.digit = MinerDigit(j)

PackSteady == PackType /\ Numbers /\ Delivered /\ Passed /\ Mapped /\ NotRepeated

PackInv == IF running = "packaging" THEN PackSteady ELSE packed = <<>>

LEMMA EntriesOf ==
  ASSUME NEW T, NEW s \in Seq(T)
  PROVE  /\ ToSet(s) = {s[i] : i \in 1 .. Len(s)}
         /\ \A x \in ToSet(s) : x \in T
<1>1. DOMAIN s = 1 .. Len(s)
  BY LenProperties
<1>2. \A i \in 1 .. Len(s) : s[i] \in T
  BY ElementOfSeq
<1> QED BY <1>1, <1>2 DEF ToSet

\* An arrangement holds nothing but what is in the pool.
LEMMA ArrangedFrom ==
  ASSUME pool \in Seq(Tx), NEW S \in SUBSET Places, NEW B, Arranges(S, B)
  PROVE  \A t \in ToSet(Arranged(S, B)) : \E x \in S : t = pool[x]
<1>1. /\ Arranged(S, B) \in Seq(Tx) /\ Len(Arranged(S, B)) = Cardinality(S)
      /\ \A i \in 1 .. Cardinality(S) : \E x \in S : Arranged(S, B)[i] = pool[x]
  BY ArrangedType
<1> QED BY <1>1, EntriesOf

\* The pool after a delivery is full again; what is new in it has a number of its own.
LEMMA RefilledType ==
  ASSUME PackType, NEW txs
  PROVE  /\ Refilled(txs) \in Seq(Tx) /\ Len(Refilled(txs)) = PoolSize
         /\ \A t \in ToSet(Refilled(txs)) :
              \/ t \in ToSet(pool) /\ t \notin ToSet(txs)
              \/ t.number \in numbers + 1 .. numbers + PoolSize
<1> DEFINE S == {i \in Places : pool[i] \notin ToSet(txs)}
           left == Arranged(S, Upwards)
           more == PoolSize - Len(left)
           new == [i \in 1 .. more |-> Transaction(numbers + i)]
<1>0. /\ pool \in Seq(Tx) /\ Len(pool) = PoolSize /\ numbers \in Nat /\ PoolSize \in Nat
      /\ Refilled(txs) = left \o new
  BY PackAssumption DEF PackType, Refilled
<1>1. S \in SUBSET Places
  OBVIOUS
<1>2. /\ left \in Seq(Tx) /\ Len(left) = Cardinality(S) /\ Cardinality(S) \in Nat
      /\ \A t \in ToSet(left) : \E x \in S : t = pool[x]
  <2> HIDE DEF S
  <2> QED BY <1>0, <1>1, PoolOrders, ArrangedType, ArrangedFrom
<1>3. Cardinality(S) <= PoolSize
  <2>1. IsFiniteSet(Places) /\ Cardinality(Places) = PoolSize
    BY <1>0, FS_Interval DEF Places
  <2> HIDE DEF S
  <2> QED BY <1>1, <2>1, FS_Subset
<1>4. \A t \in ToSet(left) : t \in ToSet(pool) /\ t \notin ToSet(txs)
  <2>1. ToSet(pool) = {pool[i] : i \in Places}
    BY <1>0, EntriesOf DEF Places
  <2> HIDE DEF left
  <2> QED BY <1>2, <2>1
<1> HIDE DEF S, left
<1>5. more \in 0 .. PoolSize /\ Len(left) \in Nat /\ Len(left) + more = PoolSize
  BY <1>0, <1>2, <1>3
<1> HIDE DEF more
<1>6. /\ new \in Seq(Tx) /\ Len(new) = more
      /\ \A i \in 1 .. more : new[i].number = numbers + i
  <2>1. \A i \in 1 .. more : numbers + i \in Nat /\ new[i] = Transaction(numbers + i)
    BY <1>0, <1>5
  <2>2. \A i \in 1 .. more : new[i] \in Tx /\ new[i].number = numbers + i
    BY <2>1, TransactionType
  <2>3. new \in [1 .. more -> Tx] /\ DOMAIN new = 1 .. more
    BY <2>1, <2>2
  <2> HIDE DEF new
  <2>4. new \in Seq(Tx) /\ more \in Nat
    BY <1>5, <2>3, SeqDef
  <2>5. DOMAIN new = 1 .. Len(new) /\ Len(new) \in Nat
    BY <2>4, LenProperties
  <2> QED BY <2>2, <2>3, <2>4, <2>5
<1> HIDE DEF new
<1> DEFINE all == left \o new
<1>7. /\ all \in Seq(Tx) /\ Len(all) = Len(left) + Len(new)
      /\ \A i \in 1 .. Len(left) + Len(new) :
            all[i] = IF i <= Len(left) THEN left[i] ELSE new[i - Len(left)]
  BY <1>2, <1>6, ConcatProperties
<1> HIDE DEF all
<1>8. Len(all) = PoolSize
  BY <1>5, <1>6, <1>7
<1>9. ASSUME NEW t \in ToSet(all)
      PROVE  \/ t \in ToSet(pool) /\ t \notin ToSet(txs)
             \/ t.number \in numbers + 1 .. numbers + PoolSize
  <2>1. PICK i \in 1 .. Len(all) : t = all[i]
    BY <1>7, EntriesOf
  <2>2. CASE i <= Len(left)
    <3>1. t = left[i] /\ i \in 1 .. Len(left)
      BY <1>5, <1>6, <1>7, <1>8, <2>1, <2>2
    <3>2. t \in ToSet(left)
      BY <1>2, <3>1, EntriesOf
    <3> QED BY <1>4, <3>2
  <2>3. CASE i > Len(left)
    <3>1. t = new[i - Len(left)] /\ i - Len(left) \in 1 .. more
      BY <1>5, <1>6, <1>7, <1>8, <2>1, <2>3
    <3>2. PICK k \in 1 .. more : t = new[k]
      BY <3>1
    <3>3. t.number = numbers + k
      BY <1>6, <3>2
    <3>4. numbers \in Nat /\ PoolSize \in Nat /\ more \in 0 .. PoolSize
      BY <1>0, <1>5
    <3> QED BY <3>2, <3>3, <3>4
  <2> QED BY <1>5, <1>7, <2>1, <2>2, <2>3
<1> QED BY <1>0, <1>7, <1>8, <1>9 DEF all


\* Times that never fall from one to the next never fall at all.
LEMMA TimesSorted ==
  ASSUME NEW n \in Nat, NEW t \in [1 .. n -> Nat], \A i \in 1 .. n - 1 : t[i] <= t[i + 1]
  PROVE  \A i, j \in 1 .. n : i <= j => t[i] <= t[j]
<1> SUFFICES ASSUME NEW i \in 1 .. n PROVE \A j \in 1 .. n : i <= j => t[i] <= t[j]
  OBVIOUS
<1> DEFINE S == {j \in 1 .. n : i <= j /\ ~(t[i] <= t[j])}
<1>1. S \in SUBSET Nat
  OBVIOUS
<1>2. \A j \in S : \E k \in S : k < j
  <2> SUFFICES ASSUME NEW j \in S PROVE j - 1 \in S /\ j - 1 < j
    OBVIOUS
  <2>1. j \in 1 .. n /\ i <= j /\ t[i] \in Nat /\ t[j] \in Nat /\ t[i] > t[j]
    OBVIOUS
  <2>2. i # j
    BY <2>1
  <2>3. j - 1 \in 1 .. n - 1 /\ i <= j - 1 /\ j - 1 \in 1 .. n /\ (j - 1) + 1 = j
    BY <2>1, <2>2
  <2>4. t[j - 1] <= t[j] /\ t[j - 1] \in Nat
    BY <2>3
  <2> QED BY <2>1, <2>3, <2>4
<1> HIDE DEF S
<1>3. S = {}
  BY <1>1, <1>2, NoFirst
<1> QED BY <1>3 DEF S

LEMMA PackStarts == ASSUME PackInit PROVE PackSteady
<1>0. /\ Blocks \in Nat /\ SumTime \in Nat /\ PoolSize \in Nat
      /\ pool = [i \in 1 .. PoolSize |-> Transaction(i)]
      /\ packed = <<>> /\ first = 1 /\ look = 1 /\ numbers = PoolSize
  BY PackAssumption DEF PackInit
<1>1. /\ times \in [1 .. Blocks -> Nat]
      /\ \A i, j \in 1 .. Blocks : i <= j => times[i] <= times[j]
  <2>1. times \in [1 .. Blocks -> 0 .. SumTime] /\ \A i \in 1 .. Blocks - 1 : times[i] <= times[i + 1]
    BY DEF PackInit
  <2>2. times \in [1 .. Blocks -> Nat]
    BY <2>1
  <2> QED BY <1>0, <2>1, <2>2, TimesSorted
<1>2. pool \in Seq(Tx) /\ Len(pool) = PoolSize /\ \A i \in 1 .. PoolSize : pool[i].number = i
  <2>1. \A i \in 1 .. PoolSize : i \in Nat /\ pool[i] = Transaction(i)
    BY <1>0
  <2>2. \A i \in 1 .. PoolSize : pool[i] \in Tx /\ pool[i].number = i
    BY <2>1, TransactionType
  <2>3. pool \in [1 .. PoolSize -> Tx] /\ DOMAIN pool = 1 .. PoolSize
    BY <1>0, <2>2
  <2>4. pool \in Seq(Tx)
    BY <1>0, <2>3, SeqDef
  <2>5. DOMAIN pool = 1 .. Len(pool) /\ Len(pool) \in Nat
    BY <2>4, LenProperties
  <2> QED BY <1>0, <2>2, <2>3, <2>4, <2>5
<1>3. packed \in Seq(Seq(Tx)) /\ Len(packed) = 0 /\ DOMAIN packed = {}
  <2>1. packed \in Seq(Seq(Tx)) /\ Len(packed) = 0
    BY <1>0, EmptySeq
  <2> QED BY <2>1, LenProperties
<1>4. PackType
  BY <1>0, <1>1, <1>2, <1>3 DEF PackType
<1>5. Numbers
  BY <1>0, <1>2, <1>3 DEF Numbers
<1>6. Delivered /\ Passed /\ Mapped /\ NotRepeated
  BY <1>0, <1>3 DEF Delivered, Passed, Mapped, NotRepeated
<1> QED BY <1>4, <1>5, <1>6 DEF PackSteady

\* Numbers, by the transactions themselves.
LEMMA PoolNumbers ==
  ASSUME PackType, Numbers
  PROVE  \A t \in ToSet(pool) : t \in Tx /\ t.number <= numbers
<1>1. pool \in Seq(Tx)
  BY DEF PackType
<1>2. ToSet(pool) = {pool[i] : i \in 1 .. Len(pool)} /\ \A t \in ToSet(pool) : t \in Tx
  BY <1>1, EntriesOf
<1> QED BY <1>2 DEF Numbers

\* A delivery empties the pool of the block; the blocks passed before it since the last
\* delivery would have been delivered too, as they are older: there are none.
LEMMA DeliverKeeps == ASSUME PackSteady, Deliver PROVE PackSteady'
<1>0. /\ PackType /\ Numbers /\ Delivered /\ Passed /\ Mapped /\ NotRepeated
      /\ Blocks \in Nat /\ PoolSize \in Nat
  BY PackAssumption DEF PackSteady
<1>1. /\ times \in [1 .. Blocks -> Nat]
      /\ \A i, j \in 1 .. Blocks : i <= j => times[i] <= times[j]
      /\ pool \in Seq(Tx) /\ Len(pool) = PoolSize
      /\ packed \in Seq(Seq(Tx)) /\ Len(packed) \in Nat
      /\ first \in Nat \ {0} /\ look \in Nat /\ first <= look /\ numbers \in Nat
      /\ Blocks \in Nat
  BY <1>0, LenProperties DEF PackType
<1>2. Len(packed) < Blocks /\ look <= Len(packed) /\ look' = look + 1
      /\ UNCHANGED <<strategy, times, packed>>
  BY DEF Deliver
<1>3. \A j \in 1 .. Len(packed) : \A x \in ToSet(packed[j]) : x \in Tx
  BY <1>1, ElementOfSeq, EntriesOf
<1>4. Mapped' /\ NotRepeated'
  BY <1>0, <1>2 DEF Mapped, NotRepeated
<1>5. CASE times[Len(packed) + 1] - times[look] >= 2
  <2>1. /\ pool' = Refilled(packed[look]) /\ numbers' = numbers + PoolSize
        /\ first' = look + 1
    BY <1>5 DEF Deliver
  <2>2. /\ pool' \in Seq(Tx) /\ Len(pool') = PoolSize
        /\ \A t \in ToSet(pool') : \/ t \in ToSet(pool) /\ t \notin ToSet(packed[look])
                                   \/ t.number \in numbers + 1 .. numbers + PoolSize
    BY <1>0, <2>1, RefilledType
  <2>3. PackType'
    BY <1>0, <1>1, <1>2, <2>1, <2>2 DEF PackType
  <2>4. \A t \in ToSet(pool) : t \in Tx /\ t.number <= numbers
    BY <1>0, PoolNumbers
  <2>5. \A t \in ToSet(pool') : t.number <= numbers'
    <3> SUFFICES ASSUME NEW t \in ToSet(pool') PROVE t.number <= numbers'
      OBVIOUS
    <3>1. t \in Tx /\ t.number \in Nat
      <4>1. PICK q \in Seq(Tx) : q = pool'
        BY <2>2
      <4>2. t \in Tx
        BY <4>1, EntriesOf
      <4> QED BY <4>2 DEF Tx
    <3>2. CASE t \in ToSet(pool)
      BY <1>0, <1>1, <2>1, <2>4, <3>1, <3>2
    <3>3. CASE t.number \in numbers + 1 .. numbers + PoolSize
      BY <1>0, <1>1, <2>1, <3>1, <3>3
    <3> QED BY <2>2, <3>2, <3>3
  <2>6. Numbers'
    <3>1. \A i \in 1 .. Len(pool') : pool'[i].number <= numbers'
      BY <2>2, <2>5, EntriesOf
    <3>2. ASSUME NEW j \in 1 .. Len(packed), NEW x \in ToSet(packed[j])
          PROVE  x.number <= numbers'
      <4>1. x.number \in Nat /\ x.number <= numbers
        BY <1>0, <1>3 DEF Numbers, Tx
      <4> QED BY <1>0, <1>1, <2>1, <4>1
    <3> QED BY <1>2, <3>1, <3>2 DEF Numbers
  <2>7. first = look
    <3> SUFFICES ASSUME first # look PROVE FALSE
      OBVIOUS
    <3>1. first \in first .. look - 1 /\ first \in 1 .. Blocks /\ look \in 1 .. Blocks
          /\ Len(packed) + 1 \in 1 .. Blocks
      BY <1>1, <1>2
    <3>2. times[Len(packed) + 1] - times[first] < 2 /\ times[first] <= times[look]
      BY <1>0, <1>1, <1>2, <3>1 DEF Passed
    <3>3. times[Len(packed) + 1] \in Nat /\ times[first] \in Nat /\ times[look] \in Nat
      BY <1>1, <3>1
    <3> QED BY <1>5, <3>2, <3>3
  <2>8. Delivered'
    <3> SUFFICES ASSUME NEW j \in 1 .. look, NEW t \in ToSet(packed[j]), t \in ToSet(pool')
                 PROVE  FALSE
      BY <1>1, <1>2, <2>1 DEF Delivered
    <3>1. j \in 1 .. Len(packed)
      BY <1>1, <1>2
    <3>2. t \in Tx /\ t.number \in Nat /\ t.number <= numbers
      BY <1>0, <1>3, <3>1 DEF Numbers, Tx
    <3>3. t \in ToSet(pool) /\ t \notin ToSet(packed[look])
      BY <1>1, <2>2, <3>2
    <3>4. j \in 1 .. first - 1
      <4>1. j # look
        BY <3>3
      <4> QED BY <1>1, <2>7, <4>1
    <3> QED BY <1>0, <3>3, <3>4 DEF Delivered
  <2>9. Passed'
    BY <1>1, <1>2, <2>1 DEF Passed
  <2> QED BY <1>4, <2>3, <2>6, <2>8, <2>9 DEF PackSteady
<1>6. CASE ~(times[Len(packed) + 1] - times[look] >= 2)
  <2>1. UNCHANGED <<pool, numbers, first>>
    BY <1>6 DEF Deliver
  <2>2. PackType'
    <3>1. look' \in Nat /\ first' = first /\ first <= look' /\ look' <= Len(packed) + 1
      BY <1>1, <1>2, <2>1
    <3> QED BY <1>1, <1>2, <2>1, <3>1 DEF PackType
  <2>3. Numbers' /\ Delivered'
    BY <1>0, <1>2, <2>1 DEF Numbers, Delivered
  <2>4. Passed'
    <3> SUFFICES ASSUME NEW j \in first .. look
                 PROVE  times[Len(packed) + 1] - times[j] < 2
      BY <1>1, <1>2, <2>1 DEF Passed
    <3>1. CASE j = look
      <4>1. times[Len(packed) + 1] \in Nat /\ times[look] \in Nat
        BY <1>1, <1>2
      <4> QED BY <1>6, <3>1, <4>1
    <3>2. CASE j # look
      BY <1>0, <1>1, <1>2, <3>2 DEF Passed
    <3> QED BY <3>1, <3>2
  <2> QED BY <1>4, <2>2, <2>3, <2>4 DEF PackSteady
<1> QED BY <1>5, <1>6


\* What a block takes is in the pool; with the mapping strategy it has the digit of the
\* miner. The sort keeps the pool full and adds nothing.
LEMMA PackTakes ==
  ASSUME PackType, Pack
  PROVE  \E txs \in Seq(Tx) :
           /\ packed' = Append(packed, txs)
           /\ ToSet(txs) \subseteq ToSet(pool)
           /\ strategy = "mapping" => \A x \in ToSet(txs) : x.digit = MinerDigit(Len(packed) + 1)
           /\ pool' \in Seq(Tx) /\ Len(pool') = PoolSize /\ ToSet(pool') \subseteq ToSet(pool)
<1>0. /\ pool \in Seq(Tx) /\ Len(pool) = PoolSize /\ PoolSize \in Nat
      /\ BlockSize \in 0 .. PoolSize /\ BlockSize \in Nat
  BY PackAssumption DEF PackType
<1>1. ToSet(pool) = {pool[i] : i \in Places} /\ Places = 1 .. PoolSize
  BY <1>0, EntriesOf DEF Places
<1>2. ASSUME NEW s \in Seq(Tx), NEW n \in Nat, n <= Len(s)
      PROVE  SubSeq(s, 1, n) \in Seq(Tx) /\ ToSet(SubSeq(s, 1, n)) \subseteq ToSet(s)
  <2>1. Len(s) \in Nat /\ \A i \in 1 .. n : i \in 1 .. Len(s) /\ s[i] \in Tx
    BY <1>2, LenProperties, ElementOfSeq
  <2> DEFINE r == SubSeq(s, 1, n)
  <2>2. /\ r \in Seq(Tx) /\ Len(r) = IF 1 <= n THEN n - 1 + 1 ELSE 0
        /\ \A i \in 1 .. n - 1 + 1 : r[i] = s[1 + i - 1]
    BY <2>1, SubSeqProperties
  <2> HIDE DEF r
  <2>3. Len(r) = n /\ \A i \in 1 .. n : r[i] = s[i]
    <3>1. \A i \in 1 .. n : i \in 1 .. n - 1 + 1 /\ 1 + i - 1 = i
      BY <1>2
    <3> QED BY <1>2, <2>2, <3>1
  <2>4. ToSet(r) = {r[i] : i \in 1 .. n} /\ ToSet(s) = {s[i] : i \in 1 .. Len(s)}
    BY <2>2, <2>3, EntriesOf
  <2> QED BY <2>1, <2>2, <2>3, <2>4 DEF r
<1>3. CASE strategy = "fees"
  <2> DEFINE sorted == ByFee
             txs == SubSeq(sorted, 1, BlockSize)
  <2>1. pool' = sorted /\ packed' = Append(packed, txs)
    BY <1>3 DEF Pack
  <2>2. /\ Places \in SUBSET Places /\ Arranges(Places, FeeOrder)
        /\ Cardinality(Places) = PoolSize
    BY <1>0, <1>1, PoolOrders, FS_Interval
  <2>3. /\ sorted \in Seq(Tx) /\ Len(sorted) = PoolSize
        /\ \A t \in ToSet(sorted) : \E x \in Places : t = pool[x]
    BY <1>0, <2>2, ArrangedType, ArrangedFrom DEF ByFee
  <2> HIDE DEF sorted
  <2>4. ToSet(sorted) \subseteq ToSet(pool)
    BY <1>1, <2>3
  <2>5. txs \in Seq(Tx) /\ ToSet(txs) \subseteq ToSet(sorted)
    BY <1>0, <1>2, <2>3
  <2> HIDE DEF txs
  <2> QED BY <1>3, <2>1, <2>3, <2>4, <2>5
<1>4. CASE strategy = "random"
  <2>1. PICK pick \in [1 .. BlockSize -> 1 .. PoolSize] :
           packed' = Append(packed, [i \in 1 .. BlockSize |-> pool[pick[i]]])
    BY <1>4 DEF Pack
  <2>2. pool' = pool
    BY <1>4 DEF Pack
  <2>3. PICK txs : txs = [i \in 1 .. BlockSize |-> pool[pick[i]]]
    OBVIOUS
  <2>4. \A i \in 1 .. BlockSize : txs[i] = pool[pick[i]] /\ pick[i] \in Places
    BY <1>1, <2>3
  <2>5. \A i \in 1 .. BlockSize : txs[i] \in ToSet(pool) /\ txs[i] \in Tx
    BY <1>0, <1>1, <2>4, EntriesOf
  <2>6. txs \in Seq(Tx)
    <3>1. txs \in [1 .. BlockSize -> Tx]
      BY <2>3, <2>5
    <3> QED BY <1>0, <3>1, SeqDef
  <2>7. DOMAIN txs = 1 .. BlockSize
    BY <2>3
  <2>8. ToSet(txs) \subseteq ToSet(pool)
    BY <2>5, <2>7 DEF ToSet
  <2> QED BY <1>0, <1>4, <2>1, <2>2, <2>3, <2>6, <2>8
<1>5. CASE strategy = "mapping"
  <2> DEFINE i == Len(packed) + 1
             S == {j \in Places : pool[j].digit = MinerDigit(i)}
             mine == Arranged(S, Upwards)
             n == IF Len(mine) < BlockSize + 1 THEN Len(mine) ELSE BlockSize + 1
             txs == SubSeq(mine, 1, n)
  <2>1. pool' = pool /\ packed' = Append(packed, txs)
    BY <1>5 DEF Pack, PackMapping
  <2>2. \A x \in S : x \in Places /\ pool[x].digit = MinerDigit(i)
    OBVIOUS
  <2>3. S \in SUBSET Places
    OBVIOUS
  <2> HIDE DEF S, i
  <2>4. mine \in Seq(Tx) /\ \A t \in ToSet(mine) : \E x \in S : t = pool[x]
    BY <1>0, <2>3, PoolOrders, ArrangedType, ArrangedFrom
  <2> HIDE DEF mine
  <2>5. Len(mine) \in Nat
    BY <2>4, LenProperties
  <2>6. n \in Nat /\ n <= Len(mine)
    BY <1>0, <2>5
  <2> HIDE DEF n
  <2>7. txs \in Seq(Tx) /\ ToSet(txs) \subseteq ToSet(mine)
    BY <1>2, <2>4, <2>6
  <2> HIDE DEF txs
  <2>8. \A t \in ToSet(txs) : t \in ToSet(pool) /\ t.digit = MinerDigit(i)
    BY <1>1, <2>2, <2>4, <2>7
  <2> QED BY <1>0, <2>1, <2>7, <2>8 DEF i
<1> QED BY <1>3, <1>4, <1>5 DEF Pack

\* The next block: of the blocks before it those a delivery time older are delivered, so
\* it finds nothing of them in the pool; and its digit keeps it off those of others.
LEMMA PackKeeps == ASSUME PackSteady, Pack PROVE PackSteady'
<1>0. /\ PackType /\ Numbers /\ Delivered /\ Passed /\ Mapped /\ NotRepeated
      /\ Blocks \in Nat /\ PoolSize \in Nat
  BY PackAssumption DEF PackSteady
<1>1. /\ times \in [1 .. Blocks -> Nat]
      /\ \A i, j \in 1 .. Blocks : i <= j => times[i] <= times[j]
      /\ pool \in Seq(Tx)
      /\ packed \in Seq(Seq(Tx)) /\ Len(packed) \in Nat /\ DOMAIN packed = 1 .. Len(packed)
      /\ first \in Nat \ {0} /\ look \in Nat /\ first <= look /\ look <= Len(packed) + 1
      /\ numbers \in Nat
  BY <1>0, LenProperties DEF PackType
<1>2. Len(packed) < Blocks /\ look > Len(packed) /\ look' = first
      /\ UNCHANGED <<strategy, times, first, numbers>>
  BY DEF Pack
<1>3. PICK txs \in Seq(Tx) :
         /\ packed' = Append(packed, txs)
         /\ ToSet(txs) \subseteq ToSet(pool)
         /\ strategy = "mapping" => \A x \in ToSet(txs) : x.digit = MinerDigit(Len(packed) + 1)
         /\ pool' \in Seq(Tx) /\ Len(pool') = PoolSize /\ ToSet(pool') \subseteq ToSet(pool)
  BY <1>0, PackTakes
<1>4. PICK k : k = Len(packed) + 1
  OBVIOUS
<1>5. /\ packed' \in Seq(Seq(Tx)) /\ Len(packed') = k /\ DOMAIN packed' = 1 .. k
      /\ packed'[k] = txs /\ \A i \in 1 .. k - 1 : packed'[i] = packed[i]
      /\ k \in 1 .. Blocks /\ look = k /\ Len(packed) = k - 1
  <2>1. /\ packed' \in Seq(Seq(Tx)) /\ Len(packed') = Len(packed) + 1
        /\ \A i \in 1 .. Len(packed) : packed'[i] = packed[i]
        /\ packed'[Len(packed) + 1] = txs
    BY <1>1, <1>3, AppendProperties
  <2>2. DOMAIN packed' = 1 .. Len(packed')
    BY <2>1, LenProperties
  <2> QED BY <1>0, <1>1, <1>2, <1>4, <2>1, <2>2
<1>6. \A t \in ToSet(pool) : t \in Tx /\ t.number <= numbers
  BY <1>0, PoolNumbers
<1>7. PackType'
  <2>1. /\ first' \in Nat \ {0} /\ look' \in Nat /\ first' <= look' /\ look' <= Len(packed') + 1
        /\ Len(packed') <= Blocks
    BY <1>0, <1>1, <1>2, <1>5
  <2> QED BY <1>1, <1>2, <1>3, <1>5, <2>1 DEF PackType
<1>8. Numbers'
  <2>1. \A i \in 1 .. Len(pool') : pool'[i] \in ToSet(pool)
    <3>1. PICK q \in Seq(Tx) : q = pool'
      BY <1>3
    <3>2. ToSet(q) = {q[i] : i \in 1 .. Len(q)}
      BY EntriesOf
    <3>3. ToSet(q) \subseteq ToSet(pool)
      BY <1>3, <3>1
    <3> QED BY <3>1, <3>2, <3>3
  <2>2. ASSUME NEW j \in 1 .. k, NEW x \in ToSet(packed'[j])
        PROVE  x.number <= numbers
    <3>1. CASE j = k
      BY <1>3, <1>5, <1>6, <3>1
    <3>2. CASE j # k
      <4>1. j \in 1 .. Len(packed) /\ x \in ToSet(packed[j])
        BY <1>5, <3>2
      <4> QED BY <1>0, <4>1 DEF Numbers
    <3> QED BY <3>1, <3>2
  <2> QED BY <1>2, <1>5, <1>6, <2>1, <2>2 DEF Numbers
<1>9. Delivered'
  <2> SUFFICES ASSUME NEW j \in 1 .. first - 1
               PROVE  ToSet(packed'[j]) \cap ToSet(pool') = {}
    BY <1>2 DEF Delivered
  <2>1. j \in 1 .. k - 1
    BY <1>1, <1>5
  <2> QED BY <1>0, <1>3, <1>5, <2>1 DEF Delivered
<1>10. Passed'
  BY <1>1, <1>2 DEF Passed
<1>11. Mapped'
  <2> SUFFICES ASSUME strategy = "mapping", NEW j \in 1 .. k, NEW x \in ToSet(packed'[j])
               PROVE  x.digit = MinerDigit(j)
    BY <1>2, <1>5 DEF Mapped, MinerDigit
  <2>1. CASE j = k
    BY <1>3, <1>4, <1>5, <2>1
  <2>2. CASE j # k
    <3>1. j \in 1 .. Len(packed) /\ x \in ToSet(packed[j])
      BY <1>5, <2>2
    <3> QED BY <1>0, <3>1 DEF Mapped
  <2> QED BY <2>1, <2>2
<1>12. NotRepeated'
  <2> SUFFICES ASSUME NEW i \in 1 .. k, NEW j \in 1 .. k, i < j,
                      \/ times[j] - times[i] >= 2
                      \/ strategy = "mapping" /\ MinerDigit(i) # MinerDigit(j)
               PROVE  ToSet(packed'[i]) \cap ToSet(packed'[j]) = {}
    BY <1>2, <1>5 DEF NotRepeated, MinerDigit
  <2>1. CASE j # k
    <3>1. i \in 1 .. k - 1 /\ j \in 1 .. k - 1
      BY <1>0, <1>5, <2>1
    <3>2. i \in DOMAIN packed /\ j \in DOMAIN packed
          /\ packed'[i] = packed[i] /\ packed'[j] = packed[j]
      BY <1>1, <1>5, <3>1
    <3> QED BY <1>0, <3>2 DEF NotRepeated
  <2>2. CASE j = k
    <3>1. i \in 1 .. Len(packed) /\ packed'[i] = packed[i] /\ packed'[j] = txs
      BY <1>5, <2>2
    <3>2. CASE times[j] - times[i] >= 2
      <4>1. i \notin first .. look - 1
        <5> SUFFICES ASSUME i \in first .. look - 1 PROVE FALSE
          OBVIOUS
        <5>1. times[Len(packed) + 1] - times[i] < 2
          BY <1>0, <1>2 DEF Passed
        <5>2. times[j] \in Nat /\ times[i] \in Nat /\ Len(packed) + 1 = j
          <6>1. i \in 1 .. Blocks /\ j \in 1 .. Blocks
            BY <1>0, <1>5
          <6> QED BY <1>1, <1>4, <2>2, <6>1
        <5> QED BY <3>2, <5>1, <5>2
      <4>2. i \in 1 .. first - 1
        BY <1>1, <1>5, <3>1, <4>1
      <4>3. ToSet(packed[i]) \cap ToSet(pool) = {}
        BY <1>0, <4>2 DEF Delivered
      <4> QED BY <1>3, <3>1, <4>3
    <3>3. CASE strategy = "mapping" /\ MinerDigit(i) # MinerDigit(j)
      <4>1. \A x \in ToSet(packed[i]) : x.digit = MinerDigit(i)
        BY <1>0, <3>1, <3>3 DEF Mapped
      <4>2. \A x \in ToSet(txs) : x.digit = MinerDigit(j)
        BY <1>3, <1>4, <2>2, <3>3
      <4> QED BY <3>1, <3>3, <4>1, <4>2
    <3> QED BY <3>2, <3>3
  <2> QED BY <2>1, <2>2
<1> QED BY <1>7, <1>8, <1>9, <1>10, <1>11, <1>12 DEF PackSteady

\* Blocks a delivery time apart share no transaction, with any strategy, any number of
\* blocks at any times, and any pool that holds a block; nor do blocks of miners with
\* different digits, with the mapping strategy.
THEOREM NotRepeatedHolds == Spec => []NotRepeated
<1>1. Init => PackInv
  <2> SUFFICES ASSUME Init PROVE PackInv
    OBVIOUS
  <2>1. CASE running = "packaging"
    BY <2>1, PackStarts DEF Init, PackInv
  <2>2. CASE running # "packaging"
    BY <2>2 DEF Init, NoPackaging, PackInv
  <2> QED BY <2>1, <2>2
<1>2. PackInv /\ [Next]_vars => PackInv'
  <2> SUFFICES ASSUME PackInv, [Next]_vars PROVE PackInv'
    OBVIOUS
  <2>1. CASE UNCHANGED <<running, packVars>>
    <3>1. CASE running = "packaging"
      BY <2>1, <3>1 DEF PackInv, PackSteady, PackType, Numbers, Delivered, Passed, Mapped,
                        NotRepeated, MinerDigit, packVars
    <3>2. CASE running # "packaging"
      BY <2>1, <3>2 DEF PackInv, packVars
    <3> QED BY <3>1, <3>2
  <2>2. CASE running = "packaging" /\ PackNext /\ UNCHANGED running
    BY <2>2, DeliverKeeps, PackKeeps DEF PackInv, PackNext
  <2> QED BY <2>1, <2>2 DEF Next, vars
<1>3. PackInv => NotRepeated
  BY DEF PackInv, PackSteady, NotRepeated
<1> QED BY <1>1, <1>2, <1>3, PTL DEF Spec

=============================================================================
